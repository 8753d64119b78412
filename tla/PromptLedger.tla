---------------------------- MODULE PromptLedger ----------------------------
(***************************************************************************)
(* Prompts a plugin puts to the operator (prompts.rs): the ledger with its *)
(* responder slot, its waiters and its mirror in the prompts table; the    *)
(* per-prompt task of the wire client that races the waiter against the    *)
(* deadline; the consumer's answer and cancel; the boot.  The widget on    *)
(* the prompts.active shelf is left to the UI stockings.                   *)
(*                                                                         *)
(* An issue n is one request frame of the plugin, numbered in arrival      *)
(* order; an act c is one consumer request.  complete_with_outcome takes   *)
(* the entries lock and then the waiters lock, so it is two steps, and so  *)
(* is issue_with_waiter.  Table writes are spawned tasks (jobs) that land  *)
(* in any order.                                                           *)
(***************************************************************************)
EXTENDS Naturals, FiniteSets

CONSTANTS Prompts,      \* (plugin, prompt_id) keys
          Sessions,     \* consumer connections
          NoSession,
          MaxIssues, MaxActs, MaxBoots

ASSUME PromptAssumption == Prompts # {} /\ MaxIssues \in Nat /\ MaxActs \in Nat

VARIABLES responder,    \* the slot
          entries,      \* [Prompts -> the entry's state, and the issue it is from]
          waiters,      \* [Prompts -> issue or 0]
          prows,        \* [Prompts -> state of the table's row]
          jobs,         \* spawned writes that have not run
          ask,          \* per issue: key and where its task stands
          inbox,        \* per issue: what its oneshot holds
          reply,        \* per issue: the outcome sent to the plugin
          act,          \* per consumer request
          closed,       \* per issue: the state its own entry was closed with
          pboots

promptVars == <<responder, entries, waiters, prows, jobs, ask, inbox, reply, act,
                closed, pboots>>

Issues == 1..MaxIssues
Acts == 1..MaxActs
Outcomes == {"answered", "cancelled"}
NoEntry == [state |-> "absent", issue |-> 0]
NoAct == [key |-> CHOOSE k \in Prompts : TRUE, outcome |-> "none", at |-> "new"]

PromptInit ==
    /\ responder = NoSession
    /\ entries = [k \in Prompts |-> NoEntry]
    /\ waiters = [k \in Prompts |-> 0]
    /\ prows = [k \in Prompts |-> "absent"]
    /\ jobs = {}
    /\ ask = [n \in Issues |-> [key |-> CHOOSE k \in Prompts : TRUE, at |-> "new"]]
    /\ inbox = [n \in Issues |-> "none"]
    /\ reply = [n \in Issues |-> "none"]
    /\ act = [c \in Acts |-> NoAct]
    /\ closed = [n \in Issues |-> "open"]
    /\ pboots = 0

Job(op, k, n, state) == [op |-> op, key |-> k, issue |-> n, state |-> state]
Respond(n, outcome) ==
    /\ ask' = [ask EXCEPT ![n].at = "done"]
    /\ reply' = [reply EXCEPT ![n] = outcome]

-----------------------------------------------------------------------------
\* The slot: negotiate claims it, release and the end of the connection free it.
try_claim_responder(s) ==
    /\ responder \in {NoSession, s}
    /\ responder' = s
    /\ UNCHANGED <<entries, waiters, prows, jobs, ask, inbox, reply, act, closed, pboots>>

release_responder(s) ==
    /\ responder = s
    /\ responder' = NoSession
    /\ UNCHANGED <<entries, waiters, prows, jobs, ask, inbox, reply, act, closed, pboots>>

-----------------------------------------------------------------------------
\* The plugin's request.  One reader loop handles a plugin's frames, one at a time.
NextIssue(n) ==
    /\ ask[n].at = "new"
    /\ \A m \in 1..(n - 1) : ask[m].at \notin {"new", "issued"}

forward_request_user_interaction(n) ==
    /\ NextIssue(n)
    /\ responder = NoSession
    /\ Respond(n, "refused")
    /\ UNCHANGED <<responder, entries, waiters, prows, jobs, inbox, act, closed, pboots>>

issue(n, k) ==
    /\ NextIssue(n)
    /\ responder # NoSession
    /\ entries' = [entries EXCEPT ![k] = [state |-> "open", issue |-> n]]
    /\ waiters' = [waiters EXCEPT ![k] = 0]
    /\ jobs' = jobs \cup {Job("issue", k, n, "open")}
    /\ ask' = [ask EXCEPT ![n] = [key |-> k, at |-> "issued"]]
    /\ UNCHANGED <<responder, prows, inbox, reply, act, closed, pboots>>

issue_with_waiter(n) ==
    /\ ask[n].at = "issued"
    /\ waiters' = [waiters EXCEPT ![ask[n].key] = n]
    /\ ask' = [ask EXCEPT ![n].at = "waiting"]
    /\ UNCHANGED <<responder, entries, prows, jobs, inbox, reply, act, closed, pboots>>

\* The waiter's arm of the select: an outcome, or a dropped sender.
WaiterFires(n) ==
    /\ ask[n].at = "waiting"
    /\ \/ inbox[n] # "none" /\ Respond(n, inbox[n])
       \/ inbox[n] = "none" /\ waiters[ask[n].key] # n /\ Respond(n, "superseded")
    /\ UNCHANGED <<responder, entries, waiters, prows, jobs, inbox, act, closed, pboots>>

\* Mutant: nothing expires while no session holds the slot.
ExpireAttended(n) ==
    /\ ask[n].at = "waiting"
    /\ inbox[n] = "none"
    /\ waiters[ask[n].key] = n
    /\ responder # NoSession
    /\ ask' = [ask EXCEPT ![n].at = "expired"]
    /\ UNCHANGED <<responder, entries, waiters, prows, jobs, inbox, reply, act, closed, pboots>>

\* The deadline's arm: taken only when the waiter has nothing (biased).
Expire(n) ==
    /\ ask[n].at = "waiting"
    /\ inbox[n] = "none"
    /\ waiters[ask[n].key] = n
    /\ ask' = [ask EXCEPT ![n].at = "expired"]
    /\ UNCHANGED <<responder, entries, waiters, prows, jobs, inbox, reply, act, closed, pboots>>

-----------------------------------------------------------------------------
\* complete_with_outcome, for a consumer's act and for an expired task.

\* An entry restored at boot (issue 0) has no request of this boot behind it.
Closed(n, state) == IF n = 0 THEN closed ELSE [closed EXCEPT ![n] = state]

\* Mutant: a terminal entry is closed again.
TransitionAny(k, state) ==
    /\ entries[k].state # "absent"
    /\ entries' = [entries EXCEPT ![k].state = state]
    /\ closed' = Closed(entries[k].issue, state)
    /\ jobs' = jobs \cup {Job("update", k, entries[k].issue, state)}
transition_to(k, state) ==
    /\ entries[k].state = "open"
    /\ entries' = [entries EXCEPT ![k].state = state]
    /\ closed' = Closed(entries[k].issue, state)
    /\ jobs' = jobs \cup {Job("update", k, entries[k].issue, state)}
NoTransition(k) == entries[k].state # "open" /\ UNCHANGED <<entries, closed, jobs>>

\* The waiter of the key, whoever registered it, is fired.
FireWaiter(k, outcome) ==
    /\ waiters' = [waiters EXCEPT ![k] = 0]
    /\ inbox' = IF waiters[k] = 0 THEN inbox ELSE [inbox EXCEPT ![waiters[k]] = outcome]

\* answer_user_interaction and cancel_user_interaction, from the holder of the slot.
handle_answer_user_interaction(c, k, outcome) ==
    /\ act[c].at = "new" /\ \A b \in 1..(c - 1) : act[b].at # "new"
    /\ responder # NoSession
    /\ \/ /\ transition_to(k, outcome)
          /\ act' = [act EXCEPT ![c] = [key |-> k, outcome |-> outcome, at |-> "fire"]]
       \/ /\ NoTransition(k)
          /\ act' = [act EXCEPT ![c] = [key |-> k, outcome |-> "not_found", at |-> "done"]]
    /\ UNCHANGED <<responder, waiters, prows, ask, inbox, reply, pboots>>

ActFires(c) ==
    /\ act[c].at = "fire"
    /\ FireWaiter(act[c].key, act[c].outcome)
    /\ act' = [act EXCEPT ![c].at = "done"]
    /\ UNCHANGED <<responder, entries, prows, jobs, ask, reply, closed, pboots>>

TimeOut(n) ==
    /\ ask[n].at = "expired"
    /\ \/ /\ transition_to(ask[n].key, "timed_out")
          /\ ask' = [ask EXCEPT ![n].at = "fire"]
          /\ UNCHANGED reply
       \/ NoTransition(ask[n].key) /\ Respond(n, "timed_out")
    /\ UNCHANGED <<responder, waiters, prows, inbox, act, pboots>>

TimeOutFires(n) ==
    /\ ask[n].at = "fire"
    /\ FireWaiter(ask[n].key, "timed_out")
    /\ Respond(n, "timed_out")
    /\ UNCHANGED <<responder, entries, prows, jobs, act, closed, pboots>>

-----------------------------------------------------------------------------
\* A spawned write: record_prompt_issue or update_prompt_state.  An update without a
\* row changes nothing, and a failed transaction is logged and forgotten.
RunJob(j) ==
    /\ j \in jobs
    /\ jobs' = jobs \ {j}
    /\ \/ j.op = "issue" /\ prows' = [prows EXCEPT ![j.key] = "open"]
       \/ /\ j.op = "update"
          /\ prows' = [prows EXCEPT ![j.key] = IF @ = "absent" THEN @ ELSE j.state]
       \/ UNCHANGED prows
    /\ UNCHANGED <<responder, entries, waiters, ask, inbox, reply, act, closed, pboots>>

\* A boot: open rows whose deadline has passed are closed (unless the write fails), the
\* others come back without a waiter or a timer.
rehydrate_from_persistence ==
    /\ pboots < MaxBoots
    /\ \E past \in SUBSET {k \in Prompts : prows[k] = "open"} :
         /\ \E written \in SUBSET past :
              prows' = [k \in Prompts |-> IF k \in written THEN "timed_out" ELSE prows[k]]
         /\ entries' = [k \in Prompts |->
                          IF prows[k] = "open" /\ k \notin past
                          THEN [state |-> "open", issue |-> 0] ELSE NoEntry]
    /\ responder' = NoSession
    /\ waiters' = [k \in Prompts |-> 0]
    /\ jobs' = {}
    /\ ask' = [n \in Issues |->
                 IF ask[n].at \in {"new", "done"} THEN ask[n] ELSE [ask[n] EXCEPT !.at = "lost"]]
    /\ act' = [c \in Acts |-> IF act[c].at = "fire" THEN [act[c] EXCEPT !.at = "done"] ELSE act[c]]
    /\ pboots' = pboots + 1
    /\ UNCHANGED <<inbox, reply, closed>>

-----------------------------------------------------------------------------
\* What tasks and timers do by themselves.
PromptProgress ==
    \/ \E n \in Issues :
         issue_with_waiter(n) \/ WaiterFires(n) \/ Expire(n) \/ TimeOut(n) \/ TimeOutFires(n)
    \/ \E c \in Acts : ActFires(c)
    \/ \E j \in jobs : RunJob(j)

PromptNext ==
    \/ PromptProgress
    \/ \E s \in Sessions : try_claim_responder(s) \/ release_responder(s)
    \/ \E n \in Issues : forward_request_user_interaction(n)
    \/ \E n \in Issues, k \in Prompts : issue(n, k)
    \/ \E c \in Acts, k \in Prompts, outcome \in Outcomes :
         handle_answer_user_interaction(c, k, outcome)
    \/ rehydrate_from_persistence

PromptSpec == PromptInit /\ [][PromptNext]_promptVars /\ WF_promptVars(PromptProgress)

-----------------------------------------------------------------------------
Others(n) == {m \in Issues \ {n} : ask[m].at # "new" /\ reply[m] # "refused"
                                    /\ ask[m].key = ask[n].key}

\* What the plugin is told has its cause.  Answered and cancelled come from a consumer's
\* act on that prompt, a supersession from a later issue.  For a prompt issued once the
\* ledger agrees: told answered or cancelled, its entry was closed so; told timed out, its
\* entry is closed, though perhaps by an answer that came before the waiter was registered
\* or after its timer (issue, complete_with_outcome, the select of the waiter task).
OutcomeAgrees ==
    \A n \in Issues :
      ask[n].at = "done" =>
        /\ reply[n] \in Outcomes =>
             \E c \in Acts : act[c].key = ask[n].key /\ act[c].outcome = reply[n]
        /\ reply[n] = "superseded" => \E m \in Others(n) : m > n
        /\ Others(n) = {} =>
             /\ reply[n] \in Outcomes => closed[n] = reply[n]
             /\ reply[n] = "timed_out" => closed[n] # "open"

\* Every request that is parked is answered, whether or not anybody answers the prompt,
\* unless the steward restarts: again and again no request is parked.
RequestsAnswered == []<>(\A n \in Issues : ask[n].at \in {"new", "done", "lost"})
=============================================================================
