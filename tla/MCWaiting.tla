----------------------------- MODULE MCWaiting -----------------------------
(***************************************************************************)
(* Instance for everything in the steward that waits: calls into plugins,  *)
(* prompts, appointments and watches.  The parts share no state, so a      *)
(* behaviour is of one part, its focus, and the state space is the sum of  *)
(* theirs.  Within a part, Small bounds combinations of rare events that   *)
(* the part's own bounds allow one by one.                                 *)
(***************************************************************************)
EXTENDS PluginDispatch, PromptLedger, Appointments, Watches

VARIABLE focus

waitingVars == <<dispatchVars, promptVars, apptVars, watchVars, focus>>

MCReaches == {<<"a", "b">>}
MCCycle == {<<"a", "b">>, <<"b", "a">>}
MCSources == [p \in Plugins |-> IF p = "a" THEN {"server", "framework"} ELSE {"client"}]
MCServerOnly == [p \in Plugins |-> {"server"}]
MCSpecs ==
    {[kind |-> "one_shot", ms |-> 2, max_fires |-> 0, miss_policy |-> "grace"],
     [kind |-> "periodic", ms |-> 1, max_fires |-> 2, miss_policy |-> "catchup"],
     [kind |-> "daily", ms |-> 2, max_fires |-> 0, miss_policy |-> "drop"]}
MCWatchSpecs ==
    {[predicate |-> "greater_than", cooldown_ms |-> 0, minimum_duration_ms |-> 2],
     [predicate |-> "hysteresis", cooldown_ms |-> 2, minimum_duration_ms |-> 0],
     [predicate |-> "not_greater_than", cooldown_ms |-> 2, minimum_duration_ms |-> 1]}

Used(f, S) == Cardinality({x \in S : f[x].at # "new"})
Count(b) == IF b THEN 1 ELSE 0

\* One connection, on which at most two calls meet at the constant cid; a chain of two,
\* with server requests to the first and health checks of the second; or, to fill the
\* handoff queue of the first, a chain that stays up: a request, its dispatch, a push
\* and two more requests.
SmallDispatch ==
    LET down == {p \in Plugins : ~up[p] \/ p \notin by_shelf}
    IN  \/ /\ focus = "connection" /\ On("b") = {} /\ pc[4] = "new"
           /\ (\E n \in Tokens : req[n].source = "framework") => pc[3] = "new"
           /\ Cardinality(down) <= 1
        \/ /\ focus = "chain" /\ pc[4] = "new"
           /\ \A n \in Tokens : req[n].verb # "push" /\ req[n].source # "framework"
           /\ Cardinality(down) <= 1
        \/ /\ focus = "jam" /\ down = {}
           /\ \A n \in {1, 2, 4, 5} : req[n].verb = "request" /\ req[n].source = "server"
           /\ pc[2] # "new" => req[2].parent = 1
           /\ pc[3] # "new" => req[3].verb = "push" /\ To(3) = "a"
           /\ \A n \in {4, 5} : To(n) = "a"
SmallPrompts == Used(ask, Issues) + Used(act, Acts) + pboots <= 3
SmallAppointments ==
    /\ adjusts + distrusts + aboots + Count(failed_write) <= 3 - Used(call, Calls)
    /\ call[1].key = 1
SmallWatches == emitted + 2 * Used(wcall, WatchCalls) + doubts + steps <= 5 /\ wcall[1].key = 1

WaitingInit ==
    /\ focus \in {"connection", "chain", "jam", "prompts", "appointments", "watches"}
    /\ DispatchInit /\ PromptInit /\ ApptInit /\ WatchInit
    /\ offset = 1

DispatchPart ==
    /\ focus \in {"connection", "chain", "jam"} /\ UNCHANGED <<focus, promptVars, apptVars, watchVars>>
    /\ DispatchNext /\ SmallDispatch'
PromptPart ==
    /\ focus = "prompts" /\ UNCHANGED <<focus, dispatchVars, apptVars, watchVars>>
    /\ PromptNext /\ SmallPrompts'
AppointmentPart ==
    /\ focus = "appointments" /\ UNCHANGED <<focus, dispatchVars, promptVars, watchVars>>
    /\ ApptNext /\ SmallAppointments'
WatchPart ==
    /\ focus = "watches" /\ UNCHANGED <<focus, dispatchVars, promptVars, apptVars>>
    /\ WatchNext /\ SmallWatches'

WaitingNext == DispatchPart \/ PromptPart \/ AppointmentPart \/ WatchPart

\* The fairness of each part's own specification, in behaviours of that part.
WaitingFairness ==
    /\ WF_dispatchVars(focus \in {"connection", "chain", "jam"} /\ Progress)
    /\ WF_promptVars(focus = "prompts" /\ PromptProgress)
    /\ WF_apptVars(focus = "appointments" /\ LoopStep)
    /\ WF_apptVars(focus = "appointments" /\ CallStep)
    /\ WF_apptVars(focus = "appointments" /\ Tick)
    /\ WF_apptVars(focus = "appointments" /\ SetTrust /\ ~trust)

WaitingSpec == WaitingInit /\ [][WaitingNext]_waitingVars /\ WaitingFairness

\* One focus only.
ChainSpec == focus = "chain" /\ WaitingSpec
AppointmentSpec == focus = "appointments" /\ WaitingSpec
=============================================================================
