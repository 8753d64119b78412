---------------------------- MODULE PromptProofs ----------------------------
(***************************************************************************)
(* What a plugin is told of its prompt is what happened to it, for any     *)
(* prompts, issues, acts and boots.                                        *)
(***************************************************************************)
EXTENDS PromptLedger, TLAPS

PromptStates == {"absent", "open", "answered", "cancelled", "timed_out"}

PromptType ==
    /\ entries \in [Prompts -> [state : PromptStates, issue : Nat]]
    /\ waiters \in [Prompts -> Nat]
    /\ prows \in [Prompts -> PromptStates]
    /\ jobs \subseteq [op : {"issue", "update"}, key : Prompts, issue : Nat, state : PromptStates]
    /\ ask \in [Issues -> [key : Prompts,
                           at : {"new", "issued", "waiting", "expired", "fire", "done", "lost"}]]
    /\ inbox \in [Issues -> {"none", "answered", "cancelled", "timed_out"}]
    /\ reply \in [Issues -> {"none", "refused", "answered", "cancelled", "timed_out", "superseded"}]
    /\ act \in [Acts -> [key : Prompts, outcome : {"none", "answered", "cancelled", "not_found"},
                         at : {"new", "fire", "done"}]]
    /\ closed \in [Issues -> {"open", "answered", "cancelled", "timed_out"}]

\* The plugin has put prompt k, as issue n.
Asked(n, k) == n \in Issues /\ ask[n].at # "new" /\ reply[n] # "refused" /\ ask[n].key = k
Known(k) == \E n \in Issues : Asked(n, k)
Once(n) == \A m \in Issues : Asked(m, ask[n].key) => m = n
Superseded(n) == \E m \in Issues : Asked(m, ask[n].key) /\ m > n
Told(k, outcome) == \E c \in Acts : act[c].key = k /\ act[c].outcome = outcome
Parked(n) == ask[n].at \in {"issued", "waiting", "expired", "fire"}

\* The ledger, the waiters and the table speak of prompts that were put, and an entry of this
\* boot was closed as its issue was.
KeyRule(k) ==
    LET e == entries[k]
    IN  /\ e.state # "absent" \/ prows[k] # "absent" => Known(k)
        /\ e.issue # 0 => Asked(e.issue, k) /\ closed[e.issue] = e.state
        /\ waiters[k] # 0 => Asked(waiters[k], k) /\ ask[waiters[k]].at # "issued"

\* What a request of the plugin knows.
AskRule(n) ==
    /\ ask[n].at # "done" => reply[n] = "none"
    /\ ask[n].at # "new" => \A m \in 1..(n - 1) : ask[m].at \notin {"new", "issued"}
    /\ ask[n].at = "new" => closed[n] = "open"
    /\ ask[n].at \in {"new", "issued"} => inbox[n] = "none"
    /\ inbox[n] \in Outcomes => Told(ask[n].key, inbox[n])
    /\ ask[n].at = "waiting" /\ inbox[n] = "none" /\ waiters[ask[n].key] # n => Superseded(n)

\* A prompt put once: its entry is the request's own while that is parked.
SoleRule(n) ==
    Parked(n) /\ Once(n) =>
      /\ entries[ask[n].key].issue = n
      /\ inbox[n] # "none" => closed[n] = inbox[n]
      /\ ask[n].at = "fire" => closed[n] # "open"

\* A consumer's act between the two locks has closed the entry.
ActRule(c) ==
    /\ act[c].at = "new" => act[c].outcome = "none"
    /\ act[c].at = "fire" =>
         /\ act[c].outcome \in Outcomes /\ Known(act[c].key)
         /\ \A n \in Issues : Parked(n) /\ ask[n].key = act[c].key /\ Once(n) =>
              closed[n] = act[c].outcome

\* OutcomeAgrees for one request.
Agrees(n) ==
    ask[n].at = "done" =>
      /\ reply[n] \in Outcomes => Told(ask[n].key, reply[n])
      /\ reply[n] = "superseded" => Superseded(n)
      /\ Once(n) => /\ reply[n] \in Outcomes => closed[n] = reply[n]
                    /\ reply[n] = "timed_out" => closed[n] # "open"

PromptInv ==
    /\ PromptType
    /\ \A k \in Prompts : KeyRule(k)
    /\ \A n \in Issues : AskRule(n) /\ SoleRule(n) /\ Agrees(n)
    /\ \A c \in Acts : ActRule(c)
    /\ \A j \in jobs : Known(j.key)

\* What every step leaves standing: what was put and told stays so, and an issue is closed once.
Frame ==
    /\ \A m \in Issues : \A k \in Prompts : Asked(m, k) => Asked(m, k)'
    /\ \A k \in Prompts : \A outcome \in Outcomes : Told(k, outcome) => Told(k, outcome)'
    /\ \A m \in Issues : \/ closed'[m] = closed[m]
                         \/ closed[m] = "open" /\ ask[m].at # "new"
    /\ \A m \in Issues : ask[m].at # "new" =>
         /\ ask'[m].at # "new" /\ ask'[m].key = ask[m].key
         /\ ask[m].at # "issued" => ask'[m].at # "issued"
         /\ ask[m].at = "done" => ask'[m].at = "done" /\ reply'[m] = reply[m]

-----------------------------------------------------------------------------
\* A prompt that has been put stays put, and so does what follows from it.
LEMMA PutStays ==
    ASSUME Frame, PromptType, NEW k \in Prompts
    PROVE  /\ Known(k) => Known(k)'
           /\ \A n \in Issues : ask[n].at # "new" => /\ Once(n)' => Once(n)
                                                     /\ Superseded(n) => Superseded(n)'
<1>1. Known(k) => Known(k)'
  BY DEF Frame, Known
<1>2. ASSUME NEW n \in Issues, ask[n].at # "new"
      PROVE  (Once(n)' => Once(n)) /\ (Superseded(n) => Superseded(n)')
  <2>1. ask'[n].key = ask[n].key /\ ask[n].key \in Prompts
    BY <1>2 DEF Frame, PromptType
  <2> QED
    BY <2>1 DEF Frame, Once, Superseded
<1> QED
  BY <1>1, <1>2

LEMMA KeyKept ==
    ASSUME PromptInv, Frame, NEW k \in Prompts, entries'[k] = entries[k],
           prows'[k] # "absent" => prows[k] # "absent",
           waiters'[k] = 0 \/ waiters'[k] = waiters[k],
           entries[k].issue # 0 => closed'[entries[k].issue] = closed[entries[k].issue]
    PROVE  KeyRule(k)'
<1>1. PromptType /\ KeyRule(k)
  BY DEF PromptInv
<1>2. Known(k) => Known(k)'
  BY <1>1, PutStays
<1>3. \A m : Asked(m, k) => Asked(m, k)'
  BY DEF Frame, Asked
<1>4. \A m : Asked(m, k) /\ ask[m].at # "issued" => ask'[m].at # "issued"
  BY DEF Frame, Asked
<1> QED
  BY <1>1, <1>2, <1>3, <1>4 DEF KeyRule

LEMMA AskKept ==
    ASSUME PromptInv, Frame, NEW n \in Issues, ask'[n] = ask[n], reply'[n] = reply[n],
           inbox'[n] = inbox[n],
           ask[n].at = "waiting" /\ inbox[n] = "none" =>
             waiters'[ask[n].key] = waiters[ask[n].key] \/ Superseded(n)'
    PROVE  AskRule(n)'
<1>1. PromptType /\ AskRule(n) /\ ask[n].key \in Prompts
  BY DEF PromptInv, PromptType
<1>2. ask[n].at # "new" /\ Superseded(n) => Superseded(n)'
  BY <1>1, PutStays
<1>3. \A m \in 1..(n - 1) : m \in Issues
  BY PromptAssumption DEF Issues
<1>4. ask[n].at # "new" => \A m \in 1..(n - 1) : ask'[m].at \notin {"new", "issued"}
  BY <1>1, <1>3 DEF AskRule, Frame
<1>5. inbox[n] \in Outcomes => Told(ask[n].key, inbox[n])'
  BY <1>1 DEF AskRule, Frame
<1>6. ask[n].at = "new" => closed'[n] = "open"
  BY <1>1 DEF AskRule, Frame
<1> QED
  BY <1>1, <1>2, <1>4, <1>5, <1>6 DEF AskRule

LEMMA SoleKept ==
    ASSUME PromptInv, Frame, NEW n \in Issues, Parked(n)' => Parked(n),
           Once(n)' => entries'[ask[n].key].issue = entries[ask[n].key].issue,
           inbox'[n] = inbox[n], ask'[n].at = "fire" => ask[n].at = "fire"
    PROVE  SoleRule(n)'
<1> SUFFICES ASSUME Parked(n)', Once(n)'
             PROVE  /\ entries'[ask'[n].key].issue = n
                    /\ inbox'[n] # "none" => closed'[n] = inbox'[n]
                    /\ ask'[n].at = "fire" => closed'[n] # "open"
  BY DEF SoleRule
<1>1. PromptType /\ SoleRule(n) /\ Parked(n)
  BY DEF PromptInv
<1>2. ask[n].at # "new" /\ ask'[n].key = ask[n].key /\ ask[n].key \in Prompts
  BY <1>1 DEF Parked, Frame, PromptType
<1>3. Once(n)
  BY <1>1, <1>2, PutStays
<1>4. /\ entries[ask[n].key].issue = n
      /\ inbox[n] # "none" => closed[n] = inbox[n]
      /\ ask[n].at = "fire" => closed[n] # "open"
  BY <1>1, <1>3 DEF SoleRule
<1>5. (closed'[n] = closed[n] \/ closed[n] = "open") /\ inbox[n] # "open"
  BY <1>1, Zenon DEF Frame, PromptType
<1> QED
  BY <1>2, <1>4, <1>5

LEMMA ActKept ==
    ASSUME PromptInv, Frame, NEW c \in Acts, act'[c] = act[c],
           \A n \in Issues : Parked(n)' /\ Once(n)' /\ ~Parked(n) => ~Known(ask'[n].key)
    PROVE  ActRule(c)'
<1>1. PromptType /\ ActRule(c) /\ act[c].key \in Prompts
  BY DEF PromptInv, PromptType
<1> SUFFICES ASSUME act[c].at = "fire"
             PROVE  /\ Known(act[c].key)'
                    /\ \A n \in Issues : Parked(n)' /\ ask'[n].key = act[c].key /\ Once(n)' =>
                         closed'[n] = act[c].outcome
  BY <1>1 DEF ActRule
<1>2. act[c].outcome \in Outcomes /\ Known(act[c].key)
  BY <1>1 DEF ActRule
<1>3. Known(act[c].key)'
  BY <1>1, <1>2, PutStays
<1>4. ASSUME NEW n \in Issues, Parked(n)', ask'[n].key = act[c].key, Once(n)'
      PROVE  closed'[n] = act[c].outcome
  <2>1. Parked(n)
    BY <1>2, <1>4
  <2>2. ask[n].at # "new" /\ ask[n].key = act[c].key
    BY <1>4, <2>1 DEF Parked, Frame
  <2>3. Once(n)
    BY <1>1, <1>4, <2>2, PutStays
  <2>4. closed[n] = act[c].outcome
    BY <1>1, <2>1, <2>2, <2>3 DEF ActRule
  <2>5. closed'[n] = closed[n] \/ closed[n] = "open"
    BY DEF Frame
  <2> QED
    BY <1>2, <2>4, <2>5 DEF Outcomes
<1> QED
  BY <1>3, <1>4

LEMMA AgreesKept ==
    ASSUME PromptInv, Frame, NEW n \in Issues, ask'[n].at = "done" => ask[n].at = "done"
    PROVE  Agrees(n)'
<1> SUFFICES ASSUME ask'[n].at = "done" PROVE Agrees(n)'
  BY DEF Agrees
<1>1. PromptType /\ Agrees(n) /\ ask[n].at = "done" /\ ask[n].key \in Prompts
  BY DEF PromptInv, PromptType
<1>2. ask'[n].key = ask[n].key /\ reply'[n] = reply[n]
  BY <1>1 DEF Frame
<1>3. (Once(n)' => Once(n)) /\ (Superseded(n) => Superseded(n)')
  BY <1>1, PutStays
<1>4. \A outcome \in Outcomes : Told(ask[n].key, outcome) => Told(ask[n].key, outcome)'
  BY <1>1 DEF Frame
<1>5. reply[n] \in Outcomes => Told(ask[n].key, reply[n])'
  BY <1>1, <1>2, <1>4 DEF Agrees
<1>6. closed'[n] = closed[n] \/ closed[n] = "open"
  BY DEF Frame
<1>7. Once(n)' => /\ reply[n] \in Outcomes => closed'[n] = reply[n]
                  /\ reply[n] = "timed_out" => closed'[n] # "open"
  BY <1>1, <1>3, <1>6 DEF Agrees, Outcomes
<1> QED
  BY <1>1, <1>2, <1>3, <1>5, <1>7 DEF Agrees

-----------------------------------------------------------------------------
\* The slot is no part of the rules.
LEMMA SlotKeeps ==
    ASSUME PromptInv, UNCHANGED <<entries, waiters, prows, jobs, ask, inbox, reply, act, closed>>
    PROVE  PromptInv'
<1>1. PromptType'
  BY DEF PromptInv, PromptType
<1>2. /\ \A m, k : Asked(m, k)' = Asked(m, k)
      /\ \A k, outcome : Told(k, outcome)' = Told(k, outcome)
  BY DEF Asked, Told
<1>3. Frame
  BY <1>2 DEF Frame
<1>4. \A n \in Issues : Parked(n)' = Parked(n) /\ Once(n)' = Once(n)
  BY <1>2 DEF Parked, Once
<1>5. \A k \in Prompts : KeyRule(k)'
  BY <1>3, KeyKept
<1>6. \A n \in Issues : AskRule(n)' /\ SoleRule(n)' /\ Agrees(n)'
  BY <1>3, <1>4, AskKept, SoleKept, AgreesKept
<1>7. \A c \in Acts : ActRule(c)'
  BY <1>3, <1>4, ActKept
<1>8. \A j \in jobs' : Known(j.key)'
  BY <1>2 DEF PromptInv, Known
<1> QED
  BY <1>1, <1>5, <1>6, <1>7, <1>8 DEF PromptInv

\* No responder: the request is refused at once.
LEMMA RefusedKeeps ==
    ASSUME PromptInv, NEW n \in Issues, forward_request_user_interaction(n)
    PROVE  PromptInv'
<1>1. /\ ask[n].at = "new" /\ \A m \in 1..(n - 1) : ask[m].at \notin {"new", "issued"}
      /\ ask' = [ask EXCEPT ![n].at = "done"] /\ reply' = [reply EXCEPT ![n] = "refused"]
      /\ UNCHANGED <<entries, waiters, prows, jobs, inbox, act, closed>>
  BY DEF forward_request_user_interaction, NextIssue, Respond
<1>2. PromptType /\ AskRule(n)
  BY DEF PromptInv
<1>3. /\ ask'[n].at = "done" /\ ask'[n].key = ask[n].key /\ reply'[n] = "refused"
      /\ \A m \in Issues : m # n => ask'[m] = ask[m] /\ reply'[m] = reply[m]
      /\ PromptType'
  BY <1>1, <1>2, ZenonT(60) DEF PromptType
<1>4. /\ \A m, k : Asked(m, k)' = Asked(m, k)
      /\ \A k, outcome : Told(k, outcome)' = Told(k, outcome)
  BY <1>1, <1>3 DEF Asked, Told
<1>5. Frame
  BY <1>1, <1>3, <1>4 DEF Frame
<1>6. \A k \in Prompts : KeyRule(k)'
  BY <1>1, <1>5, KeyKept
<1>7. AskRule(n)' /\ SoleRule(n)' /\ Agrees(n)'
  <2>1. inbox'[n] = "none"
    BY <1>1, <1>2 DEF AskRule
  <2>2. \A m \in 1..(n - 1) : ask'[m].at \notin {"new", "issued"}
    BY <1>1, <1>3, PromptAssumption DEF Issues
  <2>3. AskRule(n)'
    BY <1>3, <2>1, <2>2 DEF AskRule, Outcomes
  <2>4. SoleRule(n)'
    BY <1>3 DEF SoleRule, Parked
  <2>5. Agrees(n)'
    BY <1>3 DEF Agrees, Outcomes
  <2> QED
    BY <2>3, <2>4, <2>5
<1>8. ASSUME NEW m \in Issues, m # n PROVE AskRule(m)' /\ SoleRule(m)' /\ Agrees(m)'
  <2>1. AskRule(m)'
    BY <1>1, <1>3, <1>5, <1>8, AskKept
  <2>2. Parked(m)' => Parked(m)
    BY <1>3, <1>8 DEF Parked
  <2>3. SoleRule(m)'
    BY <1>1, <1>3, <1>5, <1>8, <2>2, SoleKept
  <2>4. Agrees(m)'
    BY <1>3, <1>5, <1>8, AgreesKept
  <2> QED
    BY <2>1, <2>3, <2>4
<1>9. \A c \in Acts : ActRule(c)'
  <2>1. \A m \in Issues : Parked(m)' => Parked(m)
    BY <1>3 DEF Parked
  <2> QED
    BY <1>1, <1>5, <2>1, ActKept
<1>10. \A j \in jobs' : Known(j.key)'
  BY <1>1, <1>4 DEF PromptInv, Known
<1> QED
  BY <1>3, <1>6, <1>7, <1>8, <1>9, <1>10 DEF PromptInv

\* A prompt is put: its entry is new and nobody waits yet.
LEMMA IssueKeeps ==
    ASSUME PromptInv, NEW n \in Issues, NEW k \in Prompts, issue(n, k)
    PROVE  PromptInv'
<1>1. /\ ask[n].at = "new" /\ \A m \in 1..(n - 1) : ask[m].at \notin {"new", "issued"}
      /\ ask' = [ask EXCEPT ![n] = [key |-> k, at |-> "issued"]]
      /\ entries' = [entries EXCEPT ![k] = [state |-> "open", issue |-> n]]
      /\ waiters' = [waiters EXCEPT ![k] = 0]
      /\ jobs' = jobs \cup {Job("issue", k, n, "open")}
      /\ UNCHANGED <<prows, inbox, reply, act, closed>>
  BY DEF issue, NextIssue
<1>2. PromptType /\ AskRule(n) /\ n \in Nat /\ n # 0
  BY PromptAssumption DEF PromptInv, Issues
<1>3. /\ ask'[n].at = "issued" /\ ask'[n].key = k /\ reply[n] = "none" /\ inbox[n] = "none"
      /\ \A m \in Issues : m # n => ask'[m] = ask[m]
  BY <1>1, <1>2 DEF PromptType, AskRule
<1>4. PromptType'
  <2>1. Job("issue", k, n, "open") \in [op : {"issue", "update"}, key : Prompts, issue : Nat,
                                        state : PromptStates]
    BY <1>2 DEF Job, PromptStates
  <2>2. entries' \in [Prompts -> [state : PromptStates, issue : Nat]]
    BY <1>1, <1>2 DEF PromptType, PromptStates
  <2>3. /\ waiters' \in [Prompts -> Nat]
        /\ ask' \in [Issues -> [key : Prompts,
                                at : {"new", "issued", "waiting", "expired", "fire", "done", "lost"}]]
    BY <1>1, <1>2 DEF PromptType
  <2> QED
    BY <1>1, <1>2, <2>1, <2>2, <2>3 DEF PromptType
<1>5. /\ \A m, j : Asked(m, j) => m # n /\ Asked(m, j)'
      /\ Asked(n, k)'
      /\ \A j, outcome : Told(j, outcome)' = Told(j, outcome)
  BY <1>1, <1>3 DEF Asked, Told
<1>6. Frame
  BY <1>1, <1>3, <1>5 DEF Frame
<1>7. closed[n] = "open" /\ \A j \in Prompts : entries[j].issue # n
  BY <1>1, <1>2, <1>5 DEF PromptInv, AskRule, KeyRule
<1>8. ASSUME NEW j \in Prompts PROVE KeyRule(j)'
  <2>1. CASE j = k
    <3>1. /\ entries'[k].state = "open" /\ entries'[k].issue = n /\ waiters'[k] = 0
          /\ closed'[n] = "open"
      BY <1>1, <1>2, <1>7 DEF PromptType
    <3> QED
      BY <1>5, <2>1, <3>1 DEF KeyRule, Known
  <2>2. CASE j # k
    <3>1. entries'[j] = entries[j] /\ waiters'[j] = waiters[j]
      BY <1>1, <1>2, <2>2 DEF PromptType
    <3> QED
      BY <1>1, <1>6, <3>1, KeyKept
  <2> QED
    BY <2>1, <2>2
<1>9. AskRule(n)' /\ SoleRule(n)'
  <2>1. \A m \in 1..(n - 1) : ask'[m].at \notin {"new", "issued"}
    BY <1>1, <1>2, <1>3, PromptAssumption DEF Issues
  <2>2. AskRule(n)'
    BY <1>1, <1>3, <2>1 DEF AskRule, Outcomes
  <2>3. entries'[k].issue = n
    BY <1>1, <1>2 DEF PromptType
  <2>4. SoleRule(n)'
    BY <1>1, <1>3, <2>3 DEF SoleRule
  <2> QED
    BY <2>2, <2>4
<1>10. ASSUME NEW m \in Issues, m # n PROVE AskRule(m)' /\ SoleRule(m)'
  <2>1. ask'[m] = ask[m] /\ ask[m].key \in Prompts
    BY <1>2, <1>3, <1>10, Zenon DEF PromptType
  <2>2. ask[m].at # "new" => n > m
    <3>1. ask[m].at # "new" => \A i \in 1..(m - 1) : ask[i].at # "new"
      BY DEF PromptInv, AskRule
    <3>2. m \in Nat /\ n \in Nat /\ n >= 1
      BY PromptAssumption DEF Issues
    <3>3. n < m => n \in 1..(m - 1)
      BY <3>2
    <3> QED
      BY <1>1, <1>10, <3>1, <3>2, <3>3
  <2>3. ask[m].key = k /\ ask[m].at # "new" => Superseded(m)'
    BY <1>5, <2>1, <2>2 DEF Superseded
  <2>4. ask[m].key # k => /\ waiters'[ask[m].key] = waiters[ask[m].key]
                          /\ entries'[ask[m].key] = entries[ask[m].key]
    BY <1>1, <1>2, <2>1 DEF PromptType
  <2>5. AskRule(m)'
    BY <1>1, <1>6, <2>1, <2>3, <2>4, AskKept
  <2>6. ask[m].key = k => ~Once(m)'
    BY <1>5, <1>10, <2>1 DEF Once
  <2>7. Parked(m)' = Parked(m)
    BY <2>1 DEF Parked
  <2>8. SoleRule(m)'
    BY <1>1, <1>6, <2>1, <2>4, <2>6, <2>7, SoleKept
  <2> QED
    BY <2>5, <2>8
<1>11. \A m \in Issues : Agrees(m)'
  <2>1. \A m \in Issues : ask'[m].at = "done" => ask[m].at = "done"
    BY <1>3
  <2> QED
    BY <1>6, <2>1, AgreesKept
<1>12. \A c \in Acts : ActRule(c)'
  <2>1. ASSUME NEW m \in Issues, Parked(m)', Once(m)', ~Parked(m) PROVE ~Known(ask'[m].key)
    <3>1. m = n
      BY <1>3, <2>1 DEF Parked
    <3> QED
      BY <1>3, <1>5, <2>1, <3>1 DEF Once, Known
  <2> QED
    BY <1>1, <1>6, <2>1, ActKept
<1>13. \A j \in jobs' : Known(j.key)'
  <2>1. Job("issue", k, n, "open").key = k
    BY DEF Job
  <2>2. \A j \in jobs : Known(j.key)'
    BY <1>5 DEF PromptInv, Known
  <2>3. Known(k)'
    BY <1>5 DEF Known
  <2> QED
    BY <1>1, <2>1, <2>2, <2>3
<1> QED
  BY <1>4, <1>8, <1>9, <1>10, <1>11, <1>12, <1>13 DEF PromptInv

\* What the steps of one request have in common: it moves on, and stays what was asked.
LEMMA MovesOn ==
    ASSUME PromptInv, NEW n \in Issues, NEW at \in {"waiting", "expired", "fire", "done"},
           ask[n].at \in {"issued", "waiting", "expired", "fire"},
           ask' = [ask EXCEPT ![n].at = at],
           \/ reply' = reply
           \/ \E o \in Outcomes \cup {"superseded", "timed_out"} : reply' = [reply EXCEPT ![n] = o]
    PROVE  /\ ask'[n].at = at /\ ask'[n].key = ask[n].key
           /\ \A m \in Issues : m # n => ask'[m] = ask[m] /\ reply'[m] = reply[m]
           /\ \A m, k : Asked(m, k)' = Asked(m, k)
           /\ \A m \in Issues : Parked(m)' => Parked(m)
           /\ ask' \in [Issues -> [key : Prompts,
                         at : {"new", "issued", "waiting", "expired", "fire", "done", "lost"}]]
           /\ reply' \in [Issues -> {"none", "refused", "answered", "cancelled", "timed_out",
                                     "superseded"}]
           /\ \A m \in Issues : ask[m].at # "new" =>
                /\ ask'[m].at # "new" /\ ask'[m].key = ask[m].key
                /\ ask[m].at # "issued" => ask'[m].at # "issued"
                /\ ask[m].at = "done" => ask'[m].at = "done" /\ reply'[m] = reply[m]
<1>1. PromptType /\ reply[n] = "none"
  BY DEF PromptInv, AskRule
<1>2. /\ ask'[n].at = at /\ ask'[n].key = ask[n].key
      /\ \A m \in Issues : m # n => ask'[m] = ask[m] /\ reply'[m] = reply[m]
      /\ ask' \in [Issues -> [key : Prompts,
                    at : {"new", "issued", "waiting", "expired", "fire", "done", "lost"}]]
  BY <1>1, SMTT(60) DEF PromptType
<1>3. /\ reply' \in [Issues -> {"none", "refused", "answered", "cancelled", "timed_out",
                                "superseded"}]
      /\ reply'[n] # "refused"
  <2>1. CASE reply' = reply
    BY <1>1, <2>1 DEF PromptType
  <2>2. ASSUME NEW o \in Outcomes \cup {"superseded", "timed_out"},
               reply' = [reply EXCEPT ![n] = o]
        PROVE  /\ reply' \in [Issues -> {"none", "refused", "answered", "cancelled", "timed_out",
                                          "superseded"}]
               /\ reply'[n] # "refused"
    BY <1>1, <2>2 DEF PromptType, Outcomes
  <2> QED
    BY <2>1, <2>2
<1>4. \A m, k : Asked(m, k)' = Asked(m, k)
  BY <1>1, <1>2, <1>3 DEF Asked
<1>5. \A m \in Issues : Parked(m)' => Parked(m)
  BY <1>2 DEF Parked
<1> QED
  BY <1>2, <1>3, <1>4, <1>5

\* The waiter is registered.
LEMMA RegisterKeeps ==
    ASSUME PromptInv, NEW n \in Issues, issue_with_waiter(n)
    PROVE  PromptInv'
<1>a. PICK k : k = ask[n].key
  OBVIOUS
<1>1. /\ ask[n].at = "issued" /\ ask' = [ask EXCEPT ![n].at = "waiting"]
      /\ waiters' = [waiters EXCEPT ![k] = n]
      /\ UNCHANGED <<entries, prows, jobs, inbox, reply, act, closed>>
  BY <1>a DEF issue_with_waiter
<1>2. /\ PromptType /\ AskRule(n) /\ SoleRule(n) /\ k \in Prompts /\ n \in Nat /\ n # 0
      /\ reply[n] = "none" /\ inbox[n] = "none" /\ Asked(n, k)
  BY <1>a, <1>1, PromptAssumption, SMTT(60) DEF PromptInv, PromptType, AskRule, Issues, Asked
<1>3. /\ ask'[n].at = "waiting" /\ ask'[n].key = k
      /\ \A m \in Issues : m # n => ask'[m] = ask[m]
      /\ \A m, j : Asked(m, j)' = Asked(m, j)
      /\ \A m \in Issues : Parked(m)' => Parked(m)
  BY <1>a, <1>1, MovesOn, ZenonT(60)
<1>4. PromptType'
  <2>1. ask' \in [Issues -> [key : Prompts,
                   at : {"new", "issued", "waiting", "expired", "fire", "done", "lost"}]]
    BY <1>1, MovesOn, Zenon
  <2>2. waiters' \in [Prompts -> Nat]
    BY <1>1, <1>2 DEF PromptType
  <2> QED
    BY <1>1, <1>2, <2>1, <2>2 DEF PromptType
<1>5. Frame
  <2>1. \A j, outcome : Told(j, outcome)' = Told(j, outcome)
    BY <1>1 DEF Told
  <2> QED
    BY <1>a, <1>1, <1>3, <2>1 DEF Frame
<1>6. ASSUME NEW j \in Prompts PROVE KeyRule(j)'
  <2>1. CASE j = k
    <3>1. waiters'[k] = n /\ Asked(n, k)' /\ ask'[n].at # "issued"
      BY <1>1, <1>2, <1>3 DEF PromptType
    <3>2. KeyRule(k) /\ Known(k)' = Known(k)
      BY <1>2, <1>3 DEF PromptInv, Known
    <3> QED
      BY <1>1, <1>3, <2>1, <3>1, <3>2 DEF KeyRule
  <2>2. CASE j # k
    <3>1. waiters'[j] = waiters[j]
      BY <1>1, <1>2, <2>2 DEF PromptType
    <3> QED
      BY <1>1, <1>5, <3>1, KeyKept
  <2> QED
    BY <2>1, <2>2
<1>7. AskRule(n)'
  <2>1. \A m \in 1..(n - 1) : ask'[m].at \notin {"new", "issued"}
    BY <1>1, <1>2, <1>3, PromptAssumption DEF Issues, AskRule
  <2>2. waiters'[k] = n
    BY <1>1, <1>2 DEF PromptType
  <2> QED
    BY <1>1, <1>2, <1>3, <2>1, <2>2 DEF AskRule, Outcomes
<1>8. ASSUME NEW m \in Issues, m # n PROVE AskRule(m)'
  <2>1. ask'[m] = ask[m] /\ ask[m].key \in Prompts
    BY <1>2, <1>3, <1>8 DEF PromptType
  <2>2. ask[m].at # "new" => n > m
    <3>1. ask[m].at # "new" => \A i \in 1..(m - 1) : ask[i].at # "issued"
      BY Zenon DEF PromptInv, AskRule
    <3>2. m \in Nat /\ n \in Nat /\ n >= 1
      BY PromptAssumption DEF Issues
    <3>3. n < m => n \in 1..(m - 1)
      BY <3>2
    <3> QED
      BY <1>1, <1>8, <3>1, <3>2, <3>3
  <2>3. ask[m].key = k /\ ask[m].at # "new" => Superseded(m)'
    BY <1>2, <1>3, <2>1, <2>2 DEF Superseded
  <2>4. ask[m].key # k => waiters'[ask[m].key] = waiters[ask[m].key]
    BY <1>1, <1>2, <2>1 DEF PromptType
  <2> QED
    BY <1>1, <1>5, <2>1, <2>3, <2>4, AskKept
<1>9. ASSUME NEW m \in Issues PROVE SoleRule(m)' /\ Agrees(m)'
  <2>1. ask'[m].at \in {"fire", "done"} => ask[m].at = ask'[m].at
    BY <1>3
  <2>2. SoleRule(m)'
    BY <1>1, <1>3, <1>5, <2>1, SoleKept
  <2>3. Agrees(m)'
    BY <1>5, <2>1, AgreesKept
  <2> QED
    BY <2>2, <2>3
<1>10. \A c \in Acts : ActRule(c)'
  BY <1>1, <1>3, <1>5, ActKept
<1>11. \A j \in jobs' : Known(j.key)'
  BY <1>1, <1>3 DEF PromptInv, Known
<1> QED
  BY <1>4, <1>6, <1>7, <1>8, <1>9, <1>10, <1>11 DEF PromptInv

\* A parked request moves on by itself, or is answered as Agrees asks.
LEMMA ParkedKeeps ==
    ASSUME PromptInv, NEW n \in Issues, NEW at \in {"expired", "done"},
           ask[n].at \in {"waiting", "expired"}, ask' = [ask EXCEPT ![n].at = at],
           \/ at = "expired" /\ reply' = reply
           \/ /\ at = "done"
              /\ \E o \in Outcomes \cup {"superseded", "timed_out"} : reply' = [reply EXCEPT ![n] = o],
           UNCHANGED <<entries, waiters, prows, jobs, inbox, act, closed>>,
           at = "done" => Agrees(n)'
    PROVE  PromptInv'
<1>1. PromptType /\ AskRule(n) /\ n \in Nat
  BY PromptAssumption DEF PromptInv, Issues
<1>2. /\ ask'[n].at = at /\ ask'[n].key = ask[n].key
      /\ \A m \in Issues : m # n => ask'[m] = ask[m] /\ reply'[m] = reply[m]
      /\ \A m, k : Asked(m, k)' = Asked(m, k)
      /\ \A m \in Issues : Parked(m)' => Parked(m)
      /\ \A m \in Issues : ask[m].at # "new" =>
           /\ ask'[m].at # "new" /\ ask'[m].key = ask[m].key
           /\ ask[m].at # "issued" => ask'[m].at # "issued"
           /\ ask[m].at = "done" => ask'[m].at = "done" /\ reply'[m] = reply[m]
  BY MovesOn, Zenon
<1>3. PromptType'
  <2>1. /\ ask' \in [Issues -> [key : Prompts,
                      at : {"new", "issued", "waiting", "expired", "fire", "done", "lost"}]]
        /\ reply' \in [Issues -> {"none", "refused", "answered", "cancelled", "timed_out",
                                  "superseded"}]
    BY MovesOn, Zenon
  <2> QED
    BY <1>1, <2>1 DEF PromptType
<1>4. \A j, outcome : Told(j, outcome)' = Told(j, outcome)
  BY DEF Told
<1>5. Frame
  BY <1>2, <1>4 DEF Frame
<1>6. \A k \in Prompts : KeyRule(k)'
  BY <1>5, KeyKept
<1>7. AskRule(n)'
  <2>1. \A m \in 1..(n - 1) : ask'[m].at \notin {"new", "issued"}
    BY <1>1, <1>2, PromptAssumption DEF Issues, AskRule
  <2>2. inbox'[n] \in Outcomes => Told(ask[n].key, inbox[n])
    BY <1>1 DEF AskRule
  <2>3. at # "done" => reply'[n] = "none"
    BY <1>1 DEF AskRule
  <2> QED
    BY <1>2, <1>4, <2>1, <2>2, <2>3 DEF AskRule
<1>8. \A m \in Issues : m # n => AskRule(m)'
  BY <1>2, <1>5, AskKept
<1>9. \A m \in Issues : SoleRule(m)'
  <2>1. \A m \in Issues : ask'[m].at = "fire" => ask[m].at = "fire"
    BY <1>2
  <2> QED
    BY <1>2, <1>5, <2>1, SoleKept
<1>10. \A m \in Issues : Agrees(m)'
  <2>1. \A m \in Issues : m # n => Agrees(m)'
    BY <1>2, <1>5, AgreesKept
  <2>2. at # "done" => Agrees(n)'
    BY <1>2 DEF Agrees
  <2> QED
    BY <2>1, <2>2
<1>11. \A c \in Acts : ActRule(c)'
  BY <1>2, <1>5, ActKept
<1>12. \A j \in jobs' : Known(j.key)'
  BY <1>2 DEF PromptInv, Known
<1> QED
  BY <1>3, <1>6, <1>7, <1>8, <1>9, <1>10, <1>11, <1>12 DEF PromptInv

\* The deadline wins the select.
LEMMA ExpireKeeps ==
    ASSUME PromptInv, NEW n \in Issues, Expire(n)
    PROVE  PromptInv'
<1>1. /\ ask[n].at = "waiting" /\ ask' = [ask EXCEPT ![n].at = "expired"] /\ reply' = reply
      /\ UNCHANGED <<entries, waiters, prows, jobs, inbox, act, closed>>
  BY DEF Expire
<1>2. \A at \in {"expired", "done"} : at = "expired" /\ ask' = [ask EXCEPT ![n].at = at] => PromptInv'
  BY <1>1, ParkedKeeps, Zenon
<1> QED
  BY <1>1, <1>2

\* The waiter wins the select, with what it was sent or with nothing.
LEMMA WaiterKeeps ==
    ASSUME PromptInv, NEW n \in Issues, WaiterFires(n)
    PROVE  PromptInv'
<1>1. PICK o : /\ ask[n].at = "waiting" /\ ask' = [ask EXCEPT ![n].at = "done"]
               /\ reply' = [reply EXCEPT ![n] = o]
               /\ \/ inbox[n] # "none" /\ o = inbox[n]
                  \/ inbox[n] = "none" /\ waiters[ask[n].key] # n /\ o = "superseded"
               /\ UNCHANGED <<entries, waiters, prows, jobs, inbox, act, closed>>
  BY DEF WaiterFires, Respond
<1>2. /\ PromptType /\ AskRule(n) /\ SoleRule(n)
      /\ o \in Outcomes \cup {"superseded", "timed_out"}
  BY <1>1 DEF PromptInv, PromptType, Outcomes
<1>3. \A at \in {"expired", "done"} : at = "done" /\ ask' = [ask EXCEPT ![n].at = at] =>
        /\ ask'[n].at = at /\ ask'[n].key = ask[n].key
        /\ \A m, k : Asked(m, k)' = Asked(m, k)
  BY <1>1, <1>2, MovesOn, Zenon
<1>4. /\ ask'[n].at = "done" /\ ask'[n].key = ask[n].key /\ reply'[n] = o
      /\ \A m, k : Asked(m, k)' = Asked(m, k)
      /\ \A k, outcome : Told(k, outcome)' = Told(k, outcome)
  BY <1>1, <1>2, <1>3 DEF PromptType, Told
<1>5. Once(n)' = Once(n) /\ Superseded(n)' = Superseded(n)
  BY <1>4 DEF Once, Superseded
<1>6. Agrees(n)'
  <2>1. o \in Outcomes => inbox[n] = o /\ Told(ask[n].key, o)
    BY <1>1, <1>2 DEF AskRule, Outcomes
  <2>2. o = "superseded" => Superseded(n)
    BY <1>1, <1>2, Zenon DEF AskRule, PromptType
  <2>3. Once(n) /\ o # "superseded" => closed[n] = o
    BY <1>1, <1>2 DEF SoleRule, Parked
  <2> QED
    BY <1>1, <1>4, <1>5, <2>1, <2>2, <2>3 DEF Agrees, Outcomes
<1>7. \A at \in {"expired", "done"} : at = "done" /\ ask' = [ask EXCEPT ![n].at = at] => PromptInv'
  BY <1>1, <1>2, <1>6, ParkedKeeps, Zenon
<1> QED
  BY <1>1, <1>7

-----------------------------------------------------------------------------
\* transition_to closes an open entry, and with it the issue it is from.
LEMMA TransitionFacts ==
    ASSUME PromptInv, NEW k \in Prompts, NEW state \in {"answered", "cancelled", "timed_out"},
           transition_to(k, state)
    PROVE  /\ entries' \in [Prompts -> [state : PromptStates, issue : Nat]]
           /\ jobs' \subseteq [op : {"issue", "update"}, key : Prompts, issue : Nat,
                               state : PromptStates]
           /\ closed' \in [Issues -> {"open", "answered", "cancelled", "timed_out"}]
           /\ entries[k].state = "open" /\ entries'[k].state = state
           /\ \A j \in Prompts : entries'[j].issue = entries[j].issue
           /\ \A j \in Prompts : j # k => entries'[j] = entries[j]
           /\ \A m \in Issues : IF m = entries[k].issue THEN closed[m] = "open" /\ closed'[m] = state
                                ELSE closed'[m] = closed[m]
           /\ \A m \in Issues : m = entries[k].issue => Asked(m, k)
           /\ \A j \in jobs' : j \in jobs \/ j.key = k
<1>1. PromptType /\ KeyRule(k) /\ entries[k].state = "open"
  BY DEF PromptInv, transition_to
<1>2. entries' = [entries EXCEPT ![k].state = state]
  BY DEF transition_to
<1>3. /\ entries' \in [Prompts -> [state : PromptStates, issue : Nat]]
      /\ entries'[k].state = state
      /\ \A j \in Prompts : entries'[j].issue = entries[j].issue
      /\ \A j \in Prompts : j # k => entries'[j] = entries[j]
  BY <1>1, <1>2 DEF PromptType, PromptStates
<1>4. Job("update", k, entries[k].issue, state) \in
        [op : {"issue", "update"}, key : Prompts, issue : Nat, state : PromptStates]
  BY <1>1 DEF Job, PromptType, PromptStates
<1>5. /\ jobs' \subseteq [op : {"issue", "update"}, key : Prompts, issue : Nat, state : PromptStates]
      /\ \A j \in jobs' : j \in jobs \/ j.key = k
  BY <1>1, <1>4 DEF transition_to, PromptType, Job
<1>6. entries[k].issue # 0 => entries[k].issue \in Issues /\ Asked(entries[k].issue, k)
                              /\ closed[entries[k].issue] = "open"
  BY <1>1 DEF KeyRule, Asked
<1>7. closed' = IF entries[k].issue = 0 THEN closed ELSE [closed EXCEPT ![entries[k].issue] = state]
  BY DEF transition_to, Closed
<1>8. 0 \notin Issues
  BY PromptAssumption DEF Issues
<1>9. /\ closed' \in [Issues -> {"open", "answered", "cancelled", "timed_out"}]
      /\ \A m \in Issues : IF m = entries[k].issue THEN closed[m] = "open" /\ closed'[m] = state
                           ELSE closed'[m] = closed[m]
  BY <1>1, <1>6, <1>7, <1>8 DEF PromptType
<1>10. \A m \in Issues : m = entries[k].issue => Asked(m, k)
  BY <1>6, <1>8
<1> QED
  BY <1>1, <1>3, <1>5, <1>9, <1>10, Zenon

\* The rules of the keys and the jobs after a transition.
LEMMA TransitionKeys ==
    ASSUME PromptInv, Frame, NEW k \in Prompts, NEW state \in {"answered", "cancelled", "timed_out"},
           transition_to(k, state), UNCHANGED <<waiters, prows>>
    PROVE  (\A j \in Prompts : KeyRule(j)') /\ (\A b \in jobs' : Known(b.key)') /\ Known(k)'
<1>1. PromptType /\ KeyRule(k)
  BY DEF PromptInv
<1>2. /\ entries[k].state = "open" /\ entries'[k].state = state
      /\ entries'[k].issue = entries[k].issue
      /\ \A j \in Prompts : j # k => entries'[j] = entries[j]
      /\ \A m \in Issues : IF m = entries[k].issue THEN closed'[m] = state
                           ELSE closed'[m] = closed[m]
      /\ \A m \in Issues : m = entries[k].issue => Asked(m, k)
      /\ \A j \in jobs' : j \in jobs \/ j.key = k
  BY TransitionFacts
<1>3. Known(k)'
  BY <1>1, <1>2, PutStays DEF KeyRule
<1>4. KeyRule(k)'
  <2>1. entries[k].issue # 0 => entries[k].issue \in Issues /\ Asked(entries[k].issue, k)
    BY <1>1, Zenon DEF KeyRule, Asked
  <2>2. waiters[k] # 0 => waiters[k] \in Issues /\ Asked(waiters[k], k) /\ ask[waiters[k]].at # "issued"
    BY <1>1, Zenon DEF KeyRule, Asked
  <2>3. \A m \in Issues : Asked(m, k) => Asked(m, k)' /\ (ask[m].at # "issued" => ask'[m].at # "issued")
    BY Zenon DEF Frame, Asked
  <2>4. entries'[k].issue # 0 => Asked(entries[k].issue, k)' /\ closed'[entries[k].issue] = state
    BY <1>2, <2>1, <2>3, Zenon DEF Asked
  <2>5. waiters'[k] # 0 => Asked(waiters[k], k)' /\ ask'[waiters[k]].at # "issued"
    BY <2>2, <2>3
  <2> QED
    BY <1>2, <1>3, <2>4, <2>5 DEF KeyRule
<1>5. ASSUME NEW j \in Prompts, j # k PROVE KeyRule(j)'
  <2>1. entries[j].issue # 0 => Asked(entries[j].issue, j)
    BY Zenon DEF PromptInv, KeyRule
  <2>2. entries[j].issue # 0 => closed'[entries[j].issue] = closed[entries[j].issue]
    BY <1>2, <1>5, <2>1, Zenon DEF Asked
  <2> QED
    BY <1>2, <1>5, <2>2, KeyKept, Zenon
<1>6. ASSUME NEW b \in jobs' PROVE Known(b.key)'
  <2>1. CASE b \in jobs
    <3>1. b.key \in Prompts /\ Known(b.key)
      BY <1>1, <2>1 DEF PromptInv, PromptType
    <3> QED
      BY <1>1, <3>1, PutStays
  <2> QED
    BY <1>2, <1>3, <2>1
<1> QED
  BY <1>3, <1>4, <1>5, <1>6

\* A consumer answers or cancels, up to the waiters' lock.
LEMMA AnswerKeeps ==
    ASSUME PromptInv, NEW c \in Acts, NEW k \in Prompts, NEW outcome \in Outcomes,
           handle_answer_user_interaction(c, k, outcome)
    PROVE  PromptInv'
<1>1. PICK new : /\ act[c].at = "new" /\ act' = [act EXCEPT ![c] = new]
                 /\ UNCHANGED <<waiters, prows, ask, inbox, reply>>
                 /\ \/ /\ transition_to(k, outcome)
                       /\ new = [key |-> k, outcome |-> outcome, at |-> "fire"]
                    \/ /\ UNCHANGED <<entries, closed, jobs>>
                       /\ new = [key |-> k, outcome |-> "not_found", at |-> "done"]
  BY Zenon DEF handle_answer_user_interaction, NoTransition
<1>2. PromptType /\ ActRule(c) /\ outcome \in {"answered", "cancelled", "timed_out"}
  BY DEF PromptInv, Outcomes
<1>3. /\ act' \in [Acts -> [key : Prompts, outcome : {"none", "answered", "cancelled", "not_found"},
                            at : {"new", "fire", "done"}]]
      /\ act'[c] = new /\ \A b \in Acts : b # c => act'[b] = act[b]
  BY <1>1, <1>2 DEF PromptType, Outcomes
<1>4. PromptType'
  <2>1. CASE UNCHANGED <<entries, closed, jobs>>
    BY <1>1, <1>2, <1>3, <2>1 DEF PromptType
  <2>2. CASE transition_to(k, outcome)
    <3>1. /\ entries' \in [Prompts -> [state : PromptStates, issue : Nat]]
          /\ jobs' \subseteq [op : {"issue", "update"}, key : Prompts, issue : Nat,
                              state : PromptStates]
          /\ closed' \in [Issues -> {"open", "answered", "cancelled", "timed_out"}]
      BY <1>2, <2>2, TransitionFacts, ZenonT(60)
    <3> QED
      BY <1>1, <1>2, <1>3, <3>1, Zenon DEF PromptType
  <2> QED
    BY <1>1, <2>1, <2>2, Zenon
<1>5. Frame
  <2>1. \A m, j : Asked(m, j)' = Asked(m, j)
    BY <1>1, Zenon DEF Asked
  <2>2. \A j \in Prompts : \A o \in Outcomes : Told(j, o) => Told(j, o)'
    BY <1>1, <1>2, <1>3, Zenon DEF Told, ActRule, Outcomes
  <2>3. \A m \in Issues : closed'[m] = closed[m] \/ (closed[m] = "open" /\ ask[m].at # "new")
    <3>1. CASE UNCHANGED <<entries, closed, jobs>>
      BY <3>1, Zenon
    <3>2. CASE transition_to(k, outcome)
      <4>1. \A m \in Issues : IF m = entries[k].issue THEN closed[m] = "open" /\ closed'[m] = outcome
                              ELSE closed'[m] = closed[m]
        BY <1>2, <3>2, TransitionFacts, ZenonT(60)
      <4>2. \A m \in Issues : m = entries[k].issue => Asked(m, k)
        BY <1>2, <3>2, TransitionFacts, ZenonT(60)
      <4> QED
        BY <4>1, <4>2, Zenon DEF Asked
    <3> QED
      BY <1>1, <3>1, <3>2, Zenon
  <2> QED
    BY <1>1, <2>1, <2>2, <2>3, Zenon DEF Frame
<1>6. (\A j \in Prompts : KeyRule(j)') /\ (\A b \in jobs' : Known(b.key)')
  <2>1. CASE UNCHANGED <<entries, closed, jobs>>
    <3>1. \A j \in Prompts : KeyRule(j)'
      BY <1>1, <1>5, <2>1, KeyKept, Zenon
    <3>2. \A b \in jobs : b.key \in Prompts /\ Known(b.key)
      BY <1>2 DEF PromptInv, PromptType
    <3> QED
      BY <1>2, <1>5, <2>1, <3>1, <3>2, PutStays, Zenon
  <2>2. CASE transition_to(k, outcome)
    BY <1>1, <1>2, <1>5, <2>2, TransitionKeys
  <2> QED
    BY <1>1, <2>1, <2>2, Zenon
<1>7. \A m \in Issues : AskRule(m)'
  BY <1>1, <1>5, AskKept, Zenon
<1>8. \A j \in Prompts : entries'[j].issue = entries[j].issue
  <2>1. CASE transition_to(k, outcome)
    BY <1>2, <2>1, TransitionFacts, Zenon
  <2> QED
    BY <1>1, <2>1, Zenon
<1>9. \A m \in Issues : SoleRule(m)' /\ Agrees(m)'
  <2> TAKE m \in Issues
  <2>1. (Parked(m)' = Parked(m)) /\ ask[m].key \in Prompts /\ ask'[m] = ask[m]
    BY <1>1, <1>2 DEF Parked, PromptType
  <2>2. SoleRule(m)'
    BY <1>1, <1>5, <1>8, <2>1, SoleKept, Zenon
  <2>3. Agrees(m)'
    BY <1>5, <2>1, AgreesKept, Zenon
  <2> QED
    BY <2>2, <2>3
<1>10. \A b \in Acts : b # c => ActRule(b)'
  <2>1. \A m \in Issues : Parked(m)' = Parked(m)
    BY <1>1, Zenon DEF Parked
  <2> QED
    BY <1>3, <1>5, <2>1, ActKept, Zenon
<1>11. ActRule(c)'
  <2>1. CASE new = [key |-> k, outcome |-> "not_found", at |-> "done"]
    <3>1. new.at = "done"
      BY <2>1
    <3> QED
      BY <1>3, <3>1, Zenon DEF ActRule
  <2>2. CASE transition_to(k, outcome) /\ new = [key |-> k, outcome |-> outcome, at |-> "fire"]
    <3>1. Known(k)'
      BY <1>1, <1>2, <1>5, <2>2, TransitionKeys
    <3>2. ASSUME NEW n \in Issues, Parked(n)', ask'[n].key = k, Once(n)' PROVE closed'[n] = outcome
      <4>1. Parked(n) /\ ask[n].key = k /\ Once(n) /\ SoleRule(n)
        BY <1>1, <3>2, Zenon DEF Parked, Once, Asked, PromptInv
      <4>2. entries[k].issue = n
        BY <4>1, Zenon DEF SoleRule
      <4> QED
        <5>1. \A m \in Issues : m = entries[k].issue => closed'[m] = outcome
          BY <1>2, <2>2, TransitionFacts, ZenonT(60)
        <5> QED
          BY <4>2, <5>1, Zenon
    <3>3. new = [key |-> k, outcome |-> outcome, at |-> "fire"]
      BY <2>2, Zenon
    <3>4. new.at = "fire" /\ new.key = k /\ new.outcome = outcome
      BY <3>3
    <3>5. act'[c].at = "fire" /\ act'[c].key = k /\ act'[c].outcome = outcome
      BY <1>3, <3>4, Zenon
    <3> QED
      BY <3>1, <3>2, <3>5, Zenon DEF ActRule
  <2> QED
    BY <1>1, <2>1, <2>2, Zenon
<1> QED
  BY <1>4, <1>6, <1>7, <1>9, <1>10, <1>11 DEF PromptInv

-----------------------------------------------------------------------------
\* The waiter of a key, and no other, finds the outcome in its oneshot.
LEMMA FireFacts ==
    ASSUME PromptInv, NEW k \in Prompts, NEW outcome \in {"answered", "cancelled", "timed_out"},
           FireWaiter(k, outcome)
    PROVE  /\ waiters' \in [Prompts -> Nat] /\ waiters'[k] = 0
           /\ \A j \in Prompts : j # k => waiters'[j] = waiters[j]
           /\ inbox' \in [Issues -> {"none", "answered", "cancelled", "timed_out"}]
           /\ \A m \in Issues : inbox'[m] = IF m = waiters[k] THEN outcome ELSE inbox[m]
           /\ \A m \in Issues : m = waiters[k] => Asked(m, k) /\ ask[m].at # "issued"
<1>1. PromptType /\ KeyRule(k)
  BY DEF PromptInv
<1>2. 0 \notin Issues
  BY PromptAssumption DEF Issues
<1>3. waiters[k] # 0 => waiters[k] \in Issues /\ Asked(waiters[k], k) /\ ask[waiters[k]].at # "issued"
  BY <1>1, Zenon DEF KeyRule, Asked
<1>4. waiters' = [waiters EXCEPT ![k] = 0]
  BY DEF FireWaiter
<1>5. inbox' = IF waiters[k] = 0 THEN inbox ELSE [inbox EXCEPT ![waiters[k]] = outcome]
  BY DEF FireWaiter
<1>6. /\ inbox' \in [Issues -> {"none", "answered", "cancelled", "timed_out"}]
      /\ \A m \in Issues : inbox'[m] = IF m = waiters[k] THEN outcome ELSE inbox[m]
  BY <1>1, <1>2, <1>3, <1>5 DEF PromptType
<1> QED
  BY <1>1, <1>2, <1>3, <1>4, <1>6 DEF PromptType

\* A request that was not fired: its waiter is where it was, or it was superseded before.
LEMMA UnfiredKept ==
    ASSUME PromptInv, Frame, NEW k \in Prompts,
           NEW outcome \in {"answered", "cancelled", "timed_out"}, FireWaiter(k, outcome),
           NEW m \in Issues, m # waiters[k], ask'[m] = ask[m], reply'[m] = reply[m]
    PROVE  AskRule(m)'
<1>1. PromptType /\ AskRule(m) /\ ask[m].key \in Prompts
  BY Zenon DEF PromptInv, PromptType
<1>2. inbox'[m] = inbox[m] /\ (ask[m].key # k => waiters'[ask[m].key] = waiters[ask[m].key])
  <2>1. /\ \A j \in Prompts : j # k => waiters'[j] = waiters[j]
        /\ \A i \in Issues : inbox'[i] = IF i = waiters[k] THEN outcome ELSE inbox[i]
    BY FireFacts, ZenonT(60)
  <2> QED
    BY <1>1, <2>1, Zenon
<1>3. ask[m].key = k /\ ask[m].at = "waiting" /\ inbox[m] = "none" => Superseded(m)'
  BY <1>1, PutStays, Zenon DEF AskRule
<1> QED
  BY <1>2, <1>3, AskKept, Zenon

\* A consumer's act fires the waiter.
LEMMA ActFiresKeeps ==
    ASSUME PromptInv, NEW c \in Acts, ActFires(c)
    PROVE  PromptInv'
<1>1. PICK k, outcome :
        /\ k = act[c].key /\ outcome = act[c].outcome /\ act[c].at = "fire"
        /\ FireWaiter(k, outcome) /\ act' = [act EXCEPT ![c].at = "done"]
        /\ UNCHANGED <<entries, prows, jobs, ask, reply, closed>>
  BY DEF ActFires
<1>2. /\ PromptType /\ ActRule(c) /\ k \in Prompts /\ outcome \in Outcomes
      /\ outcome \in {"answered", "cancelled", "timed_out"}
  BY <1>1 DEF PromptInv, PromptType, ActRule, Outcomes
<1>3. /\ act' \in [Acts -> [key : Prompts, outcome : {"none", "answered", "cancelled", "not_found"},
                            at : {"new", "fire", "done"}]]
      /\ act'[c].at = "done"
      /\ \A b \in Acts : act'[b].key = act[b].key /\ act'[b].outcome = act[b].outcome
      /\ \A b \in Acts : b # c => act'[b] = act[b]
  BY <1>1, <1>2, SMTT(60) DEF PromptType
<1>4. /\ waiters' \in [Prompts -> Nat] /\ waiters'[k] = 0
      /\ \A j \in Prompts : j # k => waiters'[j] = waiters[j]
      /\ inbox' \in [Issues -> {"none", "answered", "cancelled", "timed_out"}]
      /\ \A m \in Issues : inbox'[m] = IF m = waiters[k] THEN outcome ELSE inbox[m]
      /\ \A m \in Issues : m = waiters[k] => Asked(m, k) /\ ask[m].at # "issued"
  BY <1>1, <1>2, FireFacts
<1>5. PromptType'
  BY <1>1, <1>2, <1>3, <1>4 DEF PromptType
<1>6. /\ \A m, j : Asked(m, j)' = Asked(m, j)
      /\ \A j, o : Told(j, o)' = Told(j, o)
      /\ \A m \in Issues : Parked(m)' = Parked(m)
  BY <1>1, <1>3 DEF Asked, Told, Parked
<1>7. Frame
  BY <1>1, <1>6 DEF Frame
<1>8. \A j \in Prompts : KeyRule(j)'
  BY <1>1, <1>4, <1>7, KeyKept
<1>9. ASSUME NEW m \in Issues PROVE AskRule(m)' /\ SoleRule(m)' /\ Agrees(m)'
  <2>1. Agrees(m)'
    BY <1>1, <1>7, AgreesKept
  <2>2. CASE m # waiters[k]
    <3>1. AskRule(m)'
      BY <1>1, <1>2, <1>7, <2>2, UnfiredKept
    <3>2. SoleRule(m)'
      BY <1>1, <1>4, <1>6, <1>7, <2>2, SoleKept
    <3> QED
      BY <2>1, <3>1, <3>2
  <2>3. CASE m = waiters[k]
    <3>1. Asked(m, k) /\ ask[m].at \notin {"new", "issued"} /\ inbox'[m] = outcome /\ ask[m].key = k
      BY <1>4, <2>3 DEF Asked
    <3>2. AskRule(m) /\ SoleRule(m) /\ Told(k, outcome)'
      BY <1>1, <1>6 DEF PromptInv, Told
    <3>3. AskRule(m)'
      BY <1>1, <1>2, <3>1, <3>2 DEF AskRule, Outcomes
    <3>4. Once(m)' = Once(m)
      BY <1>1, <1>6 DEF Once
    <3>5. Parked(m) /\ Once(m) => closed[m] = outcome
      BY <1>1, <1>2, <3>1 DEF ActRule
    <3>6. SoleRule(m)'
      BY <1>1, <1>6, <3>1, <3>2, <3>4, <3>5 DEF SoleRule
    <3> QED
      BY <2>1, <3>3, <3>6
  <2> QED
    BY <2>2, <2>3
<1>10. \A b \in Acts : ActRule(b)'
  <2>1. \A b \in Acts : b # c => ActRule(b)'
    BY <1>3, <1>6, <1>7, ActKept, Zenon
  <2>2. ActRule(c)'
    BY <1>3, Zenon DEF ActRule
  <2> QED
    BY <2>1, <2>2
<1>11. \A j \in jobs' : Known(j.key)'
  BY <1>1, <1>6 DEF PromptInv, Known
<1> QED
  BY <1>5, <1>8, <1>9, <1>10, <1>11 DEF PromptInv

\* The expired request closes its prompt, or finds it closed.
LEMMA TimeOutKeeps ==
    ASSUME PromptInv, NEW n \in Issues, TimeOut(n)
    PROVE  PromptInv'
<1>a. PICK k : k = ask[n].key
  OBVIOUS
<1>1. /\ ask[n].at = "expired" /\ UNCHANGED <<waiters, prows, inbox, act>>
      /\ \/ transition_to(k, "timed_out") /\ ask' = [ask EXCEPT ![n].at = "fire"] /\ reply' = reply
         \/ /\ entries[k].state # "open" /\ UNCHANGED <<entries, closed, jobs>>
            /\ ask' = [ask EXCEPT ![n].at = "done"]
            /\ reply' = [reply EXCEPT ![n] = "timed_out"]
  BY <1>a DEF TimeOut, NoTransition, Respond
<1>2. /\ PromptType /\ AskRule(n) /\ SoleRule(n) /\ k \in Prompts /\ KeyRule(k) /\ n \in Nat
      /\ Parked(n) /\ n # 0
  <2>1. PromptType /\ AskRule(n) /\ SoleRule(n)
    BY DEF PromptInv
  <2>2. k \in Prompts
    BY <1>a, <2>1 DEF PromptType
  <2>3. KeyRule(k)
    BY <2>2 DEF PromptInv
  <2>4. n \in Nat /\ n # 0
    BY PromptAssumption DEF Issues
  <2>5. Parked(n)
    BY <1>1 DEF Parked
  <2> QED
    BY <2>1, <2>2, <2>3, <2>4, <2>5
<1>3. CASE /\ entries[k].state # "open" /\ UNCHANGED <<entries, closed, jobs>>
           /\ ask' = [ask EXCEPT ![n].at = "done"] /\ reply' = [reply EXCEPT ![n] = "timed_out"]
  <2>1. \A at \in {"waiting", "expired", "fire", "done"} :
          at = "done" /\ ask' = [ask EXCEPT ![n].at = at] =>
            /\ ask'[n].at = at /\ ask'[n].key = ask[n].key
            /\ \A m, j : Asked(m, j)' = Asked(m, j)
    BY <1>1, <1>3, MovesOn, Zenon
  <2>2. ask'[n].at = "done" /\ ask'[n].key = k /\ reply'[n] = "timed_out" /\ (Once(n)' => Once(n))
    BY <1>a, <1>2, <1>3, <2>1 DEF PromptType, Once
  <2>3. Once(n) => closed[n] # "open"
    BY <1>a, <1>2, <1>3 DEF SoleRule, KeyRule
  <2>4. Agrees(n)'
    BY <1>3, <2>2, <2>3 DEF Agrees, Outcomes
  <2>5. \A at \in {"expired", "done"} : at = "done" /\ ask' = [ask EXCEPT ![n].at = at] => PromptInv'
    BY <1>1, <1>3, <2>4, ParkedKeeps, Zenon
  <2> QED
    BY <1>3, <2>5
<1>4. CASE transition_to(k, "timed_out") /\ ask' = [ask EXCEPT ![n].at = "fire"] /\ reply' = reply
  <2>1. \A at \in {"waiting", "expired", "fire", "done"} :
          at = "fire" /\ ask' = [ask EXCEPT ![n].at = at] =>
            /\ ask'[n].at = at /\ ask'[n].key = ask[n].key
            /\ \A m \in Issues : m # n => ask'[m] = ask[m]
            /\ \A m, j : Asked(m, j)' = Asked(m, j)
            /\ ask' \in [Issues -> [key : Prompts,
                         at : {"new", "issued", "waiting", "expired", "fire", "done", "lost"}]]
    BY <1>1, <1>4, MovesOn, ZenonT(60)
  <2>2. /\ ask'[n].at = "fire" /\ ask'[n].key = k
        /\ \A m \in Issues : m # n => ask'[m] = ask[m]
        /\ \A m, j : Asked(m, j)' = Asked(m, j)
        /\ ask' \in [Issues -> [key : Prompts,
                     at : {"new", "issued", "waiting", "expired", "fire", "done", "lost"}]]
    BY <1>a, <1>4, <2>1
  <2>3. \A st \in {"answered", "cancelled", "timed_out"} : transition_to(k, st) =>
          /\ entries' \in [Prompts -> [state : PromptStates, issue : Nat]]
          /\ jobs' \subseteq [op : {"issue", "update"}, key : Prompts, issue : Nat,
                              state : PromptStates]
          /\ closed' \in [Issues -> {"open", "answered", "cancelled", "timed_out"}]
          /\ \A j \in Prompts : entries'[j].issue = entries[j].issue
          /\ \A m \in Issues : IF m = entries[k].issue THEN closed[m] = "open" /\ closed'[m] = st
                               ELSE closed'[m] = closed[m]
          /\ \A m \in Issues : m = entries[k].issue => Asked(m, k)
    <3> SUFFICES ASSUME NEW st \in {"answered", "cancelled", "timed_out"}, transition_to(k, st)
                 PROVE  /\ entries' \in [Prompts -> [state : PromptStates, issue : Nat]]
                        /\ jobs' \subseteq [op : {"issue", "update"}, key : Prompts, issue : Nat,
                                            state : PromptStates]
                        /\ closed' \in [Issues -> {"open", "answered", "cancelled", "timed_out"}]
                        /\ \A j \in Prompts : entries'[j].issue = entries[j].issue
                        /\ \A m \in Issues : IF m = entries[k].issue
                                             THEN closed[m] = "open" /\ closed'[m] = st
                                             ELSE closed'[m] = closed[m]
                        /\ \A m \in Issues : m = entries[k].issue => Asked(m, k)
      BY Zenon
    <3> QED
      BY <1>2, TransitionFacts, ZenonT(60)
  <2>4. /\ entries' \in [Prompts -> [state : PromptStates, issue : Nat]]
        /\ jobs' \subseteq [op : {"issue", "update"}, key : Prompts, issue : Nat,
                            state : PromptStates]
        /\ closed' \in [Issues -> {"open", "answered", "cancelled", "timed_out"}]
        /\ \A j \in Prompts : entries'[j].issue = entries[j].issue
        /\ \A m \in Issues : IF m = entries[k].issue THEN closed[m] = "open" /\ closed'[m] = "timed_out"
                             ELSE closed'[m] = closed[m]
        /\ \A m \in Issues : m = entries[k].issue => Asked(m, k)
    BY <1>4, <2>3
  <2>5. PromptType'
    BY <1>1, <1>2, <1>4, <2>2, <2>4 DEF PromptType
  <2>6. Frame
    <3>1. \A j, o : Told(j, o)' = Told(j, o)
      BY <1>1 DEF Told
    <3>2. \A m \in Issues : closed'[m] = closed[m] \/ (closed[m] = "open" /\ ask[m].at # "new")
      BY <2>4, Zenon DEF Asked
    <3> QED
      BY <1>a, <1>1, <1>4, <2>2, <3>1, <3>2 DEF Frame
  <2>7. (\A j \in Prompts : KeyRule(j)') /\ (\A b \in jobs' : Known(b.key)')
    <3>1. \A st \in {"answered", "cancelled", "timed_out"} : transition_to(k, st) =>
            (\A j \in Prompts : KeyRule(j)') /\ (\A b \in jobs' : Known(b.key)')
      BY <1>1, <1>2, <2>6, TransitionKeys
    <3> QED
      BY <1>4, <3>1
  <2>8. AskRule(n)'
    <3>1. \A m \in 1..(n - 1) : ask'[m].at \notin {"new", "issued"}
      BY <1>1, <1>2, <2>2, PromptAssumption DEF Issues, AskRule
    <3>2. reply[n] = "none" /\ (inbox[n] \in Outcomes => Told(k, inbox[n]))
      BY <1>a, <1>1, <1>2 DEF AskRule
    <3>3. inbox'[n] \in Outcomes => Told(k, inbox[n])'
      BY <1>1, <3>2 DEF Told
    <3> QED
      BY <1>1, <1>4, <2>2, <3>1, <3>2, <3>3 DEF AskRule
  <2>9. \A m \in Issues : m # n => AskRule(m)'
    BY <1>1, <1>4, <2>2, <2>6, AskKept
  <2>10. \A m \in Issues : Parked(m)' => Parked(m)
    BY <1>2, <2>2 DEF Parked
  <2>11. SoleRule(n)'
    <3>1. Once(n)' => Once(n)
      BY <1>a, <2>2 DEF Once
    <3>2. Once(n) => /\ entries[k].issue = n
                     /\ inbox[n] # "none" => closed[n] = inbox[n]
      BY <1>a, <1>2, Zenon DEF SoleRule
    <3>3. Once(n) => entries'[k].issue = n /\ closed[n] = "open" /\ closed'[n] = "timed_out"
      BY <1>2, <2>4, <3>2
    <3>4. inbox[n] # "open" /\ inbox' = inbox
      BY <1>1, <1>2, Zenon DEF PromptType
    <3> QED
      BY <2>2, <3>1, <3>2, <3>3, <3>4, Zenon DEF SoleRule
  <2>12. ASSUME NEW m \in Issues, m # n PROVE SoleRule(m)'
    <3>1. ask'[m] = ask[m] /\ ask[m].key \in Prompts
      BY <1>2, <2>2, <2>12 DEF PromptType
    <3> QED
      BY <1>1, <2>4, <2>6, <2>10, <3>1, SoleKept
  <2>13. \A m \in Issues : Agrees(m)'
    <3>1. \A m \in Issues : ask'[m].at = "done" => ask[m].at = "done"
      BY <2>2
    <3> QED
      BY <2>6, <3>1, AgreesKept, Zenon
  <2>14. \A c \in Acts : ActRule(c)'
    BY <1>1, <2>6, <2>10, ActKept
  <2> QED
    BY <2>5, <2>7, <2>8, <2>9, <2>11, <2>12, <2>13, <2>14 DEF PromptInv
<1> QED
  BY <1>1, <1>3, <1>4

\* The expired request has closed its prompt and takes the waiter along, its own or a younger one.
LEMMA TimeOutFiresKeeps ==
    ASSUME PromptInv, NEW n \in Issues, TimeOutFires(n)
    PROVE  PromptInv'
<1>a. PICK k, outcome, at : k = ask[n].key /\ outcome = "timed_out" /\ at = "done"
  OBVIOUS
<1>1. /\ ask[n].at = "fire" /\ ask' = [ask EXCEPT ![n].at = at]
      /\ reply' = [reply EXCEPT ![n] = outcome]
      /\ FireWaiter(k, outcome)
      /\ UNCHANGED <<entries, prows, jobs, act, closed>>
  BY <1>a DEF TimeOutFires, Respond
<1>2. /\ PromptType /\ AskRule(n) /\ SoleRule(n) /\ k \in Prompts /\ n \in Nat
      /\ outcome \in {"answered", "cancelled", "timed_out"} /\ outcome \notin Outcomes
      /\ outcome \in Outcomes \cup {"superseded", "timed_out"}
      /\ at \in {"waiting", "expired", "fire", "done"}
  <2>1. PromptType /\ AskRule(n) /\ SoleRule(n)
    BY DEF PromptInv
  <2>2. k \in Prompts
    BY <1>a, <2>1 DEF PromptType
  <2>3. n \in Nat
    BY PromptAssumption DEF Issues
  <2>4. /\ outcome \in {"answered", "cancelled", "timed_out"} /\ outcome \notin Outcomes
        /\ outcome \in Outcomes \cup {"superseded", "timed_out"}
        /\ at \in {"waiting", "expired", "fire", "done"}
    BY <1>a DEF Outcomes
  <2> QED
    BY <2>1, <2>2, <2>3, <2>4
<1>3. /\ ask'[n].at = "done" /\ ask'[n].key = k
      /\ \A m \in Issues : m # n => ask'[m] = ask[m] /\ reply'[m] = reply[m]
      /\ \A m, j : Asked(m, j)' = Asked(m, j)
      /\ \A m \in Issues : Parked(m)' => Parked(m)
      /\ ask' \in [Issues -> [key : Prompts,
                    at : {"new", "issued", "waiting", "expired", "fire", "done", "lost"}]]
      /\ reply' \in [Issues -> {"none", "refused", "answered", "cancelled", "timed_out",
                                "superseded"}]
  BY <1>a, <1>1, <1>2, MovesOn, Zenon
<1>4. /\ waiters' \in [Prompts -> Nat] /\ waiters'[k] = 0
      /\ \A j \in Prompts : j # k => waiters'[j] = waiters[j]
      /\ inbox' \in [Issues -> {"none", "answered", "cancelled", "timed_out"}]
      /\ \A m \in Issues : inbox'[m] = IF m = waiters[k] THEN outcome ELSE inbox[m]
      /\ \A m \in Issues : m = waiters[k] => Asked(m, k) /\ ask[m].at # "issued"
  BY <1>1, <1>2, FireFacts
<1>5. PromptType' /\ reply'[n] = "timed_out"
  BY <1>a, <1>1, <1>2, <1>3, <1>4 DEF PromptType
<1>6. /\ \A j, o : Told(j, o)' = Told(j, o)
      /\ \A m \in Issues : Once(m)' = Once(m)
  <2>1. \A m \in Issues : ask'[m].key = ask[m].key
    BY <1>a, <1>3, Zenon
  <2> QED
    BY <1>1, <1>3, <2>1 DEF Told, Once
<1>7. Frame
  BY <1>a, <1>1, <1>3, <1>6 DEF Frame
<1>8. \A j \in Prompts : KeyRule(j)'
  BY <1>1, <1>4, <1>7, KeyKept
<1>9. AskRule(n)' /\ SoleRule(n)' /\ Agrees(n)'
  <2>1. \A m \in 1..(n - 1) : ask'[m].at \notin {"new", "issued"}
    BY <1>1, <1>2, <1>3, PromptAssumption DEF Issues, AskRule
  <2>2. inbox'[n] \in Outcomes => \E c \in Acts : act'[c].key = k /\ act'[c].outcome = inbox'[n]
    <3>1. inbox'[n] \in Outcomes => inbox'[n] = inbox[n]
      BY <1>2, <1>4, Zenon
    <3>2. inbox[n] \in Outcomes => Told(k, inbox[n])
      BY <1>a, <1>2, Zenon DEF AskRule
    <3> QED
      BY <1>1, <3>1, <3>2 DEF Told
  <2>3. AskRule(n)'
    BY <1>3, <2>1, <2>2 DEF AskRule, Told
  <2>4. SoleRule(n)'
    BY <1>3 DEF SoleRule, Parked
  <2>5. Once(n) => closed[n] # "open"
    BY <1>1, <1>2 DEF SoleRule, Parked
  <2>6. Agrees(n)'
    BY <1>1, <1>3, <1>5, <1>6, <2>5 DEF Agrees, Outcomes
  <2> QED
    BY <2>3, <2>4, <2>6
<1>10. ASSUME NEW m \in Issues, m # n PROVE AskRule(m)' /\ SoleRule(m)' /\ Agrees(m)'
  <2>1. ask'[m] = ask[m] /\ reply'[m] = reply[m]
    BY <1>3, <1>10, Zenon
  <2>2. Agrees(m)'
    BY <1>7, <2>1, AgreesKept
  <2>3. CASE m # waiters[k]
    <3>1. AskRule(m)'
      BY <1>1, <1>2, <1>7, <2>1, <2>3, UnfiredKept
    <3>2. SoleRule(m)'
      BY <1>1, <1>3, <1>4, <1>7, <2>1, <2>3, SoleKept
    <3> QED
      BY <2>2, <3>1, <3>2
  <2>4. CASE m = waiters[k]
    <3>1. Asked(m, k) /\ ask[m].at \notin {"new", "issued"} /\ inbox'[m] = outcome /\ ask[m].key = k
      BY <1>4, <2>4, Zenon DEF Asked
    <3>2. AskRule(m)
      BY DEF PromptInv
    <3>3. outcome # "none"
      BY <1>2
    <3>4. \A i \in 1..(m - 1) : ask'[i].at \notin {"new", "issued"}
      <4>1. \A i \in 1..(m - 1) : i \in Issues
        BY PromptAssumption DEF Issues
      <4> QED
        BY <3>1, <3>2, <4>1, <1>3, Zenon DEF AskRule
    <3>5. AskRule(m)'
      BY <1>1, <1>2, <2>1, <3>1, <3>2, <3>3, <3>4 DEF AskRule
    <3>6. Asked(n, k)
      BY <1>a, <1>1, <1>2 DEF Asked, AskRule
    <3>7. ~Once(m)'
      BY <1>6, <1>10, <3>1, <3>6 DEF Once
    <3> QED
      BY <2>2, <3>5, <3>7 DEF SoleRule
  <2> QED
    BY <2>3, <2>4
<1>11. \A c \in Acts : ActRule(c)'
  BY <1>1, <1>3, <1>7, ActKept
<1>12. \A j \in jobs' : Known(j.key)'
  BY <1>1, <1>3 DEF PromptInv, Known
<1> QED
  BY <1>5, <1>8, <1>9, <1>10, <1>11, <1>12 DEF PromptInv

\* A spawned write reaches the table, or is lost.
LEMMA JobKeeps ==
    ASSUME PromptInv, NEW j \in jobs, RunJob(j)
    PROVE  PromptInv'
<1>1. /\ jobs' = jobs \ {j}
      /\ UNCHANGED <<entries, waiters, ask, inbox, reply, act, closed>>
  BY DEF RunJob
<1>2. /\ PromptType /\ j.key \in Prompts /\ j.state \in PromptStates /\ Known(j.key)
  BY DEF PromptInv, PromptType
<1>3. /\ prows' \in [Prompts -> PromptStates]
      /\ \A k \in Prompts : k # j.key => prows'[k] = prows[k]
  <2>1. prows \in [Prompts -> PromptStates] /\ "open" \in PromptStates
    BY <1>2 DEF PromptType, PromptStates
  <2>2. PICK s \in PromptStates : prows' = [prows EXCEPT ![j.key] = s]
    <3>1. CASE prows' = [prows EXCEPT ![j.key] = "open"]
      BY <2>1, <3>1, Zenon
    <3>2. CASE prows' = [prows EXCEPT ![j.key] = IF @ = "absent" THEN @ ELSE j.state]
      BY <1>2, <2>1, <3>2, Zenon
    <3>3. CASE prows' = prows
      BY <1>2, <2>1, <3>3, Zenon
    <3> QED
      BY <3>1, <3>2, <3>3, Zenon DEF RunJob
  <2> QED
    BY <1>2, <2>1, <2>2, Zenon
<1>4. PromptType'
  BY <1>1, <1>2, <1>3, Zenon DEF PromptType
<1>5. /\ \A m, k : Asked(m, k)' = Asked(m, k)
      /\ \A k, outcome : Told(k, outcome)' = Told(k, outcome)
  BY <1>1 DEF Asked, Told
<1>6. Frame
  BY <1>1, <1>5, Zenon DEF Frame
<1>7. \A n \in Issues : (Parked(n)' = Parked(n)) /\ (Once(n)' = Once(n))
  BY <1>1, <1>5 DEF Parked, Once
<1>8. ASSUME NEW k \in Prompts PROVE KeyRule(k)'
  <2>1. CASE k # j.key
    BY <1>1, <1>3, <1>6, <2>1, KeyKept
  <2>2. CASE k = j.key
    <3>1. Known(k)' /\ KeyRule(k)
      BY <1>2, <1>5, <2>2 DEF Known, PromptInv
    <3> QED
      BY <1>1, <1>5, <3>1, Zenon DEF KeyRule
  <2> QED
    BY <2>1, <2>2
<1>9. \A n \in Issues : AskRule(n)' /\ SoleRule(n)' /\ Agrees(n)'
  BY <1>1, <1>6, <1>7, AskKept, SoleKept, AgreesKept, Zenon
<1>10. \A c \in Acts : ActRule(c)'
  BY <1>1, <1>6, <1>7, ActKept
<1>11. \A b \in jobs' : Known(b.key)'
  BY <1>1, <1>5 DEF PromptInv, Known
<1> QED
  BY <1>4, <1>8, <1>9, <1>10, <1>11 DEF PromptInv

\* A boot: nobody is parked and no act is under way.
LEMMA BootKeeps ==
    ASSUME PromptInv, rehydrate_from_persistence
    PROVE  PromptInv'
<1>1. PICK past \in SUBSET {k \in Prompts : prows[k] = "open"} :
        /\ \E written \in SUBSET past :
             prows' = [k \in Prompts |-> IF k \in written THEN "timed_out" ELSE prows[k]]
        /\ entries' = [k \in Prompts |->
                         IF prows[k] = "open" /\ k \notin past
                         THEN [state |-> "open", issue |-> 0] ELSE NoEntry]
  BY Zenon DEF rehydrate_from_persistence
<1>2. PICK written \in SUBSET past :
        prows' = [k \in Prompts |-> IF k \in written THEN "timed_out" ELSE prows[k]]
  BY <1>1
<1>3. /\ waiters' = [k \in Prompts |-> 0] /\ jobs' = {}
      /\ ask' = [n \in Issues |->
                   IF ask[n].at \in {"new", "done"} THEN ask[n] ELSE [ask[n] EXCEPT !.at = "lost"]]
      /\ act' = [c \in Acts |-> IF act[c].at = "fire" THEN [act[c] EXCEPT !.at = "done"] ELSE act[c]]
      /\ UNCHANGED <<inbox, reply, closed>>
  BY DEF rehydrate_from_persistence
<1>4. PromptType
  BY DEF PromptInv
<1>5. \A k \in Prompts : /\ prows'[k] \in PromptStates /\ (prows'[k] # "absent" => prows[k] # "absent")
                         /\ entries'[k].issue = 0
                         /\ entries'[k].state # "absent" => prows[k] # "absent"
                         /\ waiters'[k] = 0
  BY <1>1, <1>2, <1>3, <1>4 DEF PromptType, PromptStates, NoEntry
<1>6. /\ ask' \in [Issues -> [key : Prompts,
                    at : {"new", "issued", "waiting", "expired", "fire", "done", "lost"}]]
      /\ \A n \in Issues : /\ ask'[n].key = ask[n].key /\ ask'[n].at \in {"new", "done", "lost"}
                           /\ \A at \in {"new", "done"} : (ask'[n].at = at) <=> (ask[n].at = at)
  BY <1>3, <1>4, SMTT(60) DEF PromptType
<1>7. /\ act' \in [Acts -> [key : Prompts, outcome : {"none", "answered", "cancelled", "not_found"},
                            at : {"new", "fire", "done"}]]
      /\ \A c \in Acts : /\ act'[c].key = act[c].key /\ act'[c].outcome = act[c].outcome
                         /\ act'[c].at # "fire"
                         /\ act'[c].at = "new" => act[c].at = "new"
  <2> SUFFICES ASSUME NEW c \in Acts
               PROVE  /\ act'[c] \in [key : Prompts, outcome : {"none", "answered", "cancelled", "not_found"},
                                      at : {"new", "fire", "done"}]
                      /\ act'[c].key = act[c].key /\ act'[c].outcome = act[c].outcome
                      /\ act'[c].at # "fire"
                      /\ act'[c].at = "new" => act[c].at = "new"
    BY <1>3
  <2>1. act[c] \in [key : Prompts, outcome : {"none", "answered", "cancelled", "not_found"},
                    at : {"new", "fire", "done"}]
    BY <1>4 DEF PromptType
  <2>2. CASE act[c].at = "fire"
    BY <1>3, <2>1, <2>2
  <2>3. CASE act[c].at # "fire"
    BY <1>3, <2>1, <2>3
  <2> QED
    BY <2>2, <2>3, Zenon
<1>8. PromptType'
  <2>1. entries' \in [Prompts -> [state : PromptStates, issue : Nat]]
    BY <1>1 DEF NoEntry, PromptStates
  <2>2. prows' \in [Prompts -> PromptStates]
    BY <1>2, <1>5
  <2>3. waiters' \in [Prompts -> Nat]
    BY <1>3
  <2> QED
    BY <1>3, <1>4, <1>6, <1>7, <2>1, <2>2, <2>3 DEF PromptType
<1>9. /\ \A m, k : Asked(m, k)' = Asked(m, k)
      /\ \A k, outcome : Told(k, outcome)' = Told(k, outcome)
  BY <1>3, <1>6, <1>7 DEF Asked, Told
<1>10. Frame
  BY <1>3, <1>6, <1>9 DEF Frame
<1>11. ASSUME NEW k \in Prompts PROVE KeyRule(k)'
  <2>1. KeyRule(k) /\ (Known(k)' = Known(k))
    BY <1>9, Zenon DEF PromptInv, Known
  <2> QED
    BY <1>5, <2>1, Zenon DEF KeyRule
<1>12. ASSUME NEW n \in Issues PROVE AskRule(n)' /\ SoleRule(n)' /\ Agrees(n)'
  <2>1. AskRule(n)
    BY DEF PromptInv
  <2>2. ask[n].at # "new" => \A m \in 1..(n - 1) : ask'[m].at \notin {"new", "issued"}
    <3>1. \A m \in 1..(n - 1) : m \in Issues
      BY PromptAssumption DEF Issues
    <3> QED
      BY <1>6, <2>1, <3>1, Zenon DEF AskRule
  <2>3. AskRule(n)'
    BY <1>3, <1>6, <1>9, <2>1, <2>2 DEF AskRule
  <2>4. SoleRule(n)'
    BY <1>6 DEF SoleRule, Parked
  <2>5. Agrees(n)'
    BY <1>6, <1>10, AgreesKept
  <2> QED
    BY <2>3, <2>4, <2>5
<1>13. \A c \in Acts : ActRule(c)'
  BY <1>7, Zenon DEF PromptInv, ActRule
<1> QED
  BY <1>3, <1>8, <1>11, <1>12, <1>13 DEF PromptInv

\* A steward that starts has no prompt.
LEMMA PromptInitHolds == PromptInit => PromptInv
<1> SUFFICES ASSUME PromptInit PROVE PromptInv
  OBVIOUS
<1>1. (CHOOSE k \in Prompts : TRUE) \in Prompts
  BY PromptAssumption
<1>2. PromptType
  BY <1>1, Zenon DEF PromptInit, PromptType, NoEntry, NoAct, PromptStates
<1>3. \A k \in Prompts : KeyRule(k)
  BY DEF PromptInit, KeyRule, NoEntry
<1>4. \A n \in Issues : AskRule(n) /\ SoleRule(n) /\ Agrees(n)
  BY DEF PromptInit, AskRule, SoleRule, Agrees, Parked, Outcomes
<1>5. \A c \in Acts : ActRule(c)
  BY DEF PromptInit, ActRule, NoAct
<1> QED
  BY <1>2, <1>3, <1>4, <1>5 DEF PromptInit, PromptInv

\* The rules of the prompts hold in every behaviour, boots included.
THEOREM PromptInvariant == PromptSpec => []PromptInv
<1>1. PromptInv /\ [PromptNext]_promptVars => PromptInv'
  <2> SUFFICES ASSUME PromptInv, [PromptNext]_promptVars PROVE PromptInv'
    OBVIOUS
  <2>1. ASSUME NEW s \in Sessions, try_claim_responder(s) \/ release_responder(s) PROVE PromptInv'
    BY <2>1, SlotKeeps DEF try_claim_responder, release_responder
  <2>2. CASE UNCHANGED promptVars
    BY <2>2, SlotKeeps DEF promptVars
  <2>3. ASSUME NEW n \in Issues,
               forward_request_user_interaction(n) \/ \E k \in Prompts : issue(n, k)
        PROVE  PromptInv'
    BY <2>3, RefusedKeeps, IssueKeeps
  <2>4. ASSUME NEW n \in Issues,
               \/ issue_with_waiter(n) \/ WaiterFires(n) \/ Expire(n)
               \/ TimeOut(n) \/ TimeOutFires(n)
        PROVE  PromptInv'
    BY <2>4, RegisterKeeps, WaiterKeeps, ExpireKeeps, TimeOutKeeps, TimeOutFiresKeeps
  <2>5. ASSUME NEW c \in Acts, ActFires(c) PROVE PromptInv'
    BY <2>5, ActFiresKeeps
  <2>6. ASSUME NEW c \in Acts, NEW k \in Prompts, NEW outcome \in Outcomes,
               handle_answer_user_interaction(c, k, outcome)
        PROVE  PromptInv'
    BY <2>6, AnswerKeeps
  <2>7. ASSUME NEW j \in jobs, RunJob(j) PROVE PromptInv'
    BY <2>7, JobKeeps
  <2>8. CASE rehydrate_from_persistence
    BY <2>8, BootKeeps
  <2> QED
    BY <2>1, <2>2, <2>3, <2>4, <2>5, <2>6, <2>7, <2>8 DEF PromptNext, PromptProgress
<1> QED
  BY <1>1, PromptInitHolds, PTL DEF PromptSpec

\* What a plugin is told of its prompt has its cause: an answer or a cancel some consumer made, a
\* supersession by a later issue.  For a prompt put once an outcome it is told is the state its own
\* entry was closed with, and a prompt it is told has timed out is closed, by the timer or by an
\* answer the waiter did not see (complete_with_outcome, the select of the waiter task).
THEOREM PromptOutcomesAgree == PromptSpec => []OutcomeAgrees
<1>1. ASSUME PromptInv PROVE OutcomeAgrees
  <2> SUFFICES ASSUME NEW n \in Issues, ask[n].at = "done"
               PROVE  /\ reply[n] \in Outcomes =>
                           \E c \in Acts : act[c].key = ask[n].key /\ act[c].outcome = reply[n]
                      /\ reply[n] = "superseded" => \E m \in Others(n) : m > n
                      /\ Others(n) = {} => /\ reply[n] \in Outcomes => closed[n] = reply[n]
                                           /\ reply[n] = "timed_out" => closed[n] # "open"
    BY Zenon DEF OutcomeAgrees
  <2>1. Agrees(n) /\ n \in Nat /\ \A m \in Issues : m \in Nat
    <3>1. Agrees(n)
      BY <1>1, Zenon DEF PromptInv
    <3>2. \A m \in Issues : m \in Nat
      BY PromptAssumption DEF Issues
    <3> QED
      BY <3>1, <3>2, Zenon
  <2>2. Others(n) = {} => Once(n)
    BY Zenon DEF Others, Once, Asked
  <2>3. Superseded(n) => \E m \in Others(n) : m > n
    BY <2>1 DEF Others, Superseded, Asked
  <2> QED
    BY <2>1, <2>2, <2>3 DEF Agrees, Told
<1> QED
  BY <1>1, PromptInvariant, PTL
=============================================================================
