----------------------------- MODULE WatchProofs -----------------------------
(***************************************************************************)
(* Watches keep their cooldowns and durations, for any watches, happenings *)
(* and calls.                                                              *)
(***************************************************************************)
EXTENDS Watches, TLAPS

Entries == [state : {"absent", "pending", "matched", "cancelled"}, spec : WatchSpecs,
            entered : Nat, by : Nat]
Jobs == [key : WatchKeys, entry : Entries]

WatchType ==
    /\ clock \in Nat \ {0} /\ offset \in Nat /\ stamp \in Nat /\ now_ms \in Nat
    /\ watch \in [WatchKeys -> Entries]
    /\ eval \in [WatchKeys -> [cooldown_until : Nat, high : BOOLEAN, window : Nat, seen : Nat]]
    /\ wcall \in [WatchCalls -> [op : {"none", "schedule", "cancel", "refused"},
                                 key : WatchKeys, at : {"new", "clear", "done"}]]
    /\ walk \subseteq Jobs
    /\ shot \in Jobs
    /\ since \in [WatchCalls -> [at : Nat, ms : Nat]]
    /\ prior \in [WatchCalls -> Nat \X Nat]

\* Call i has scheduled a watch under k.
Issued(i, k) == i \in WatchCalls /\ wcall[i].op = "schedule" /\ wcall[i].key = k

\* What a call has done so far.
CallRule(i) ==
    /\ wcall[i].at = "new" => wcall[i].op = "none"
    /\ wcall[i].at = "clear" => wcall[i].op \in {"schedule", "cancel"}
    /\ wcall[i].op = "schedule" => watch[wcall[i].key].by # 0
    /\ wcall[i].op # "schedule" => since[i] = NotSince /\ prior[i] = <<0, 0>>
    /\ since[i].ms = 0 => since[i] = NotSince

\* An entry that is not absent, and one to be evaluated or dispatched, come from a call.
EntryRule(k) ==
    /\ watch[k].state = "absent" <=> watch[k].by = 0
    /\ watch[k].by # 0 => Issued(watch[k].by, k)
    /\ watch[k].state = "cancelled" =>
         \E j \in WatchCalls : wcall[j].op = "cancel" /\ wcall[j].key = k
JobRule(d) ==
    /\ Issued(d.entry.by, d.key)
    /\ watch[d.key].by = d.entry.by => watch[d.key].spec = d.entry.spec

\* A snapshot entry that is not yet evaluated has the anchor of the ledger; a key is
\* walked once, at an instant of the wall clock that is not the anchor's none.
WalkRule ==
    /\ walk # {} => now_ms # 0
    /\ \A d \in walk : JobRule(d) /\ d.entry.state # "absent"
    /\ \A d \in walk : Alone(d.entry.by) => d.entry.entered = watch[d.key].entered
    /\ \A d, b \in walk : d.key = b.key => d = b
    /\ shot # NoShot => JobRule(shot) /\ \A d \in walk : d.key # shot.key

\* The last dispatch is covered by the cooldown, or is still under way.
Cooled(i) ==
    LET cooldown_ms == watch[wcall[i].key].spec.cooldown_ms
    IN  /\ prior[i][1] # 0 => prior[i][2] >= prior[i][1] + cooldown_ms
        /\ prior[i][2] # 0 =>
             IF shot # NoShot /\ shot.entry.by = i THEN prior[i][2] = stamp
             ELSE eval[wcall[i].key].cooldown_until >= prior[i][2] + cooldown_ms

\* The anchor of the ledger is the start of the match.
TimeRule(i) ==
    LET w == watch[wcall[i].key]
    IN  wcall[i].op = "schedule" /\ Alone(i) =>
          /\ w.spec.cooldown_ms > 0 => Cooled(i)
          /\ w.spec.minimum_duration_ms > 0 => since[i].ms = w.entered

WatchInv ==
    /\ WatchType
    /\ \A i \in WatchCalls : CallRule(i) /\ TimeRule(i)
    /\ \A k \in WatchKeys : EntryRule(k)
    /\ WalkRule
    /\ DurationHeld

-----------------------------------------------------------------------------
\* The constant entries have their types.
LEMMA Blanks ==
    /\ AnySpec \in WatchSpecs
    /\ NoWatch \in Entries /\ NoWatch.by = 0 /\ NoWatch.state = "absent"
    /\ NoShot \in Jobs /\ NoShot.entry = NoWatch
    /\ NoWCall.key \in WatchKeys
<1>1. AnySpec \in WatchSpecs
  BY WatchAssumption DEF AnySpec
<1>2. (CHOOSE k \in WatchKeys : TRUE) \in WatchKeys
  BY WatchAssumption
<1> QED
  BY <1>1, <1>2 DEF NoWatch, NoShot, NoWCall, Entries, Jobs

\* An entry whose state and anchor are set is an entry.
Anchored(w, s, n) == [w EXCEPT !.state = s, !.entered = n]

LEMMA AnchoredFacts ==
    ASSUME NEW w \in Entries, NEW s \in {"pending", "matched", "cancelled"}, NEW n \in Nat
    PROVE  /\ Anchored(w, s, n) \in Entries
           /\ Anchored(w, s, n).state = s /\ Anchored(w, s, n).entered = n
           /\ Anchored(w, s, n).spec = w.spec /\ Anchored(w, s, n).by = w.by
<1>1. [w EXCEPT !.state = s] \in Entries
  BY DEF Entries
<1> QED
  BY <1>1, Zenon DEF Entries, Anchored

\* Calls only ever go on: what a call has issued stays issued, and it is alone no longer than
\* before.
Onwards ==
    \A j \in WatchCalls : wcall[j].op # "none" =>
        wcall'[j].op = wcall[j].op /\ wcall'[j].key = wcall[j].key

LEMMA CallsStay ==
    ASSUME Onwards, NEW i \in WatchCalls, wcall[i].op = "schedule"
    PROVE  /\ \A k : Issued(i, k) => Issued(i, k)'
           /\ Alone(i)' => Alone(i)
BY DEF Onwards, Issued, Alone

\* Steps that change no watch, no evaluation and no call.
LEMMA IdleKeeps ==
    ASSUME WatchInv, clock' \in Nat \ {0}, offset' \in Nat,
           UNCHANGED <<stamp, now_ms, watch, eval, wcall, walk, shot, since, prior>>
    PROVE  WatchInv'
<1>1. WatchType'
  BY DEF WatchInv, WatchType
<1>2. \A i, k : Alone(i)' = Alone(i) /\ Issued(i, k)' = Issued(i, k)
  BY DEF Alone, Issued
<1>3. \A i \in WatchCalls : CallRule(i)' /\ TimeRule(i)'
  BY <1>2 DEF WatchInv, CallRule, TimeRule, Cooled
<1>4. \A k \in WatchKeys : EntryRule(k)'
  BY <1>2 DEF WatchInv, EntryRule
<1>5. WalkRule'
  BY <1>2 DEF WatchInv, WalkRule, JobRule
<1>6. DurationHeld'
  BY <1>2 DEF WatchInv, DurationHeld
<1> QED
  BY <1>1, <1>3, <1>4, <1>5, <1>6 DEF WatchInv

\* A watch that nobody else touches is the one its call issued, and is active.
LEMMA AloneEntry ==
    ASSUME WatchInv, NEW i \in WatchCalls, wcall[i].op = "schedule", Alone(i)
    PROVE  /\ wcall[i].key \in WatchKeys
           /\ watch[wcall[i].key] \in Entries
           /\ watch[wcall[i].key].by = i
           /\ watch[wcall[i].key].state \in {"pending", "matched"}
<1> DEFINE k == wcall[i].key
<1>1. k \in WatchKeys /\ watch[k] \in Entries
  BY DEF WatchInv, WatchType
<1>2. EntryRule(k) /\ watch[k].by # 0
  BY <1>1 DEF WatchInv, CallRule
<1>3. watch[k].by = i
  BY <1>2 DEF EntryRule, Issued, Alone
<1>4. watch[k].state # "cancelled"
  BY <1>2 DEF EntryRule, Alone
<1> QED
  BY <1>1, <1>2, <1>3, <1>4 DEF EntryRule, Entries

\* schedule and cancel: the watches under k are not alone any more, except the new one.
LEMMA CallBegins ==
    ASSUME WatchInv, WatchType', NEW i \in WatchCalls, NEW k \in WatchKeys,
           UNCHANGED <<stamp, now_ms, eval, walk, shot, since, prior>>,
           wcall[i].op = "none", wcall'[i].key = k,
           \/ wcall'[i].at = "done" /\ wcall'[i].op = "refused"
           \/ wcall'[i].at = "clear" /\ wcall'[i].op \in {"schedule", "cancel"},
           \A j \in WatchCalls : j # i => wcall'[j] = wcall[j],
           \A c \in WatchKeys : c # k => watch'[c] = watch[c],
           EntryRule(k)',
           watch[k].by # 0 => watch'[k].by # 0,
           watch'[k].by = i \/ (watch'[k].by = watch[k].by /\ watch'[k].spec = watch[k].spec),
           wcall'[i].op = "schedule" => watch'[k].by = i /\ watch'[k].entered = 0,
           wcall'[i].op = "refused" => watch'[k] = watch[k]
    PROVE  WatchInv'
<1>0. WatchType
  BY DEF WatchInv
<1>1. CallRule(i) /\ since[i] = NotSince /\ prior[i] = <<0, 0>> /\ i # 0
  BY DEF WatchInv, CallRule, WatchCalls
<1>2. Onwards
  BY DEF Onwards
<1>3. ASSUME NEW j \in WatchCalls, wcall[j].key = k, wcall[j].op = "schedule",
             wcall'[i].op # "refused"
      PROVE  ~Alone(j)'
  BY <1>3 DEF Alone
<1>4. ASSUME NEW j \in WatchCalls PROVE CallRule(j)' /\ TimeRule(j)'
  <2>1. CallRule(j) /\ TimeRule(j) /\ wcall[j].key \in WatchKeys
    BY <1>0 DEF WatchInv, WatchType
  <2>2. CASE j = i
    <3>1. /\ since'[i] = NotSince /\ since'[i].ms = 0
          /\ prior'[i] = <<0, 0>> /\ prior'[i][1] = 0 /\ prior'[i][2] = 0
      BY <1>1 DEF NotSince
    <3>2. Cooled(i)'
      BY <3>1, Zenon DEF Cooled
    <3>3. TimeRule(i)'
      BY <3>1, <3>2, Zenon DEF TimeRule
    <3>4. CallRule(i)'
      BY <1>1, <3>1 DEF CallRule
    <3> QED
      BY <2>2, <3>3, <3>4
  <2>3. CASE j # i /\ wcall[j].op = "schedule"
    <3>1. CallRule(j)'
      BY <2>1, <2>3 DEF CallRule
    <3>2. TimeRule(j)'
      <4>1. wcall'[j] = wcall[j] /\ since'[j] = since[j] /\ prior'[j] = prior[j]
        BY <2>3, Zenon
      <4>2. CASE wcall[j].key = k /\ wcall'[i].op # "refused"
        BY <1>3, <2>3, <4>2, Zenon DEF TimeRule
      <4>3. CASE wcall[j].key # k \/ wcall'[i].op = "refused"
        <5>1. watch'[wcall[j].key] = watch[wcall[j].key]
          BY <2>1, <4>3, Zenon
        <5>2. Alone(j)' => Alone(j)
          BY <1>2, <2>3, CallsStay, Zenon
        <5> QED
          BY <2>1, <4>1, <5>1, <5>2, Zenon DEF TimeRule, Cooled
      <4> QED
        BY <4>2, <4>3, Zenon
    <3> QED
      BY <3>1, <3>2
  <2>4. CASE j # i /\ wcall[j].op # "schedule"
    BY <2>1, <2>4, Zenon DEF CallRule, TimeRule
  <2> QED
    BY <2>2, <2>3, <2>4
<1>5. ASSUME NEW c \in WatchKeys PROVE EntryRule(c)'
  <2>1. CASE c # k
    BY <1>2, <2>1, CallsStay DEF WatchInv, EntryRule, Issued, Onwards
  <2> QED
    BY <2>1
<1>6. ASSUME NEW d, JobRule(d), d.key \in WatchKeys PROVE JobRule(d)'
  BY <1>2, <1>6, CallsStay DEF JobRule, Issued
<1>7. WalkRule'
  <2>1. WalkRule
    BY DEF WatchInv
  <2>2. \A d \in walk : JobRule(d)' /\ d.entry.state # "absent"
    BY <1>0, <1>6, <2>1 DEF WalkRule, WatchType, Jobs
  <2>3. ASSUME NEW d \in walk, Alone(d.entry.by)' PROVE d.entry.entered = watch'[d.key].entered
    <3>1. Issued(d.entry.by, d.key) /\ d.key \in WatchKeys
      BY <1>0, <2>1 DEF WalkRule, JobRule, WatchType, Jobs
    <3>2. Alone(d.entry.by) /\ watch'[d.key] = watch[d.key]
      BY <1>2, <1>3, <2>3, <3>1, CallsStay DEF Issued
    <3> QED
      BY <2>1, <3>1, <3>2 DEF WalkRule
  <2>4. shot # NoShot => JobRule(shot)'
    BY <1>0, <1>6, <2>1 DEF WalkRule, WatchType, Jobs
  <2> QED
    BY <2>1, <2>2, <2>3, <2>4 DEF WalkRule
<1>8. DurationHeld'
  BY <1>2, CallsStay DEF WatchInv, DurationHeld, WalkRule, JobRule, Issued
<1> QED
  BY <1>4, <1>5, <1>7, <1>8 DEF WatchInv

\* cancel.
LEMMA CancelKeeps ==
    ASSUME WatchInv, NEW i \in WatchCalls, NEW k \in WatchKeys, CancelWatch(i, k)
    PROVE  WatchInv'
<1>0. /\ WatchType /\ wcall[i].op = "none" /\ watch[k] \in Entries /\ EntryRule(k)
      /\ UNCHANGED <<clock, offset, stamp, now_ms, eval, walk, shot, since, prior>>
  BY DEF WatchInv, WatchType, CancelWatch, NewCall, CallRule, timeVars, evaluationVars, ghostVars
<1>1. /\ wcall'[i] = [op |-> "cancel", key |-> k, at |-> "clear"]
      /\ \A j \in WatchCalls : j # i => wcall'[j] = wcall[j]
      /\ watch'[k] = Anchored(watch[k], "cancelled", 0)
      /\ \A c \in WatchKeys : c # k => watch'[c] = watch[c]
  BY <1>0 DEF CancelWatch, WatchType, Anchored
<1>2. /\ watch'[k] \in Entries /\ watch'[k].state = "cancelled"
      /\ watch'[k].by = watch[k].by /\ watch'[k].spec = watch[k].spec
  <2> DEFINE w == watch[k]
  <2>1. w \in Entries
    BY <1>0
  <2> HIDE DEF w
  <2>2. /\ Anchored(w, "cancelled", 0) \in Entries
        /\ Anchored(w, "cancelled", 0).state = "cancelled"
        /\ Anchored(w, "cancelled", 0).by = w.by /\ Anchored(w, "cancelled", 0).spec = w.spec
    BY <2>1, AnchoredFacts
  <2> QED
    BY <1>1, <2>2 DEF w
<1>3. WatchType'
  <2>1. watch' \in [WatchKeys -> Entries]
    BY <1>0, <1>2 DEF CancelWatch, WatchType
  <2> QED
    BY <1>0, <2>1 DEF CancelWatch, WatchType
<1>4. EntryRule(k)'
  BY <1>0, <1>1, <1>2 DEF EntryRule, Issued, CancelWatch
<1> QED
  BY <1>0, <1>1, <1>2, <1>3, <1>4, CallBegins

\* schedule, refused or not.
LEMMA ScheduleKeeps ==
    ASSUME WatchInv, NEW i \in WatchCalls, NEW k \in WatchKeys, NEW spec \in WatchSpecs,
           ScheduleWatch(i, k, spec)
    PROVE  WatchInv'
<1>0. /\ WatchType /\ wcall[i].op = "none" /\ EntryRule(k) /\ i \in Nat /\ i # 0
      /\ UNCHANGED <<clock, offset, stamp, now_ms, eval, walk, shot, since, prior>>
  BY WatchAssumption DEF WatchInv, ScheduleWatch, NewCall, CallRule, WatchCalls, timeVars,
     evaluationVars, ghostVars
<1>1. CASE wcall' = [wcall EXCEPT ![i] = [op |-> "refused", key |-> k, at |-> "done"]]
           /\ UNCHANGED watch
  <2>1. /\ wcall'[i] = [op |-> "refused", key |-> k, at |-> "done"]
        /\ \A c \in WatchKeys : watch'[c] = watch[c]
        /\ \A j \in WatchCalls : j # i => wcall'[j] = wcall[j]
    BY <1>0, <1>1 DEF WatchType
  <2>2. WatchType'
    BY <1>0, <1>1 DEF WatchType
  <2>3. EntryRule(k)'
    BY <1>0, <1>1, <2>1 DEF EntryRule, Issued
  <2> QED
    BY <1>0, <2>1, <2>2, <2>3, CallBegins
<1>2. CASE /\ wcall' = [wcall EXCEPT ![i] = [op |-> "schedule", key |-> k, at |-> "clear"]]
           /\ watch' = [watch EXCEPT ![k] = [state |-> "pending", spec |-> spec,
                                             entered |-> 0, by |-> i]]
  <2>1. /\ wcall'[i] = [op |-> "schedule", key |-> k, at |-> "clear"]
        /\ \A j \in WatchCalls : j # i => wcall'[j] = wcall[j]
        /\ watch'[k] = [state |-> "pending", spec |-> spec, entered |-> 0, by |-> i]
        /\ \A c \in WatchKeys : c # k => watch'[c] = watch[c]
    BY <1>0, <1>2 DEF WatchType
  <2>2. WatchType'
    BY <1>0, <1>2 DEF WatchType, Entries
  <2>3. EntryRule(k)'
    BY <1>0, <2>1 DEF EntryRule, Issued
  <2> QED
    BY <1>0, <2>1, <2>2, <2>3, CallBegins
<1> QED
  BY <1>1, <1>2 DEF ScheduleWatch

\* The second step of schedule and cancel.
LEMMA ClearKeeps ==
    ASSUME WatchInv, NEW i \in WatchCalls, ClearState(i)
    PROVE  WatchInv'
<1> DEFINE k == wcall[i].key
<1>0. /\ WatchType /\ CallRule(i) /\ TimeRule(i) /\ k \in WatchKeys
      /\ wcall[i].op \in {"schedule", "cancel"}
      /\ UNCHANGED <<clock, offset, stamp, now_ms, watch, walk, shot, since>>
  BY DEF WatchInv, WatchType, ClearState, CallRule, timeVars, evaluationVars
<1>1. /\ \A j \in WatchCalls : wcall'[j].op = wcall[j].op /\ wcall'[j].key = wcall[j].key
      /\ wcall'[i].at = "done"
      /\ \A j \in WatchCalls : j # i => wcall'[j] = wcall[j] /\ prior'[j] = prior[j]
      /\ prior'[i] = <<0, 0>>
      /\ \A c \in WatchKeys : c # k => eval'[c] = eval[c]
  BY <1>0 DEF ClearState, WatchType
<1>2. WatchType'
  <2>1. eval' \in [WatchKeys -> [cooldown_until : Nat, high : BOOLEAN, window : Nat, seen : Nat]]
    BY <1>0 DEF ClearState, WatchType, NoEval
  <2>2. prior' \in [WatchCalls -> Nat \X Nat]
    BY <1>0 DEF ClearState, WatchType
  <2>3. wcall' \in [WatchCalls -> [op : {"none", "schedule", "cancel", "refused"},
                                   key : WatchKeys, at : {"new", "clear", "done"}]]
    <3>1. PICK c : c = wcall[i]
      OBVIOUS
    <3>2. c \in [op : {"none", "schedule", "cancel", "refused"}, key : WatchKeys,
                 at : {"new", "clear", "done"}]
      BY <1>0, <3>1 DEF WatchType
    <3>3. [c EXCEPT !.at = "done"] \in [op : {"none", "schedule", "cancel", "refused"},
                                        key : WatchKeys, at : {"new", "clear", "done"}]
      BY <3>2
    <3>4. wcall' = [wcall EXCEPT ![i] = [c EXCEPT !.at = "done"]]
      BY <1>0, <3>1, Zenon DEF ClearState, WatchType
    <3> QED
      BY <1>0, <3>3, <3>4, Zenon DEF WatchType
  <2> QED
    BY <1>0, <2>1, <2>2, <2>3 DEF WatchType
<1>3. /\ \A j \in WatchCalls : Alone(j)' = Alone(j)
      /\ \A j, c : Issued(j, c)' = Issued(j, c)
  BY <1>1 DEF Alone, Issued
<1>4. ASSUME NEW j \in WatchCalls PROVE CallRule(j)' /\ TimeRule(j)'
  <2>1. CallRule(j) /\ TimeRule(j)
    BY DEF WatchInv
  <2>2. CASE j = i
    <3>1. prior'[i][1] = 0 /\ prior'[i][2] = 0
      BY <1>1
    <3>2. /\ wcall'[i].op = wcall[i].op /\ wcall'[i].key = wcall[i].key /\ wcall'[i].at = "done"
          /\ watch' = watch /\ since' = since /\ (Alone(i)' <=> Alone(i))
      BY <1>0, <1>1, <1>3, Zenon
    <3>3. Cooled(i)'
      BY <3>1, Zenon DEF Cooled
    <3>4. TimeRule(i)'
      BY <1>0, <3>2, <3>3, Zenon DEF TimeRule
    <3>5. CallRule(i)'
      BY <1>0, <1>1, <3>2, Zenon DEF CallRule
    <3> QED
      BY <2>2, <3>4, <3>5
  <2>3. CASE j # i /\ wcall[j].key # k
    <3>1. wcall[j].key \in WatchKeys
      BY <1>0 DEF WatchType
    <3> QED
      BY <1>0, <1>1, <1>3, <2>1, <2>3, <3>1, ZenonT(60) DEF CallRule, TimeRule, Cooled
  <2>4. CASE j # i /\ wcall[j].key = k
    <3>1. ~Alone(j)
      BY <1>0, <2>4 DEF Alone
    <3> QED
      BY <1>0, <1>1, <1>3, <2>1, <2>4, <3>1, Zenon DEF CallRule, TimeRule
  <2> QED
    BY <2>2, <2>3, <2>4
<1>5. ASSUME NEW c \in WatchKeys PROVE EntryRule(c)'
  <2>1. EntryRule(c)
    BY Zenon DEF WatchInv
  <2>2. watch'[c] = watch[c] /\ \A j : Issued(j, c)' = Issued(j, c)
    BY <1>0, <1>3, Zenon
  <2> QED
    BY <1>1, <2>1, <2>2, Zenon DEF EntryRule
<1>6. WalkRule'
  <2>1. WalkRule
    BY DEF WatchInv
  <2>2. \A d : JobRule(d)' = JobRule(d)
    BY <1>0, <1>3, Zenon DEF JobRule
  <2>3. \A d \in walk : d.entry.by \in WatchCalls
    BY <2>1 DEF WalkRule, JobRule, Issued
  <2> QED
    BY <1>0, <1>3, <2>1, <2>2, <2>3, Zenon DEF WalkRule
<1>7. DurationHeld'
  BY <1>0, <1>3, Zenon DEF WatchInv, DurationHeld, WalkRule, JobRule, Issued
<1> QED
  BY <1>2, <1>4, <1>5, <1>6, <1>7 DEF WatchInv

\* The loop takes a happening and the snapshot of the active watches.
LEMMA EventKeeps ==
    ASSUME WatchInv, evaluate_event
    PROVE  WatchInv'
<1>0. /\ WatchType /\ shot = NoShot
      /\ UNCHANGED <<clock, offset, watch, eval, wcall, shot, since, prior>>
      /\ stamp' = clock /\ now_ms' = clock + offset
      /\ walk' = {[key |-> k, entry |-> watch[k]] : k \in {w \in WatchKeys : Active(w)}}
  BY DEF WatchInv, evaluate_event, timeVars, ghostVars
<1>1. ASSUME NEW d \in walk'
      PROVE  d \in Jobs /\ d.entry = watch[d.key] /\ d.entry.state # "absent"
  BY <1>0 DEF WatchType, Jobs, Active
<1>2. WatchType'
  BY <1>0, <1>1 DEF WatchType
<1>3. /\ \A j : Alone(j)' = Alone(j)
      /\ \A j, c : Issued(j, c)' = Issued(j, c)
  BY <1>0 DEF Alone, Issued
<1>4. ASSUME NEW j \in WatchCalls PROVE CallRule(j)' /\ TimeRule(j)'
  BY <1>0, <1>3, Zenon DEF WatchInv, CallRule, TimeRule, Cooled
<1>5. ASSUME NEW c \in WatchKeys PROVE EntryRule(c)'
  BY <1>0, <1>3 DEF WatchInv, EntryRule
<1>6. WalkRule'
  <2>1. \A d \in walk' : JobRule(d)'
    <3> SUFFICES ASSUME NEW d \in walk' PROVE JobRule(d)'
      BY Zenon
    <3>1. d.entry = watch[d.key] /\ d.entry.state # "absent" /\ d.key \in WatchKeys
      BY <1>1 DEF Jobs
    <3>2. EntryRule(d.key)
      BY <3>1, Zenon DEF WatchInv
    <3>3. Issued(d.entry.by, d.key)
      BY <3>1, <3>2 DEF EntryRule
    <3> QED
      BY <1>0, <1>3, <3>1, <3>3, Zenon DEF JobRule
  <2>2. \A d, b \in walk' : d.key = b.key => d = b
    BY <1>0
  <2>3. now_ms' # 0
    BY <1>0 DEF WatchType
  <2> QED
    BY <1>0, <1>1, <2>1, <2>2, <2>3 DEF WalkRule
<1>7. DurationHeld'
  BY <1>0 DEF DurationHeld
<1> QED
  BY <1>2, <1>4, <1>5, <1>6, <1>7 DEF WatchInv

\* What evaluate_one finds and leaves: whether the predicate matches, and the ledger's entry.
Evals == [cooldown_until : Nat, high : BOOLEAN, window : Nat, seen : Nat]
Verdict(d) == Matches(d.entry.spec.predicate, Rolled(eval[d.key]))
Judged(d) == IF Verdict(d) THEN note_match_entered(watch[d.key], d.entry)
             ELSE note_match_exited(watch[d.key], d.entry)
Matched(d, held) == IF ~Verdict(d) THEN NotSince
                    ELSE IF held = NotSince THEN [at |-> stamp, ms |-> now_ms] ELSE held

\* The window of the rate does not touch the cooldown.
LEMMA RolledFacts ==
    ASSUME WatchType, NEW e \in Evals
    PROVE  Rolled(e) \in Evals /\ Rolled(e).cooldown_until = e.cooldown_until
<1>1. \A n \in Nat : /\ [e EXCEPT !.window = n] \in Evals
                     /\ [e EXCEPT !.window = n].cooldown_until = e.cooldown_until
                     /\ [e EXCEPT !.window = n].seen = e.seen
  BY DEF Evals
<1>2. \A f \in Evals, n \in Nat : /\ [f EXCEPT !.seen = n] \in Evals
                                  /\ [f EXCEPT !.seen = n].cooldown_until = f.cooldown_until
  BY DEF Evals
<1>3. stamp \in Nat /\ e.window \in Nat /\ e.seen \in Nat /\ e.seen + 1 \in Nat
  BY DEF WatchType, Evals
<1>4. CASE e.window # 0 /\ stamp > e.window
  BY <1>1, <1>2, <1>3, <1>4, ZenonT(60) DEF Rolled
<1>5. CASE ~(e.window # 0 /\ stamp > e.window)
  <2> DEFINE n == IF e.window = 0 THEN stamp ELSE e.window
             f == [e EXCEPT !.window = n]
  <2>1. n \in Nat
    BY <1>3
  <2>2. f \in Evals /\ f.seen = e.seen /\ f.cooldown_until = e.cooldown_until
    BY <1>1, <2>1
  <2>3. Rolled(e) = [f EXCEPT !.seen = e.seen + 1]
    BY <1>5, <2>2 DEF Rolled
  <2> HIDE DEF f
  <2> QED
    BY <1>2, <1>3, <2>2, <2>3
<1> QED
  BY <1>4, <1>5

\* The anchor is set once a match begins and cleared when one ends.
LEMMA JudgedFacts ==
    ASSUME WatchType, NEW d \in Jobs
    PROVE  LET w == watch[d.key]
               gone == w.state \in {"absent", "cancelled"}
               timed == d.entry.spec.minimum_duration_ms > 0
           IN  /\ Judged(d) \in Entries
               /\ Judged(d).by = w.by /\ Judged(d).spec = w.spec
               /\ gone => Judged(d) = w
               /\ ~gone => Judged(d).state \in {"pending", "matched"}
               /\ timed /\ ~gone /\ Verdict(d) =>
                    Judged(d).entered = IF w.entered = 0 THEN now_ms ELSE w.entered
               /\ timed /\ ~gone /\ ~Verdict(d) /\ d.entry.entered = w.entered =>
                    Judged(d).entered = 0
<1> DEFINE w == watch[d.key]
           n == IF w.entered = 0 THEN now_ms ELSE w.entered
<1>1. w \in Entries /\ n \in Nat /\ d.entry.spec.minimum_duration_ms \in Nat
  BY WatchAssumption DEF WatchType, Jobs, Entries
<1>2. CASE Verdict(d)
  <2>1. Judged(d) = IF d.entry.spec.minimum_duration_ms = 0 \/ w.state \in {"absent", "cancelled"}
                    THEN w ELSE Anchored(w, "matched", n)
    <3>1. [w EXCEPT !.state = "matched"].entered = w.entered
      BY <1>1 DEF Entries
    <3> QED
      BY <1>2, <3>1 DEF Judged, note_match_entered, Anchored
  <2>0. \A m \in Nat, v \in Entries :
          /\ Anchored(v, "matched", m) \in Entries /\ Anchored(v, "matched", m).state = "matched"
          /\ Anchored(v, "matched", m).entered = m /\ Anchored(v, "matched", m).spec = v.spec
          /\ Anchored(v, "matched", m).by = v.by
    BY AnchoredFacts
  <2> HIDE DEF w, n
  <2>2. /\ Anchored(w, "matched", n) \in Entries /\ Anchored(w, "matched", n).state = "matched"
        /\ Anchored(w, "matched", n).entered = n /\ Anchored(w, "matched", n).spec = w.spec
        /\ Anchored(w, "matched", n).by = w.by
    BY <1>1, <2>0
  <2>3. w.state \in {"absent", "pending", "matched", "cancelled"}
    BY <1>1 DEF Entries
  <2>4. n = IF w.entered = 0 THEN now_ms ELSE w.entered
    BY DEF n
  <2> QED
    <3>1. CASE d.entry.spec.minimum_duration_ms = 0 \/ w.state \in {"absent", "cancelled"}
      <4>1. Judged(d) = w
        BY <2>1, <3>1, Zenon
      <4> QED
        BY <1>1, <1>2, <2>3, <3>1, <4>1 DEF w
    <3>2. CASE ~(d.entry.spec.minimum_duration_ms = 0 \/ w.state \in {"absent", "cancelled"})
      <4>1. Judged(d) = Anchored(w, "matched", n)
        BY <2>1, <3>2, Zenon
      <4>2. /\ Judged(d) \in Entries /\ Judged(d).state = "matched"
            /\ Judged(d).entered = (IF w.entered = 0 THEN now_ms ELSE w.entered)
            /\ Judged(d).spec = w.spec /\ Judged(d).by = w.by
        BY <2>2, <2>4, <4>1, Zenon
      <4> QED
        BY <1>2, <3>2, <4>2, Zenon DEF w
    <3> QED
      BY <3>1, <3>2, Zenon
<1>3. CASE ~Verdict(d)
  <2>1. Judged(d) = IF d.entry.spec.minimum_duration_ms > 0 /\ d.entry.entered # 0
                         /\ w.state \notin {"absent", "cancelled"}
                    THEN Anchored(w, "pending", 0) ELSE w
    BY <1>1, <1>3 DEF Judged, note_match_exited, Anchored
  <2> HIDE DEF w, n
  <2>2. /\ Anchored(w, "pending", 0) \in Entries /\ Anchored(w, "pending", 0).state = "pending"
        /\ Anchored(w, "pending", 0).entered = 0 /\ Anchored(w, "pending", 0).spec = w.spec
        /\ Anchored(w, "pending", 0).by = w.by
    BY <1>1, AnchoredFacts
  <2>3. w.state \in {"absent", "pending", "matched", "cancelled"}
    BY <1>1 DEF Entries
  <2> QED
    BY <1>1, <1>3, <2>1, <2>2, <2>3, Zenon DEF w
<1> QED
  BY <1>2, <1>3, Zenon

\* Steps of the loop on key k, for the watch of call i: other watches keep their times.
LEMMA LoopKeeps ==
    ASSUME WatchInv, WatchType', NEW i \in WatchCalls, NEW k \in WatchKeys, Issued(i, k),
           UNCHANGED <<wcall, stamp, now_ms>>, walk' \subseteq walk,
           \A c \in WatchKeys : c # k => watch'[c] = watch[c] /\ eval'[c] = eval[c],
           \A j \in WatchCalls : j # i => since'[j] = since[j] /\ prior'[j] = prior[j],
           watch'[k].by = watch[k].by, watch'[k].spec = watch[k].spec,
           \A st \in {"absent", "cancelled"} : (watch'[k].state = st) <=> (watch[k].state = st),
           shot = NoShot \/ shot.entry.by = i,
           shot' # NoShot => \A d \in walk' : d.key # shot'.key,
           shot' = NoShot \/ (shot'.entry.by = i /\ shot'.key = k /\ JobRule(shot')),
           watch'[k].entered = watch[k].entered \/ \A d \in walk' : d.key # k,
           since'[i].ms = 0 => since'[i] = NotSince, TimeRule(i)', DurationHeld'
    PROVE  WatchInv'
<1>0. WatchType /\ WalkRule
  BY DEF WatchInv
<1>1. /\ \A j : Alone(j)' = Alone(j)
      /\ \A j, c : Issued(j, c)' = Issued(j, c)
  BY DEF Alone, Issued
<1>2. \A c \in WatchKeys : watch'[c].by = watch[c].by /\ watch'[c].spec = watch[c].spec
  OBVIOUS
<1>3. ASSUME NEW j \in WatchCalls PROVE CallRule(j)' /\ TimeRule(j)'
  <2>1. CallRule(j) /\ TimeRule(j) /\ wcall[j].key \in WatchKeys
    BY <1>0 DEF WatchInv, WatchType
  <2>2. CASE j = i
    BY <1>2, <2>1, <2>2, Zenon DEF CallRule, Issued
  <2>3. CASE j # i
    <3>1. CallRule(j)'
      BY <1>2, <2>1, <2>3, Zenon DEF CallRule
    <3>2. wcall[j].op = "schedule" /\ wcall[j].key = k => ~Alone(j)
      BY <2>3, Zenon DEF Alone, Issued
    <3>3. ASSUME wcall[j].key # k PROVE TimeRule(j)'
      <4>1. /\ watch'[wcall[j].key] = watch[wcall[j].key] /\ eval'[wcall[j].key] = eval[wcall[j].key]
            /\ since'[j] = since[j] /\ prior'[j] = prior[j] /\ wcall' = wcall /\ stamp' = stamp
        BY <2>1, <2>3, <3>3, Zenon
      <4>2. ~(shot # NoShot /\ shot.entry.by = j) /\ ~(shot' # NoShot /\ shot'.entry.by = j)
        BY <2>3, Zenon
      <4>3. Cooled(j) => Cooled(j)'
        BY <4>1, <4>2, Zenon DEF Cooled
      <4> QED
        BY <1>1, <2>1, <4>1, <4>3, Zenon DEF TimeRule
    <3> QED
      BY <1>1, <3>1, <3>2, <3>3, Zenon DEF TimeRule
  <2> QED
    BY <2>2, <2>3, Zenon
<1>4. ASSUME NEW c \in WatchKeys PROVE EntryRule(c)'
  <2>1. EntryRule(c)
    BY Zenon DEF WatchInv
  <2>2. (watch'[c].state = "absent" <=> watch[c].state = "absent")
        /\ (watch'[c].state = "cancelled" <=> watch[c].state = "cancelled")
    BY Zenon
  <2> QED
    BY <1>1, <1>2, <2>1, <2>2, Zenon DEF EntryRule
<1>5. \A d \in Jobs : JobRule(d) => JobRule(d)'
  BY <1>1, <1>2, Zenon DEF JobRule, Jobs
<1>6. WalkRule'
  <2>1. \A d \in walk' : JobRule(d)' /\ d.entry.state # "absent"
    BY <1>0, <1>5, Zenon DEF WalkRule, WatchType
  <2>2. \A d \in walk' : Alone(d.entry.by)' => d.entry.entered = watch'[d.key].entered
    <3> TAKE d \in walk'
    <3>1. d \in walk /\ d.key \in WatchKeys
      BY <1>0 DEF WatchType, Jobs
    <3>2. watch'[d.key].entered = watch[d.key].entered
      BY <3>1, Zenon
    <3> QED
      BY <1>0, <1>1, <3>1, <3>2, Zenon DEF WalkRule
  <2>3. shot' # NoShot => JobRule(shot)' /\ \A d \in walk' : d.key # shot'.key
    BY <1>1, <1>2, Zenon DEF JobRule, WatchType, Jobs
  <2> QED
    BY <1>0, <2>1, <2>2, <2>3, Zenon DEF WalkRule
<1> QED
  BY <1>3, <1>4, <1>6 DEF WatchInv

\* One evaluation: throttled, or judged and perhaps dispatched.
LEMMA OneKeeps ==
    ASSUME WatchInv, NEW d \in walk, evaluate_one(d)
    PROVE  WatchInv'
<1> DEFINE i == d.entry.by
           k == d.key
           spec == d.entry.spec
           min == spec.minimum_duration_ms
           cooldown == spec.cooldown_ms
<1>0. /\ WatchType /\ WalkRule /\ shot = NoShot
      /\ UNCHANGED <<clock, offset, wcall, stamp, now_ms>> /\ walk' = walk \ {d}
  BY DEF WatchInv, evaluate_one, timeVars
<1>1. /\ i \in WatchCalls /\ k \in WatchKeys /\ Issued(i, k) /\ JobRule(d) /\ d \in Jobs
      /\ eval[k] \in Evals /\ watch[k] \in Entries /\ spec \in WatchSpecs
      /\ wcall[i].op = "schedule" /\ wcall[i].key = k /\ i # 0
      /\ min \in Nat /\ cooldown \in Nat /\ stamp \in Nat /\ now_ms \in Nat /\ now_ms # 0
  <2>1. d \in Jobs /\ JobRule(d) /\ stamp \in Nat /\ now_ms \in Nat /\ now_ms # 0
    BY <1>0, Zenon DEF WalkRule, WatchType
  <2>2. k \in WatchKeys /\ spec \in WatchSpecs
    BY <2>1 DEF Jobs, Entries
  <2>3. Issued(i, k) /\ i \in WatchCalls /\ wcall[i].op = "schedule" /\ wcall[i].key = k /\ i # 0
    <3>1. i \in WatchCalls /\ wcall[i].op = "schedule" /\ wcall[i].key = k
      BY <2>1, Zenon DEF JobRule, Issued
    <3>2. 0 \notin WatchCalls
      BY DEF WatchCalls
    <3> QED
      BY <2>1, <3>1, <3>2, Zenon DEF JobRule
  <2>4. eval[k] \in Evals /\ watch[k] \in Entries
    BY <1>0, <2>2 DEF WatchType, Evals
  <2>5. min \in Nat /\ cooldown \in Nat
    BY <2>2, WatchAssumption
  <2> QED
    BY <2>1, <2>2, <2>3, <2>4, <2>5, Zenon
<1>2. /\ \A j : Alone(j)' = Alone(j)
      /\ \A b \in walk' : b.key # k
      /\ d # NoShot /\ CallRule(i) /\ TimeRule(i)
  BY <1>0, <1>1, Blanks, Zenon DEF WalkRule, Alone, WatchInv
<1>3. CASE UNCHANGED <<watch, eval, shot, since, prior>>
  <2>1. WatchType'
    BY <1>0, <1>3 DEF WatchType
  <2>2. TimeRule(i)' /\ DurationHeld'
    BY <1>0, <1>2, <1>3, Zenon DEF TimeRule, Cooled, DurationHeld
  <2>3. walk' \subseteq walk /\ shot' = NoShot
    BY <1>0, <1>3
  <2>4. since'[i].ms = 0 => since'[i] = NotSince
    BY <1>2, <1>3, Zenon DEF CallRule
  <2> QED
    BY <1>0, <1>1, <1>2, <1>3, <2>1, <2>2, <2>3, <2>4, LoopKeeps, Zenon
<1>4. ASSUME ~Throttled(eval[k]),
             \/ shot' = shot /\ prior' = prior
             \/ /\ shot' = d /\ prior' = [prior EXCEPT ![i] = <<@[2], stamp>>]
                /\ Verdict(d)
                /\ min = 0 \/ (Judged(d).entered # 0 /\ now_ms >= Judged(d).entered + min)
                /\ ~(cooldown > 0 /\ eval[k].cooldown_until > stamp),
             eval' = [eval EXCEPT ![k] = [Rolled(eval[k]) EXCEPT !.high =
                                            High(spec.predicate, Rolled(eval[k]))]],
             watch' = [watch EXCEPT ![k] = Judged(d)],
             since' = [since EXCEPT ![i] = Matched(d, @)]
      PROVE  WatchInv'
  <2>0. /\ watch'[k] = Judged(d) /\ Judged(d) \in Entries
        /\ Judged(d).by = watch[k].by /\ Judged(d).spec = watch[k].spec
        /\ watch[k].state \in {"absent", "cancelled"} => Judged(d) = watch[k]
        /\ watch[k].state \notin {"absent", "cancelled"} => Judged(d).state \in {"pending", "matched"}
    BY <1>0, <1>1, <1>4, JudgedFacts, Zenon DEF WatchType
  <2>1. /\ \A c \in WatchKeys : c # k => watch'[c] = watch[c] /\ eval'[c] = eval[c]
        /\ \A j \in WatchCalls : j # i => since'[j] = since[j] /\ prior'[j] = prior[j]
        /\ since'[i] = Matched(d, since[i])
    BY <1>0, <1>1, <1>4 DEF WatchType
  <2>2. eval'[k] \in Evals /\ eval'[k].cooldown_until = eval[k].cooldown_until
    <3>1. Rolled(eval[k]) \in Evals /\ Rolled(eval[k]).cooldown_until = eval[k].cooldown_until
      BY <1>0, <1>1, RolledFacts
    <3>2. High(spec.predicate, Rolled(eval[k])) \in BOOLEAN
      BY <3>1, Zenon DEF High, Evals
    <3>3. eval'[k] = [Rolled(eval[k]) EXCEPT !.high = High(spec.predicate, Rolled(eval[k]))]
      BY <1>0, <1>1, <1>4 DEF WatchType
    <3> QED
      BY <3>1, <3>2, <3>3 DEF Evals
  <2>3. WatchType'
    <3>1. watch' \in [WatchKeys -> Entries]
      BY <1>0, <1>4, <2>0, Zenon DEF WatchType
    <3>2. eval' \in [WatchKeys -> Evals]
      BY <1>0, <1>4, <2>2, Zenon DEF WatchType, Evals
    <3>3. since' \in [WatchCalls -> [at : Nat, ms : Nat]]
      BY <1>0, <1>1, <1>4 DEF WatchType, Matched, NotSince
    <3>4. prior' \in [WatchCalls -> Nat \X Nat]
      <4>1. prior \in [WatchCalls -> Nat \X Nat] /\ prior[i][2] \in Nat
        BY <1>0, <1>1 DEF WatchType
      <4>2. <<prior[i][2], stamp>> \in Nat \X Nat
        BY <1>1, <4>1
      <4> QED
        BY <1>4, <4>1, <4>2
    <3>5. shot' \in Jobs /\ walk' \subseteq Jobs
      BY <1>0, <1>1, <1>4 DEF WatchType
    <3> QED
      BY <1>0, <3>1, <3>2, <3>3, <3>4, <3>5 DEF WatchType, Evals
  <2>4. TimeRule(i)'
    <3>1. ASSUME Alone(i)
          PROVE  watch[k].state \notin {"absent", "cancelled"} /\ watch[k].spec = spec
      BY <1>1, <3>1, AloneEntry DEF JobRule
    <3>2. ASSUME Alone(i), min > 0 PROVE since'[i].ms = watch'[k].entered
      <4>1. since[i].ms = watch[k].entered /\ d.entry.entered = watch[k].entered
        BY <1>0, <1>1, <1>2, <3>1, <3>2, Zenon DEF TimeRule, WalkRule
      <4>2. /\ Verdict(d) => Judged(d).entered = IF watch[k].entered = 0 THEN now_ms ELSE watch[k].entered
            /\ ~Verdict(d) => Judged(d).entered = 0
        BY <1>0, <1>1, <3>1, <3>2, <4>1, JudgedFacts, Zenon
      <4>3. since'[i].ms = IF ~Verdict(d) THEN 0 ELSE IF since[i].ms = 0 THEN now_ms ELSE since[i].ms
        <5>1. NotSince.ms = 0 /\ [at |-> stamp, ms |-> now_ms].ms = now_ms
          BY DEF NotSince
        <5>2. since[i].ms = 0 => since[i] = NotSince
          BY <1>2, Zenon DEF CallRule
        <5> QED
          BY <2>1, <5>1, <5>2, Zenon DEF Matched
      <4> QED
        BY <2>0, <4>1, <4>2, <4>3, Zenon
    <3>3. ASSUME Alone(i), cooldown > 0 PROVE Cooled(i)'
      <4>1. Cooled(i)
        BY <1>1, <1>2, <3>1, <3>3, Zenon DEF TimeRule
      <4>2. CASE shot' = shot /\ prior' = prior
        BY <1>0, <1>1, <2>0, <2>2, <4>1, <4>2, Zenon DEF Cooled
      <4>3. CASE shot' = d /\ prior'[i] = <<prior[i][2], stamp>> /\ stamp >= eval[k].cooldown_until
        <5>1. prior[i] \in Nat \X Nat /\ eval[k].cooldown_until \in Nat
          BY <1>0, <1>1, Zenon DEF WatchType, Evals
        <5>2. prior[i][2] # 0 => stamp >= prior[i][2] + cooldown
          <6>1. shot = NoShot /\ watch[k].spec.cooldown_ms = cooldown
            BY <1>0, <1>1, <3>1, <3>3, Zenon
          <6>2. prior[i][2] # 0 => eval[k].cooldown_until >= prior[i][2] + cooldown
            BY <1>1, <4>1, <6>1, Zenon DEF Cooled
          <6>3. stamp \in Nat /\ cooldown \in Nat /\ prior[i][2] \in Nat
            BY <1>0, <1>1, <5>1, WatchAssumption, Zenon DEF WatchType
          <6> QED
            <7>1. stamp >= eval[k].cooldown_until /\ eval[k].cooldown_until \in Nat
              BY <4>3, <5>1, Zenon
            <7> HIDE DEF cooldown
            <7> QED BY <6>2, <6>3, <7>1
        <5>3. prior'[i][1] = prior[i][2] /\ prior'[i][2] = stamp
          BY <4>3
        <5>4. shot' # NoShot /\ shot'.entry.by = i
          BY <1>2, <4>3
        <5>5. watch'[k].spec.cooldown_ms = cooldown
          BY <2>0, <3>1, <3>3, Zenon
        <5> QED
          BY <1>0, <1>1, <5>2, <5>3, <5>4, <5>5, Zenon DEF Cooled
      <4>4. shot' = d => prior'[i] = <<prior[i][2], stamp>> /\ stamp >= eval[k].cooldown_until
        BY <1>0, <1>1, <1>2, <1>4, <3>3 DEF WatchType, Evals
      <4> QED
        BY <1>4, <4>2, <4>3, <4>4
    <3> QED
      BY <1>0, <1>1, <1>2, <2>0, <3>1, <3>2, <3>3, Zenon DEF TimeRule
  <2>5. DurationHeld'
    <3>1. ASSUME shot' = d, Alone(i), min > 0
          PROVE  /\ since'[i] # NotSince /\ now_ms >= since'[i].ms + min
                 /\ now_ms + since'[i].at <= stamp + since'[i].ms => stamp >= since'[i].at + min
      <4>1. Judged(d).entered # 0 /\ now_ms >= Judged(d).entered + min
        BY <1>0, <1>1, <1>2, <1>4, <3>1
      <4>2. watch[k].spec = spec
        BY <1>1, <3>1, AloneEntry, Zenon DEF JobRule
      <4>3. since'[i].ms = Judged(d).entered
        BY <1>0, <1>1, <1>2, <2>0, <2>4, <3>1, <4>2, Zenon DEF TimeRule
      <4>4. since'[i].at \in Nat /\ since'[i].ms \in Nat
        BY <1>1, <2>3 DEF WatchType
      <4>5. since'[i] # NotSince
        BY <4>1, <4>3 DEF NotSince
      <4>6. now_ms >= since'[i].ms + min
        BY <4>1, <4>3, Zenon
      <4> HIDE DEF min
      <4>7. now_ms + since'[i].at <= stamp + since'[i].ms => stamp >= since'[i].at + min
        BY <1>1, <4>4, <4>6
      <4> QED
        BY <4>5, <4>6, <4>7, Zenon
    <3>2. shot' = shot \/ shot' = d
      BY <1>4
    <3> QED
      BY <1>0, <1>2, <3>1, <3>2 DEF DurationHeld
  <2>6. \A st \in {"absent", "cancelled"} : (watch'[k].state = st) <=> (watch[k].state = st)
    BY <2>0
  <2>7. /\ walk' \subseteq walk /\ \A b \in walk' : b.key # k
        /\ shot' = NoShot \/ shot' = d
    BY <1>0, <1>2, <1>4
  <2>8. watch'[k].by = watch[k].by /\ watch'[k].spec = watch[k].spec
    BY <2>0
  <2>9. /\ shot = NoShot \/ shot.entry.by = i
        /\ shot' # NoShot => \A b \in walk' : b.key # shot'.key
        /\ shot' = NoShot \/ (shot'.entry.by = i /\ shot'.key = k /\ JobRule(shot'))
        /\ watch'[k].entered = watch[k].entered \/ \A b \in walk' : b.key # k
    BY <1>0, <1>1, <2>7, Zenon
  <2>10. UNCHANGED <<wcall, stamp, now_ms>> /\ i \in WatchCalls /\ k \in WatchKeys /\ Issued(i, k)
    BY <1>0, <1>1, Zenon
  <2>11. since'[i].ms = 0 => since'[i] = NotSince
    <3>1. [at |-> stamp, ms |-> now_ms].ms = now_ms /\ now_ms # 0
      BY <1>1
    <3>2. since[i].ms = 0 => since[i] = NotSince
      BY <1>2, Zenon DEF CallRule
    <3> QED
      BY <2>1, <3>1, <3>2, Zenon DEF Matched
  <2> QED
    BY <2>1, <2>3, <2>4, <2>5, <2>6, <2>7, <2>8, <2>9, <2>10, <2>11, LoopKeeps, Zenon
<1>5. \/ UNCHANGED <<watch, eval, shot, since, prior>>
      \/ /\ ~Throttled(eval[k])
         /\ \/ shot' = shot /\ prior' = prior
            \/ /\ shot' = d /\ prior' = [prior EXCEPT ![i] = <<@[2], stamp>>]
               /\ Verdict(d)
               /\ min = 0 \/ (Judged(d).entered # 0 /\ now_ms >= Judged(d).entered + min)
               /\ ~(cooldown > 0 /\ eval[k].cooldown_until > stamp)
         /\ eval' = [eval EXCEPT ![k] = [Rolled(eval[k]) EXCEPT !.high =
                                           High(spec.predicate, Rolled(eval[k]))]]
         /\ watch' = [watch EXCEPT ![k] = Judged(d)]
         /\ since' = [since EXCEPT ![i] = Matched(d, @)]
  <2>1. Rolled(eval[k]).cooldown_until = eval[k].cooldown_until
    BY <1>0, <1>1, RolledFacts, Zenon
  <2> QED
    BY <2>1, Zenon DEF evaluate_one, Verdict, Judged, Matched, ghostVars
<1> QED
  BY <1>3, <1>4, <1>5

\* The dispatch has returned: the cooldown runs from the moment of the dispatch.
LEMMA FiredKeeps ==
    ASSUME WatchInv, MarkWatchFired
    PROVE  WatchInv'
<1>a. PICK i, k, spec : i = shot.entry.by /\ k = shot.key /\ spec = shot.entry.spec
  OBVIOUS
<1> DEFINE cooldown == spec.cooldown_ms
           gone == watch[k].state \in {"absent", "cancelled"}
<1>0. /\ WatchType /\ WalkRule /\ shot # NoShot /\ shot' = NoShot
      /\ UNCHANGED <<clock, offset, wcall, stamp, now_ms, walk, prior>>
      /\ since' = [since EXCEPT ![i] = NotSince]
      /\ watch' = IF gone THEN watch ELSE [watch EXCEPT ![k].state = "pending", ![k].entered = 0]
      /\ eval' = IF cooldown = 0 THEN eval
                 ELSE [eval EXCEPT ![k].cooldown_until = stamp + cooldown]
  BY <1>a DEF WatchInv, MarkWatchFired, CooldownFrom, timeVars
<1>1. /\ i \in WatchCalls /\ k \in WatchKeys /\ Issued(i, k) /\ JobRule(shot)
      /\ watch[k] \in Entries /\ eval[k] \in Evals /\ cooldown \in Nat /\ stamp \in Nat
      /\ wcall[i].op = "schedule" /\ wcall[i].key = k
  <2>1. shot \in Jobs /\ JobRule(shot) /\ stamp \in Nat
    BY <1>0 DEF WalkRule, WatchType
  <2>2. k \in WatchKeys /\ spec \in WatchSpecs
    BY <1>a, <2>1 DEF Jobs, Entries
  <2>3. eval[k] \in Evals /\ watch[k] \in Entries
    BY <1>0, <2>2 DEF WatchType, Evals
  <2> QED
    BY <1>a, <2>1, <2>2, <2>3, WatchAssumption, Zenon DEF JobRule, Issued
<1>2. /\ \A j : Alone(j)' = Alone(j)
      /\ \A b \in walk' : b.key # k
      /\ TimeRule(i)
  BY <1>a, <1>0, <1>1 DEF WalkRule, Alone, WatchInv
<1>3. /\ watch'[k] \in Entries /\ watch'[k].by = watch[k].by /\ watch'[k].spec = watch[k].spec
      /\ gone => watch'[k] = watch[k]
      /\ ~gone => watch'[k].state = "pending" /\ watch'[k].entered = 0
  <2>1. CASE gone
    BY <1>0, <1>1, <2>1
  <2>2. CASE ~gone
    <3>1. watch'[k] = Anchored(watch[k], "pending", 0)
      <4>1. watch' = [watch EXCEPT ![k].state = "pending", ![k].entered = 0]
        BY <1>0, <2>2, Zenon
      <4> QED
        BY <1>0, <1>1, <4>1, Zenon DEF WatchType, Anchored
    <3>2. PICK v, w : v = watch[k] /\ w = Anchored(v, "pending", 0)
      OBVIOUS
    <3>3. v \in Entries
      BY <1>1, <3>2, Zenon
    <3>4. /\ w \in Entries /\ w.state = "pending" /\ w.entered = 0
          /\ w.spec = v.spec /\ w.by = v.by
      BY <3>2, <3>3, AnchoredFacts
    <3> QED
      BY <2>2, <3>1, <3>2, <3>4, Zenon
  <2> QED
    BY <2>1, <2>2
<1>4. /\ eval'[k] \in Evals
      /\ cooldown > 0 => eval'[k].cooldown_until = stamp + cooldown
  <2>1. CASE cooldown = 0
    BY <1>0, <1>1, <2>1
  <2>2. CASE cooldown # 0
    <3>1. eval'[k] = [eval[k] EXCEPT !.cooldown_until = stamp + cooldown]
      BY <1>0, <1>1, <2>2 DEF WatchType
    <3>2. stamp + cooldown \in Nat
      BY <1>1
    <3> QED
      BY <1>1, <3>1, <3>2 DEF Evals
  <2> QED
    BY <2>1, <2>2, Zenon
<1>5. /\ \A c \in WatchKeys : c # k => watch'[c] = watch[c] /\ eval'[c] = eval[c]
      /\ \A j \in WatchCalls : j # i => since'[j] = since[j] /\ prior'[j] = prior[j]
      /\ since'[i] = NotSince /\ since'[i].ms = 0
  BY <1>0, <1>1 DEF WatchType, NotSince
<1>6. WatchType'
  <2>1. watch' \in [WatchKeys -> Entries]
    BY <1>0, <1>3, Zenon DEF WatchType
  <2>2. eval' \in [WatchKeys -> Evals]
    BY <1>0, <1>4, Zenon DEF WatchType, Evals
  <2>3. since' \in [WatchCalls -> [at : Nat, ms : Nat]]
    BY <1>0 DEF WatchType, NotSince
  <2>4. shot' \in Jobs
    BY <1>0, Blanks
  <2> QED
    BY <1>0, <2>1, <2>2, <2>3, <2>4 DEF WatchType, Evals
<1>7. TimeRule(i)'
  <2>1. ASSUME Alone(i) PROVE ~gone /\ watch[k].spec = spec
    BY <1>a, <1>1, <2>1, AloneEntry, ZenonT(60) DEF JobRule
  <2>2. ASSUME Alone(i), cooldown > 0 PROVE Cooled(i)'
    <3>1. Cooled(i) /\ prior[i] \in Nat \X Nat
      BY <1>0, <1>1, <1>2, <2>1, <2>2 DEF TimeRule, WatchType
    <3>2. prior[i][2] # 0 => prior[i][2] = stamp
      BY <1>a, <1>0, <3>1, Zenon DEF Cooled
    <3>3. /\ wcall'[i].key = k /\ watch'[k].spec.cooldown_ms = cooldown
          /\ watch[wcall[i].key].spec.cooldown_ms = cooldown
          /\ prior'[i] = prior[i] /\ shot' = NoShot
          /\ eval'[k].cooldown_until = stamp + cooldown
      BY <1>0, <1>1, <1>3, <1>4, <2>1, <2>2
    <3>4. prior[i][1] # 0 => prior[i][2] >= prior[i][1] + cooldown
      BY <3>1, <3>3, Zenon DEF Cooled
    <3> QED
      <4>1. prior'[i][2] # 0 => eval'[k].cooldown_until >= prior'[i][2] + cooldown
        <5>1. cooldown \in Nat /\ stamp \in Nat
          BY <1>1, Zenon
        <5>2. prior'[i][2] # 0 => prior'[i][2] = stamp
          BY <3>2, <3>3, Zenon
        <5>3. eval'[k].cooldown_until = stamp + cooldown
          BY <3>3, Zenon
        <5> HIDE DEF cooldown
        <5> QED BY <5>1, <5>2, <5>3
      <4>2. prior'[i][1] # 0 => prior'[i][2] >= prior'[i][1] + cooldown
        BY <3>3, <3>4, Zenon
      <4> QED
        BY <3>3, <4>1, <4>2, Zenon DEF Cooled
  <2>3. wcall'[i].key = k /\ wcall' = wcall
    BY <1>0, <1>1
  <2>4. ASSUME Alone(i) PROVE watch'[k].spec = spec /\ watch'[k].entered = 0
    BY <1>3, <2>1, <2>4
  <2> QED
    BY <1>2, <1>5, <2>2, <2>3, <2>4, Zenon DEF TimeRule
<1>8. DurationHeld'
  BY <1>0 DEF DurationHeld
<1>9. \A st \in {"absent", "cancelled"} : (watch'[k].state = st) <=> (watch[k].state = st)
  BY <1>3
<1>10. /\ UNCHANGED <<wcall, stamp, now_ms>> /\ walk' \subseteq walk /\ shot' = NoShot
       /\ shot.entry.by = i
  BY <1>a, <1>0
<1> QED
  BY <1>1, <1>2, <1>3, <1>5, <1>6, <1>7, <1>8, <1>9, <1>10, LoopKeeps, Zenon

\* A steward that starts has no watch.
LEMMA WatchInitHolds == WatchInit => WatchInv
<1> SUFFICES ASSUME WatchInit PROVE WatchInv
  OBVIOUS
<1>1. WatchType
  <2>1. offset \in Nat /\ NotSince \in [at : Nat, ms : Nat]
    BY WatchAssumption DEF WatchInit, NotSince
  <2> QED
    BY <2>1, Blanks DEF WatchInit, WatchType, NoEval, NoWCall, Entries
<1>2. \A i \in WatchCalls : CallRule(i) /\ TimeRule(i)
  BY DEF WatchInit, CallRule, TimeRule, NoWCall
<1>3. \A k \in WatchKeys : EntryRule(k)
  BY DEF WatchInit, EntryRule, NoWatch
<1>4. WalkRule /\ DurationHeld
  BY Zenon DEF WatchInit, WalkRule, DurationHeld
<1> QED
  BY <1>1, <1>2, <1>3, <1>4 DEF WatchInv

\* The rules of the watches hold at every step of the ledger and of the loop.
THEOREM WatchInvariant == WatchesSpec => []WatchInv
<1>1. WatchInv /\ [WatchNext]_watchVars => WatchInv'
  <2> SUFFICES ASSUME WatchInv, [WatchNext]_watchVars PROVE WatchInv'
    OBVIOUS
  <2>0. clock \in Nat \ {0} /\ offset \in Nat
    BY DEF WatchInv, WatchType
  <2>1. ASSUME NEW i \in WatchCalls, NEW k \in WatchKeys, CancelWatch(i, k) PROVE WatchInv'
    BY <2>1, CancelKeeps
  <2>2. ASSUME NEW i \in WatchCalls, NEW k \in WatchKeys, NEW spec \in WatchSpecs,
               ScheduleWatch(i, k, spec)
        PROVE  WatchInv'
    BY <2>2, ScheduleKeeps
  <2>3. ASSUME NEW i \in WatchCalls, ClearState(i) PROVE WatchInv'
    BY <2>3, ClearKeeps
  <2>4. ASSUME NEW r \in Readings, Emit(r) PROVE WatchInv'
    BY <2>0, <2>4, IdleKeeps DEF Emit, timeVars, evaluationVars, ghostVars
  <2>5. CASE evaluate_event
    BY <2>5, EventKeeps
  <2>6. ASSUME NEW d \in walk, evaluate_one(d) PROVE WatchInv'
    BY <2>6, OneKeeps
  <2>7. CASE MarkWatchFired
    BY <2>7, FiredKeeps
  <2>8. CASE WatchTick
    BY <2>0, <2>8, IdleKeeps DEF WatchTick, evaluationVars, ghostVars
  <2>9. CASE DoubtClock
    BY <2>0, <2>9, IdleKeeps DEF DoubtClock, evaluationVars, ghostVars
  <2>10. CASE StepWall
    BY <2>0, <2>10, WatchAssumption, IdleKeeps DEF StepWall, evaluationVars, ghostVars
  <2>11. CASE UNCHANGED watchVars
    BY <2>0, <2>11, IdleKeeps DEF watchVars, timeVars, evaluationVars, ghostVars
  <2> QED
    BY <2>1, <2>2, <2>3, <2>4, <2>5, <2>6, <2>7, <2>8, <2>9, <2>10, <2>11 DEF WatchNext
<1> QED
  BY <1>1, WatchInitHolds, PTL DEF WatchesSpec

\* The happenings behind two dispatches of a level-triggered watch that nobody re-issues
\* were taken up a cooldown apart, whatever is throttled or lost meanwhile and however the
\* wall clock is set (evaluate_one, mark_fired).
THEOREM WatchesKeepCooldown == WatchesSpec => []CooldownKept
<1>1. WatchInv => CooldownKept
  BY Zenon DEF WatchInv, CooldownKept, TimeRule, Cooled
<1> QED
  BY <1>1, WatchInvariant, PTL

\* A watch with a minimum duration that nobody re-issues is dispatched only after it has
\* matched that long by the wall clock, and in fact unless that clock was put forward
\* (note_match_entered, note_match_exited).
THEOREM WatchesHoldDuration == WatchesSpec => []DurationHeld
<1>1. WatchInv => DurationHeld
  BY DEF WatchInv
<1> QED
  BY <1>1, WatchInvariant, PTL
=============================================================================
