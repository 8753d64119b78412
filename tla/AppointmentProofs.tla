-------------------------- MODULE AppointmentProofs --------------------------
(***************************************************************************)
(* Appointments are dispatched as often as they may and no more, for any   *)
(* appointments, rules and calls, while the clock is not adjusted and the  *)
(* steward not restarted.                                                  *)
(***************************************************************************)
EXTENDS Appointments, TLAPS

Entries == [state : {"absent", "pending", "fired", "cancelled"}, spec : Specs,
            next_fire : Nat, fires : Nat, by : Nat]
Jobs == [key : Appts, entry : Entries, now : Nat, next_ms : Nat]

ApptType ==
    /\ mono \in Nat /\ skew \in Nat
    /\ ledger \in [Appts -> Entries]
    /\ call \in [Calls -> [op : {"none", "schedule", "cancel", "refused"}, key : Appts,
                           spec : Specs, next_ms : Nat, at : {"new", "row", "done", "cut"}]]
    /\ due \subseteq Jobs
    /\ firing \in Jobs
    /\ fired \in [Calls -> Nat]

\* Call i has scheduled what e shows, under k.
Made(i, k, e) ==
    /\ i \in Calls /\ e.by = i
    /\ call[i].op = "schedule" /\ call[i].key = k /\ call[i].spec = e.spec

\* The loop is between the dispatch and mark_fired.
Dispatched(i) == loop = "advance" /\ firing.entry.by = i

\* What the ledger knows of its dispatches: a pending entry counts them, except the one under
\* way, and has some left.
EntryRule(k) ==
    LET e == ledger[k]
    IN  /\ e.state # "absent" => e.by # 0
        /\ e.by # 0 => Made(e.by, k, e)
        /\ Pending(k) /\ ~Dispatched(e.by) =>
             fired[e.by] <= e.fires /\ Allowed(e.spec, fired[e.by] + 1)

\* An entry the loop has taken is still the ledger's, with its count, or one that has not
\* been dispatched has replaced it.
JobRule(d) ==
    /\ Made(d.entry.by, d.key, d.entry)
    /\ ledger[d.key].by # 0
    /\ IF ledger[d.key].by = d.entry.by THEN ledger[d.key].fires = d.entry.fires
       ELSE fired[ledger[d.key].by] = 0

LoopRule ==
    /\ loop \in {"idle", "firing", "advance", "row"}
    /\ loop = "idle" => due = {}
    /\ \A d \in due : /\ JobRule(d)
                      /\ fired[d.entry.by] <= d.entry.fires
                      /\ Allowed(d.entry.spec, fired[d.entry.by] + 1)
    /\ \A d, b \in due : d.key = b.key => d = b
    /\ loop = "advance" => /\ JobRule(firing)
                           /\ fired[firing.entry.by] <= firing.entry.fires + 1
                           /\ \A d \in due : d.key # firing.key

CallRule(i) ==
    /\ call[i].at = "new" => call[i].op = "none"
    /\ call[i].op # "schedule" => fired[i] = 0
    /\ call[i].op = "schedule" => Allowed(call[i].spec, fired[i])

\* While the clock is not adjusted and the steward not restarted.
Calm == adjusts = 0 /\ aboots = 0
Orderly ==
    /\ ApptType
    /\ ~clock_adjusted /\ boot = Up
    /\ \A k \in Appts : EntryRule(k)
    /\ \A i \in Calls : CallRule(i)
    /\ LoopRule

ApptInv == adjusts \in Nat /\ aboots \in Nat /\ (Calm => Orderly)

-----------------------------------------------------------------------------
\* The constant entries have their types.
LEMMA ApptBlanks ==
    /\ NoSpec \in Specs /\ NoAppt \in Entries /\ NoFiring \in Jobs
    /\ NoCall \in [op : {"none", "schedule", "cancel", "refused"}, key : Appts,
                   spec : Specs, next_ms : Nat, at : {"new", "row", "done", "cut"}]
    /\ Up.at = "up"
<1>1. NoSpec \in Specs
  BY AppointmentAssumption DEF NoSpec
<1>2. (CHOOSE k \in Appts : TRUE) \in Appts
  BY AppointmentAssumption
<1>3. NoAppt \in Entries
  BY <1>1 DEF NoAppt, None, Entries
<1> QED
  BY <1>1, <1>2, <1>3 DEF NoFiring, NoCall, None, Jobs, Up

\* next_fire_after and ms_to_instant give instants.
LEMMA Instants ==
    ASSUME ApptType, NEW spec \in Specs, NEW now \in Nat, NEW n \in Nat
    PROVE  /\ next_fire_after(spec, now, n) \in Nat
           /\ next_fire_after(spec, now, n) # None => Allowed(spec, n + 1)
           /\ \A ms \in Nat : ms_to_instant(ms, now) \in Nat
<1>1. /\ spec.kind \in {"one_shot", "periodic", "daily"}
      /\ spec.ms \in Nat /\ spec.ms # 0 /\ spec.max_fires \in Nat
  BY AppointmentAssumption
<1>2. now \div spec.ms \in Nat
  BY <1>1
<1>3. (now \div spec.ms + 1) * spec.ms \in Nat
  BY <1>1, <1>2
<1>4. now + spec.ms \in Nat
  BY <1>1
<1>5. next_fire_after(spec, now, n) \in Nat
  BY <1>1, <1>3, <1>4 DEF next_fire_after, None
<1>6. \A ms \in Nat : ms_to_instant(ms, now) \in Nat
  BY DEF ms_to_instant, None, ApptType
<1>7. next_fire_after(spec, now, n) # None => Allowed(spec, n + 1)
  BY <1>1 DEF next_fire_after, Allowed, None
<1> QED
  BY <1>5, <1>6, <1>7

\* One dispatch is always allowed, and fewer where more are.
LEMMA AllowedFacts ==
    ASSUME NEW spec \in Specs
    PROVE  /\ Allowed(spec, 0) /\ Allowed(spec, 1)
           /\ \A m, n \in Nat : m <= n /\ Allowed(spec, n) => Allowed(spec, m)
<1>1. spec.max_fires \in Nat
  BY AppointmentAssumption
<1> QED
  BY <1>1 DEF Allowed, None

\* Steps that leave the ledger, the loop and the count alone: the clock, its trust, the
\* table write of a call.
LEMMA ApptIdleKeeps ==
    ASSUME Orderly, ApptType',
           UNCHANGED <<ledger, loop, due, firing, clock_adjusted, fired, boot>>,
           \A i \in Calls : /\ call'[i].op = call[i].op /\ call'[i].key = call[i].key
                            /\ call'[i].spec = call[i].spec
                            /\ call'[i].at = "new" => call[i].at = "new"
    PROVE  Orderly'
<1>1. \A i, k, e : Made(i, k, e)' = Made(i, k, e)
  BY DEF Made
<1>2. \A k \in Appts : EntryRule(k)'
  BY <1>1 DEF Orderly, EntryRule, Pending, Dispatched
<1>3. \A i \in Calls : CallRule(i)'
  BY DEF Orderly, CallRule
<1>4. LoopRule'
  BY <1>1 DEF Orderly, LoopRule, JobRule
<1> QED
  BY <1>2, <1>3, <1>4 DEF Orderly

\* A call begins: entries of other keys, and those the loop has taken, stay what they were.
LEMMA ApptCallBegins ==
    ASSUME Orderly, ApptType', NEW i \in Calls, NEW k \in Appts,
           UNCHANGED <<loop, due, firing, clock_adjusted, fired, boot>>,
           call[i].op = "none", call'[i].at # "new",
           \A j \in Calls : j # i => call'[j] = call[j],
           \A a \in Appts : a # k => ledger'[a] = ledger[a],
           EntryRule(k)',
           \/ ledger'[k].by = i /\ call'[i].op = "schedule"
           \/ ledger'[k].by = ledger[k].by /\ ledger'[k].fires = ledger[k].fires
    PROVE  Orderly'
<1>0. ApptType /\ LoopRule /\ fired[i] = 0 /\ i # 0
  BY DEF Orderly, CallRule, Calls
<1>1. \A j, a, e : Made(j, a, e) => Made(j, a, e)' /\ j # i
  BY DEF Made
<1>2. ASSUME NEW a \in Appts PROVE EntryRule(a)'
  BY <1>1 DEF Orderly, EntryRule, Pending, Dispatched
<1>3. ASSUME NEW j \in Calls PROVE CallRule(j)'
  <2>1. CASE j = i
    <3>1. call'[i].spec \in Specs
      BY DEF ApptType
    <3>2. Allowed(call'[i].spec, 0)
      BY <3>1, AllowedFacts, Zenon
    <3> QED
      BY <1>0, <2>1, <3>2 DEF CallRule
  <2>2. CASE j # i
    BY <2>2 DEF Orderly, CallRule
  <2> QED
    BY <2>1, <2>2
<1>4. ASSUME NEW d \in Jobs, JobRule(d) PROVE JobRule(d)'
  <2>1. Made(d.entry.by, d.key, d.entry)' /\ d.entry.by # i /\ d.key \in Appts
    BY <1>1, <1>4 DEF JobRule, Jobs
  <2> QED
    BY <1>0, <1>4, <2>1 DEF JobRule
<1>5. LoopRule'
  BY <1>0, <1>4 DEF LoopRule, ApptType
<1> QED
  BY <1>2, <1>3, <1>5 DEF Orderly

\* schedule, refused or not.
LEMMA ScheduleKeeps ==
    ASSUME Orderly, NEW i \in Calls, NEW k \in Appts, NEW spec \in Specs, schedule(i, k, spec)
    PROVE  Orderly'
<1> DEFINE next_ms == next_fire_after(spec, wall, 0)
           made == [op |-> "schedule", key |-> k, spec |-> spec, next_ms |-> next_ms, at |-> "row"]
           refused == [made EXCEPT !.op = "refused", !.at = "done"]
           new == Entry(spec, ms_to_instant(next_ms, wall), i)
<1>0. /\ ApptType /\ call[i].op = "none" /\ EntryRule(k) /\ fired[i] = 0 /\ i \in Nat /\ i # 0
      /\ UNCHANGED <<mono, skew, loop, due, firing, clock_adjusted, fired, boot>>
  BY AppointmentAssumption DEF Orderly, CallRule, schedule, FreshCall, Calls, clockVars, loopVars,
     tallyVars, bootVars
<1>1. next_ms \in Nat /\ ms_to_instant(next_ms, wall) \in Nat /\ Allowed(spec, 0 + 1)
  <2>1. wall \in Nat
    BY <1>0 DEF ApptType, wall
  <2>a. \A now, n \in Nat : next_fire_after(spec, now, n) \in Nat
    BY <1>0, Instants, Zenon
  <2>b. Allowed(spec, 0 + 1)
    BY AllowedFacts
  <2>2. next_ms \in Nat
    BY <2>1, <2>a
  <2> HIDE DEF next_ms
  <2>3. ms_to_instant(next_ms, wall) \in Nat
    BY <1>0, <2>1, <2>2, Instants, Zenon
  <2> QED
    BY <2>b, <2>2, <2>3
<1> HIDE DEF next_ms
<1>2. \/ call' = [call EXCEPT ![i] = refused] /\ ledger' = ledger
      \/ call' = [call EXCEPT ![i] = made] /\ ledger' = [ledger EXCEPT ![k] = new]
  BY DEF schedule, next_ms
<1>a. made \in [op : {"none", "schedule", "cancel", "refused"}, key : Appts,
                spec : Specs, next_ms : Nat, at : {"new", "row", "done", "cut"}]
  BY <1>1
<1>b. /\ refused \in [op : {"none", "schedule", "cancel", "refused"}, key : Appts,
                      spec : Specs, next_ms : Nat, at : {"new", "row", "done", "cut"}]
      /\ refused.op = "refused" /\ refused.at = "done"
  <2> HIDE DEF made
  <2> QED
    BY <1>a, Zenon
<1>3. CASE call' = [call EXCEPT ![i] = refused] /\ ledger' = ledger
  <2> HIDE DEF refused
  <2>1. ApptType'
    BY <1>0, <1>b, <1>3 DEF ApptType
  <2>2. call'[i] = refused /\ \A j \in Calls : j # i => call'[j] = call[j]
    BY <1>0, <1>3 DEF ApptType
  <2>3. EntryRule(k)'
    BY <1>0, <1>b, <1>3, <2>2 DEF EntryRule, Made, Pending, Dispatched
  <2> QED
    BY <1>0, <1>b, <1>3, <2>1, <2>2, <2>3, ApptCallBegins
<1>4. CASE call' = [call EXCEPT ![i] = made] /\ ledger' = [ledger EXCEPT ![k] = new]
  <2>1. new \in Entries /\ new.by = i /\ new.spec = spec /\ new.fires = 0
    BY <1>0, <1>1 DEF Entry, Entries
  <2>3. ledger'[k] = new /\ \A a \in Appts : a # k => ledger'[a] = ledger[a]
    BY <1>0, <1>4 DEF ApptType
  <2>4. call'[i] = made /\ \A j \in Calls : j # i => call'[j] = call[j]
    BY <1>0, <1>4 DEF ApptType
  <2> HIDE DEF new
  <2>5. ApptType'
    BY <1>0, <1>a, <1>4, <2>1 DEF ApptType
  <2>6. EntryRule(k)'
    BY <1>0, <1>1, <2>1, <2>3, <2>4 DEF EntryRule, Made
  <2> QED
    BY <1>0, <2>1, <2>3, <2>4, <2>5, <2>6, ApptCallBegins
<1> QED
  BY <1>2, <1>3, <1>4

\* cancel.
LEMMA CancelKeeps ==
    ASSUME Orderly, NEW i \in Calls, NEW k \in Appts, cancel(i, k)
    PROVE  Orderly'
<1>0. /\ ApptType /\ call[i].op = "none" /\ EntryRule(k) /\ ledger[k] \in Entries
      /\ ledger[k].state \notin {"absent", "cancelled"}
      /\ UNCHANGED <<mono, skew, loop, due, firing, clock_adjusted, fired, boot>>
  BY DEF Orderly, ApptType, CallRule, cancel, FreshCall, clockVars, loopVars, tallyVars, bootVars
<1>1. /\ call'[i] \in [op : {"none", "schedule", "cancel", "refused"}, key : Appts,
                       spec : Specs, next_ms : Nat, at : {"new", "row", "done", "cut"}]
      /\ call'[i].op = "cancel" /\ call'[i].at = "row"
      /\ \A j \in Calls : j # i => call'[j] = call[j]
      /\ call' \in [Calls -> [op : {"none", "schedule", "cancel", "refused"}, key : Appts,
                       spec : Specs, next_ms : Nat, at : {"new", "row", "done", "cut"}]]
  <2> DEFINE new == [NoCall EXCEPT !.op = "cancel", !.key = k, !.at = "row"]
  <2>1. /\ new \in [op : {"none", "schedule", "cancel", "refused"}, key : Appts,
                    spec : Specs, next_ms : Nat, at : {"new", "row", "done", "cut"}]
        /\ new.op = "cancel" /\ new.at = "row"
    BY ApptBlanks, Zenon DEF NoCall
  <2>2. call' = [call EXCEPT ![i] = new]
    BY DEF cancel
  <2> HIDE DEF new
  <2> QED
    BY <1>0, <2>1, <2>2 DEF ApptType
<1>2. /\ \A a \in Appts : a # k => ledger'[a] = ledger[a]
      /\ ledger' \in [Appts -> Entries] /\ ledger'[k].state = "cancelled"
      /\ ledger'[k].by = ledger[k].by /\ ledger'[k].fires = ledger[k].fires
      /\ ledger'[k].spec = ledger[k].spec
  <2> DEFINE e == [ledger[k] EXCEPT !.state = "cancelled"]
             new == [e EXCEPT !.next_fire = None]
  <2>1. e \in Entries /\ e.state = "cancelled" /\ e.by = ledger[k].by /\ e.fires = ledger[k].fires
        /\ e.spec = ledger[k].spec
    BY <1>0 DEF Entries
  <2>2. ledger' = [ledger EXCEPT ![k] = new]
    BY <1>0, Zenon DEF cancel, ApptType
  <2> HIDE DEF e
  <2>3. /\ new \in Entries /\ new.state = "cancelled" /\ new.by = e.by /\ new.fires = e.fires
        /\ new.spec = e.spec
    BY <2>1 DEF Entries, None
  <2> HIDE DEF new
  <2> QED
    BY <1>0, <2>1, <2>2, <2>3 DEF ApptType
<1>3. ApptType'
  BY <1>0, <1>1, <1>2 DEF ApptType
<1>4. EntryRule(k)'
  BY <1>0, <1>1, <1>2 DEF EntryRule, Made, Pending
<1> QED
  BY <1>0, <1>1, <1>2, <1>3, <1>4, ApptCallBegins

\* The loop takes what is due.
LEMMA DueKeeps ==
    ASSUME Orderly, fire_due_entries
    PROVE  Orderly'
<1> DEFINE ready == {k \in Appts : Pending(k) /\ ledger[k].next_fire \in 1..mono}
<1>0. /\ ApptType /\ LoopRule /\ loop = "idle" /\ loop' = "firing"
      /\ UNCHANGED <<mono, skew, ledger, call, firing, clock_adjusted, fired, boot>>
      /\ due' = {[key |-> k, entry |-> ledger[k], now |-> wall, next_ms |-> None] : k \in ready}
  BY Zenon DEF Orderly, fire_due_entries, Snapshot, clockVars, tallyVars, bootVars
<1>1. ASSUME NEW d \in due'
      PROVE  /\ d \in Jobs /\ d.entry = ledger[d.key] /\ d.key \in Appts /\ Pending(d.key)
  <2>1. PICK k \in ready : d = [key |-> k, entry |-> ledger[k], now |-> wall, next_ms |-> None]
    BY <1>0
  <2>2. wall \in Nat /\ ledger[k] \in Entries
    BY <1>0 DEF ApptType, wall
  <2> QED
    BY <2>1, <2>2 DEF Jobs, None
<1>2. ApptType'
  BY <1>0, <1>1 DEF ApptType
<1>3. \A i, k, e : Made(i, k, e)' = Made(i, k, e)
  BY <1>0 DEF Made
<1>4. \A k \in Appts : EntryRule(k)'
  BY <1>0, <1>3 DEF Orderly, EntryRule, Pending, Dispatched
<1>5. \A i \in Calls : CallRule(i)'
  BY <1>0 DEF Orderly, CallRule
<1>6. LoopRule'
  <2>1. ASSUME NEW d \in due'
        PROVE  /\ JobRule(d)' /\ fired[d.entry.by] <= d.entry.fires
               /\ Allowed(d.entry.spec, fired[d.entry.by] + 1)
    <3>1. EntryRule(d.key) /\ d.entry = ledger[d.key] /\ Pending(d.key)
      BY <1>1 DEF Orderly
    <3>2. ~Dispatched(d.entry.by) /\ d.entry.by # 0
      BY <1>0, <3>1, Zenon DEF Dispatched, EntryRule, Pending
    <3>3. Made(d.entry.by, d.key, d.entry) /\ ledger[d.key].by # 0
      BY <3>1, <3>2, Zenon DEF EntryRule
    <3>4. JobRule(d)'
      BY <1>0, <1>3, <3>1, <3>3, Zenon DEF JobRule
    <3>5. fired[d.entry.by] <= d.entry.fires /\ Allowed(d.entry.spec, fired[d.entry.by] + 1)
      BY <3>1, <3>2, Zenon DEF EntryRule
    <3> QED
      BY <3>4, <3>5, Zenon
  <2>2. \A d, b \in due' : d.key = b.key => d = b
    BY <1>0
  <2> QED
    BY <1>0, <2>1, <2>2 DEF LoopRule
<1> QED
  BY <1>0, <1>2, <1>4, <1>5, <1>6, Zenon DEF Orderly

\* fire_one: the clock is not trusted, or the entry is too late, or it is dispatched.
LEMMA FireKeeps ==
    ASSUME Orderly, NEW d \in due, fire_one(d)
    PROVE  Orderly'
<1> DEFINE i == d.entry.by
<1>0. /\ ApptType /\ LoopRule /\ loop = "firing" /\ due' = due \ {d}
      /\ UNCHANGED <<mono, skew, ledger, call, clock_adjusted, boot>>
      /\ \/ loop' \in {"idle", "firing"} /\ (loop' = "idle" => due' = {})
              /\ UNCHANGED <<firing, fired>>
         \/ loop' = "advance" /\ firing' = d /\ UNCHANGED fired
         \/ loop' = "advance" /\ firing' = d /\ fired' = [fired EXCEPT ![i] = @ + 1]
  BY DEF Orderly, fire_one, Onward, clockVars, tallyVars, bootVars
<1>1. /\ d \in Jobs /\ JobRule(d) /\ Made(i, d.key, d.entry) /\ i \in Calls
      /\ fired[i] <= d.entry.fires /\ Allowed(d.entry.spec, fired[i] + 1)
      /\ d.entry.fires \in Nat /\ d.entry.spec \in Specs
      /\ d.entry.spec = call[i].spec
  <2>1. /\ d \in Jobs /\ JobRule(d)
        /\ fired[i] <= d.entry.fires /\ Allowed(d.entry.spec, fired[i] + 1)
    BY <1>0, Zenon DEF LoopRule, ApptType
  <2>2. Made(i, d.key, d.entry) /\ i \in Calls /\ d.entry.spec = call[i].spec
    BY <2>1, Zenon DEF JobRule, Made
  <2>3. d.entry.fires \in Nat /\ d.entry.spec \in Specs
    BY <2>1 DEF Jobs, Entries
  <2> QED
    BY <2>1, <2>2, <2>3, Zenon
<1>2. ApptType'
  <2>1. fired' \in [Calls -> Nat]
    <3>1. fired \in [Calls -> Nat] /\ fired[i] + 1 \in Nat
      BY <1>0, <1>1 DEF ApptType
    <3> QED
      BY <1>0, <3>1, Zenon
  <2> QED
    BY <1>0, <1>1, <2>1, Zenon DEF ApptType
<1>3. \A j, k, e : Made(j, k, e)' = Made(j, k, e)
  BY <1>0 DEF Made
<1>4. \A j \in Calls : /\ j # i => fired'[j] = fired[j]
                       /\ fired'[j] = fired[j] \/ (loop' = "advance" /\ firing' = d /\ fired'[j] = fired[j] + 1)
  BY <1>0, <1>1, Zenon DEF ApptType
<1>5. ASSUME NEW k \in Appts PROVE EntryRule(k)'
  <2>1. EntryRule(k) /\ ~Dispatched(ledger[k].by)
    BY <1>0, Zenon DEF Orderly, Dispatched
  <2>2. CASE ledger[k].by \in Calls /\ ledger[k].by # i
    BY <1>0, <1>3, <1>4, <2>1, <2>2, Zenon DEF EntryRule, Pending
  <2>3. CASE ledger[k].by = i
    <3>1. Dispatched(i)' \/ fired' = fired
      BY <1>0 DEF Dispatched
    <3> QED
      BY <1>0, <1>3, <2>1, <2>3, <3>1 DEF EntryRule, Pending
  <2>4. CASE ledger[k].by = 0
    BY <1>0, <1>3, <2>1, <2>4 DEF EntryRule, Pending
  <2> QED
    BY <2>1, <2>2, <2>3, <2>4, Zenon DEF EntryRule, Made
<1>6. ASSUME NEW j \in Calls PROVE CallRule(j)'
  <2>1. CallRule(j) /\ fired[j] \in Nat
    BY <1>0 DEF Orderly, ApptType
  <2>2. CASE j = i
    <3>1. call[i].op = "schedule" /\ d.entry.spec = call[i].spec
      BY <1>1, Zenon DEF Made
    <3>2. fired'[i] = fired[i] \/ fired'[i] = fired[i] + 1
      BY <1>1, <1>4, Zenon
    <3>3. fired[i] \in Nat /\ Allowed(call[i].spec, fired[i] + 1) /\ call[i].spec \in Specs
      BY <1>1, <2>1, <2>2, <3>1, Zenon
    <3>4. Allowed(call[i].spec, fired'[i])
      <4>1. fired[i] + 1 \in Nat /\ fired[i] <= fired[i] + 1
        BY <3>3
      <4>2. Allowed(call[i].spec, fired[i])
        BY <3>3, <4>1, AllowedFacts, Zenon
      <4> QED
        BY <3>2, <3>3, <4>2, Zenon
    <3> QED
      BY <1>0, <2>1, <2>2, <3>1, <3>4, Zenon DEF CallRule
  <2>3. CASE j # i
    BY <1>0, <1>4, <2>1, <2>3 DEF CallRule
  <2> QED
    BY <2>2, <2>3
<1>7. ASSUME NEW b \in Jobs, JobRule(b), b.key # d.key \/ b = d PROVE JobRule(b)'
  <2>1. Made(b.entry.by, b.key, b.entry) /\ EntryRule(b.key) /\ ledger[b.key].by # 0
    BY <1>7 DEF JobRule, Orderly, Jobs
  <2>2. ledger[b.key].by # b.entry.by => ledger[b.key].by # i /\ ledger[b.key].by \in Calls
    BY <1>1, <1>7, <2>1, Zenon DEF EntryRule, Made
  <2> QED
    BY <1>0, <1>3, <1>4, <1>7, <2>1, <2>2, Zenon DEF JobRule
<1>8. LoopRule'
  <2>1. ASSUME NEW b \in due'
        PROVE  /\ JobRule(b)' /\ b.key # d.key
               /\ fired'[b.entry.by] <= b.entry.fires /\ Allowed(b.entry.spec, fired'[b.entry.by] + 1)
    <3>1. b \in due /\ b \in Jobs /\ JobRule(b) /\ b.key # d.key /\ Made(b.entry.by, b.key, b.entry)
      BY <1>0, Zenon DEF LoopRule, ApptType, JobRule
    <3>2. b.entry.by \in Calls /\ b.entry.by # i
      BY <1>1, <3>1, Zenon DEF Made
    <3> QED
      BY <1>0, <1>4, <1>7, <3>1, <3>2, Zenon DEF LoopRule
  <2>2. loop' = "advance" => /\ firing' = d /\ JobRule(firing)'
                             /\ fired'[i] <= d.entry.fires + 1
    <3>1. loop' = "advance" => firing' = d
      BY <1>0
    <3>2. JobRule(d)'
      BY <1>1, <1>7
    <3>3. fired'[i] <= d.entry.fires + 1
      <4>1. fired'[i] = fired[i] \/ fired'[i] = fired[i] + 1
        BY <1>1, <1>4, Zenon
      <4>2. fired[i] \in Nat /\ d.entry.fires \in Nat /\ fired[i] <= d.entry.fires
        BY <1>0, <1>1, Zenon DEF ApptType
      <4> QED
        BY <4>1, <4>2
    <3> QED
      BY <3>1, <3>2, <3>3 DEF JobRule
  <2>3. \A b, c \in due' : b.key = c.key => b = c
    BY <1>0 DEF LoopRule
  <2> QED
    BY <1>0, <2>1, <2>2, <2>3, Zenon DEF LoopRule
<1> QED
  BY <1>0, <1>2, <1>5, <1>6, <1>8 DEF Orderly

\* mark_fired counts the dispatch on the entry that is there now: the one that was dispatched,
\* or a younger one that was not.
LEMMA MarkKeeps ==
    ASSUME Orderly, mark_fired
    PROVE  Orderly'
<1>a. PICK d : d = firing
  OBVIOUS
<1> DEFINE k == d.key
           i == d.entry.by
           next_ms == NextAfter(d)
           instant == ms_to_instant(next_ms, d.now)
           state == IF next_ms = None THEN "fired" ELSE "pending"
           e == ledger[k]
<1>0. /\ ApptType /\ LoopRule /\ loop = "advance" /\ loop' = "row"
      /\ UNCHANGED <<mono, skew, call, due, clock_adjusted, fired, boot>>
      /\ firing' = [d EXCEPT !.next_ms = next_ms]
      /\ ledger' = IF e.state \in {"absent", "cancelled"} THEN ledger
                   ELSE [ledger EXCEPT ![k].fires = @ + 1, ![k].next_fire = instant, ![k].state = state]
  BY <1>a DEF Orderly, mark_fired, clockVars, tallyVars, bootVars
<1>1. /\ d \in Jobs /\ JobRule(d) /\ Made(i, k, d.entry) /\ i \in Calls /\ k \in Appts
      /\ e \in Entries /\ EntryRule(k)
      /\ fired[i] <= d.entry.fires + 1 /\ \A b \in due : b.key # k
      /\ d.entry.fires \in Nat /\ d.entry.spec \in Specs /\ d.now \in Nat
  BY <1>a, <1>0, Zenon DEF Orderly, LoopRule, JobRule, Made, ApptType, Jobs, Entries
<1>2. /\ next_ms \in Nat /\ instant \in Nat
      /\ next_ms # None => Allowed(d.entry.spec, d.entry.fires + 1 + 1)
  <2>1. d.entry.fires + 1 \in Nat
    BY <1>1
  <2>2. \A n \in Nat : /\ next_fire_after(d.entry.spec, d.now, n) \in Nat
                       /\ next_fire_after(d.entry.spec, d.now, n) # None => Allowed(d.entry.spec, n + 1)
    BY <1>0, <1>1, Instants
  <2>3. next_ms \in Nat /\ (next_ms # None => Allowed(d.entry.spec, d.entry.fires + 1 + 1))
    BY <2>1, <2>2 DEF NextAfter
  <2>4. \A ms \in Nat : ms_to_instant(ms, d.now) \in Nat
    BY <1>0, <1>1, Instants, Zenon
  <2> HIDE DEF next_ms
  <2> QED
    BY <2>3, <2>4
<1>3. /\ ledger' \in [Appts -> Entries]
      /\ \A a \in Appts : a # k => ledger'[a] = ledger[a]
      /\ ledger'[k].by = e.by /\ ledger'[k].spec = e.spec
      /\ e.state \in {"absent", "cancelled"} => ledger'[k] = e
      /\ e.state \notin {"absent", "cancelled"} =>
           ledger'[k].fires = e.fires + 1 /\ ledger'[k].state = state
  <2>1. CASE e.state \in {"absent", "cancelled"}
    BY <1>0, <2>1 DEF ApptType
  <2>2. CASE e.state \notin {"absent", "cancelled"}
    <3> DEFINE e1 == [e EXCEPT !.fires = @ + 1]
               e2 == [e1 EXCEPT !.next_fire = instant]
               e3 == [e2 EXCEPT !.state = state]
    <3>1. ledger' = [ledger EXCEPT ![k] = e3]
      BY <1>0, <1>1, <2>2, Zenon DEF ApptType
    <3> HIDE DEF instant, state, next_ms
    <3>2. e1 \in Entries /\ e1.by = e.by /\ e1.spec = e.spec /\ e1.fires = e.fires + 1
      BY <1>1 DEF Entries
    <3> HIDE DEF e1
    <3>3. e2 \in Entries /\ e2.by = e.by /\ e2.spec = e.spec /\ e2.fires = e.fires + 1
      BY <1>2, <3>2 DEF Entries
    <3> HIDE DEF e2
    <3>4. state \in {"fired", "pending"}
      BY DEF state
    <3>5. e3 \in Entries /\ e3.by = e.by /\ e3.spec = e.spec /\ e3.fires = e.fires + 1
          /\ e3.state = state
      BY <3>3, <3>4 DEF Entries
    <3> HIDE DEF e3
    <3> QED
      BY <1>0, <1>1, <2>2, <3>1, <3>5, ZenonT(60) DEF ApptType
  <2> QED
    BY <2>1, <2>2, Zenon
<1>4. firing' \in Jobs
  <2> HIDE DEF next_ms
  <2> QED
    BY <1>0, <1>1, <1>2 DEF Jobs
<1>5. ApptType'
  BY <1>0, <1>3, <1>4, Zenon DEF ApptType
<1>6. \A j, c, f : Made(j, c, f)' = Made(j, c, f)
  BY <1>0 DEF Made
<1>7. ASSUME NEW c \in Appts PROVE EntryRule(c)'
  <2>1. EntryRule(c) /\ ~Dispatched(ledger[c].by)'
    BY <1>0 DEF Orderly, Dispatched
  <2>2. CASE c # k
    <3>1. ledger'[c] = ledger[c] /\ (Pending(c)' = Pending(c))
      BY <1>3, <2>2 DEF Pending
    <3>2. Pending(c) => ~Dispatched(ledger[c].by)
      BY <1>a, <1>1, <2>1, <2>2, Zenon DEF Dispatched, EntryRule, Made, Pending
    <3> QED
      BY <1>0, <1>6, <2>1, <3>1, <3>2, Zenon DEF EntryRule
  <2>3. CASE c = k
    <3>1. e.by # 0 /\ Made(e.by, k, e)
      BY <1>1, Zenon DEF JobRule, EntryRule
    <3>2. Made(e.by, k, ledger'[k])
      BY <1>3, <3>1, Zenon DEF Made
    <3>3. ASSUME Pending(k)' PROVE fired[e.by] <= ledger'[k].fires /\ Allowed(e.spec, fired[e.by] + 1)
      <4>1. /\ e.state \notin {"absent", "cancelled"} /\ next_ms # None
            /\ ledger'[k].fires = e.fires + 1
        BY <1>3, <3>3 DEF Pending
      <4>2. CASE e.by = i
        <5>1. e.fires = d.entry.fires /\ e.spec = d.entry.spec
          BY <1>1, <3>1, <4>2, Zenon DEF JobRule, Made
        <5>2. fired[i] \in Nat
          BY <1>0, <1>1 DEF ApptType
        <5>3. /\ fired[i] <= d.entry.fires + 1 /\ d.entry.fires \in Nat
              /\ Allowed(d.entry.spec, d.entry.fires + 1 + 1) /\ d.entry.spec \in Specs
          BY <1>1, <1>2, <4>1, Zenon
        <5>4. ledger'[k].fires = d.entry.fires + 1
          BY <4>1, <5>1
        <5>5. /\ fired[i] + 1 \in Nat /\ d.entry.fires + 1 + 1 \in Nat
              /\ fired[i] + 1 <= d.entry.fires + 1 + 1
          BY <5>2, <5>3
        <5>6. Allowed(d.entry.spec, fired[i] + 1)
          BY <5>3, <5>5, AllowedFacts, Zenon
        <5> QED
          BY <4>2, <5>1, <5>3, <5>4, <5>6, Zenon
      <4>3. CASE e.by # i
        <5>1. fired[e.by] = 0 /\ e.fires \in Nat /\ e.spec \in Specs
          BY <1>1, <4>3 DEF JobRule, Entries
        <5>2. Allowed(e.spec, 0 + 1)
          BY <5>1, AllowedFacts
        <5>3. fired[e.by] <= ledger'[k].fires
          BY <4>1, <5>1
        <5> QED
          BY <5>1, <5>2, <5>3, Zenon
      <4> QED
        BY <4>2, <4>3, Zenon
    <3> QED
      BY <1>0, <1>3, <1>6, <2>3, <3>1, <3>2, <3>3, Zenon DEF EntryRule
  <2> QED
    BY <2>2, <2>3
<1>8. \A j \in Calls : CallRule(j)'
  BY <1>0 DEF Orderly, CallRule
<1>9. LoopRule'
  <2>1. \A b \in due : JobRule(b)'
    <3> TAKE b \in due
    <3>1. JobRule(b) /\ b.key # k /\ b.key \in Appts
      BY <1>0, <1>1 DEF LoopRule, ApptType, Jobs
    <3> QED
      BY <1>0, <1>3, <1>6, <3>1, Zenon DEF JobRule
  <2> QED
    BY <1>0, <2>1 DEF LoopRule
<1> QED
  BY <1>0, <1>5, <1>7, <1>8, <1>9 DEF Orderly

\* The row is written and the loop goes on.
LEMMA AdvanceKeeps ==
    ASSUME Orderly, advance_after_fire
    PROVE  Orderly'
<1>0. /\ ApptType /\ LoopRule /\ loop = "row" /\ loop' \in {"idle", "firing"}
      /\ loop' = "idle" => due = {}
      /\ UNCHANGED <<mono, skew, ledger, call, due, clock_adjusted, fired, boot>>
      /\ firing' = NoFiring
  BY DEF Orderly, advance_after_fire, Onward, clockVars, tallyVars, bootVars
<1>1. ApptType'
  BY <1>0, ApptBlanks DEF ApptType
<1>2. \A j, c, f : Made(j, c, f)' = Made(j, c, f)
  BY <1>0 DEF Made
<1>3. \A k \in Appts : EntryRule(k)'
  BY <1>0, <1>2 DEF Orderly, EntryRule, Pending, Dispatched
<1>4. \A i \in Calls : CallRule(i)'
  BY <1>0 DEF Orderly, CallRule
<1>5. LoopRule'
  BY <1>0, <1>2, Zenon DEF LoopRule, JobRule
<1> QED
  BY <1>0, <1>1, <1>3, <1>4, <1>5 DEF Orderly

\* A steward that starts has no appointment.
LEMMA ApptInitHolds == ApptInit => ApptInv
<1> SUFFICES ASSUME ApptInit PROVE ApptInv
  OBVIOUS
<1>1. ApptType
  BY ApptBlanks DEF ApptInit, ApptType
<1>2. \A k \in Appts : EntryRule(k)
  BY DEF ApptInit, EntryRule, Pending, NoAppt
<1>3. \A i \in Calls : CallRule(i)
  BY DEF ApptInit, CallRule, NoCall
<1>4. LoopRule
  BY DEF ApptInit, LoopRule
<1> QED
  BY <1>1, <1>2, <1>3, <1>4 DEF ApptInit, ApptInv, Orderly

\* The rules of the appointments hold while the clock is not adjusted and the steward not
\* restarted.
THEOREM ApptInvariant == ApptSpec => []ApptInv
<1>1. ApptInv /\ [ApptNext]_apptVars => ApptInv'
  <2> SUFFICES ASSUME ApptInv, [ApptNext]_apptVars PROVE ApptInv'
    OBVIOUS
  <2>0. /\ adjusts' \in Nat /\ aboots' \in Nat
        /\ Calm' => Calm
        /\ Calm' => ~Crash /\ \A s \in Skews : ~AdjustClock(s)
    <3>1. CASE Crash
      BY <3>1 DEF ApptInv, Calm, Crash, clockVars
    <3>2. ASSUME NEW s \in Skews, AdjustClock(s) PROVE adjusts' = adjusts + 1 /\ aboots' = aboots
      BY <3>2 DEF AdjustClock, bootVars
    <3>3. CASE \E s \in Skews : AdjustClock(s)
      BY <3>2, <3>3 DEF ApptInv, Calm, Crash
    <3>4. CASE ~Crash /\ ~\E s \in Skews : AdjustClock(s)
      <4>1. UNCHANGED <<adjusts, aboots>>
        BY <3>4, Zenon DEF ApptNext, LoopStep, CallStep, fire_due_entries, mark_fired, advance_after_fire,
           reevaluate_all_pending, fire_one, Reevaluate, list_pending_appointments, rehydrate_from,
           CallRow, Tick, SetTrust, cancel, schedule, apptVars, clockVars, bootVars
      <4> QED
        BY <3>4, <4>1 DEF ApptInv, Calm
    <3> QED
      BY <3>1, <3>3, <3>4
  <2> SUFFICES ASSUME Calm', Orderly PROVE Orderly'
    BY <2>0 DEF ApptInv
  <2>1. /\ ~clock_adjusted /\ boot.at = "up" /\ loop # "reevaluate" /\ ApptType
    BY ApptBlanks DEF Orderly, LoopRule
  <2>2. CASE fire_due_entries
    BY <2>2, DueKeeps
  <2>3. ASSUME NEW d \in due, fire_one(d) PROVE Orderly'
    BY <2>3, FireKeeps
  <2>4. CASE mark_fired
    BY <2>4, MarkKeeps
  <2>5. CASE advance_after_fire
    BY <2>5, AdvanceKeeps
  <2>6. ASSUME NEW i \in Calls, NEW k \in Appts, cancel(i, k) PROVE Orderly'
    BY <2>6, CancelKeeps
  <2>7. ASSUME NEW i \in Calls, NEW k \in Appts, NEW spec \in Specs, schedule(i, k, spec)
        PROVE  Orderly'
    BY <2>7, ScheduleKeeps
  <2>8. ASSUME NEW i \in Calls, CallRow(i) PROVE Orderly'
    <3>1. ApptType'
      BY <2>1, <2>8 DEF ApptType, CallRow, clockVars, loopVars, tallyVars
    <3>2. \A j \in Calls : /\ call'[j].op = call[j].op /\ call'[j].key = call[j].key
                           /\ call'[j].spec = call[j].spec
                           /\ call'[j].at = "new" => call[j].at = "new"
      BY <2>1, <2>8 DEF ApptType, CallRow
    <3> QED
      BY <2>8, <3>1, <3>2, ApptIdleKeeps DEF CallRow, loopVars, tallyVars, bootVars
  <2>9. CASE Tick
    <3>1. ApptType'
      BY <2>1, <2>9 DEF ApptType, Tick, loopVars, tallyVars
    <3> QED
      BY <2>9, <3>1, ApptIdleKeeps DEF Tick, loopVars, tallyVars, bootVars
  <2>10. CASE SetTrust
    <3>1. ApptType'
      BY <2>1, <2>10 DEF ApptType, SetTrust, loopVars, tallyVars
    <3> QED
      BY <2>10, <3>1, ApptIdleKeeps DEF SetTrust, loopVars, tallyVars, bootVars
  <2>11. CASE UNCHANGED apptVars
    <3>1. ApptType'
      BY <2>1, <2>11 DEF ApptType, apptVars, clockVars, loopVars, tallyVars
    <3> QED
      BY <2>11, <3>1, ApptIdleKeeps, Zenon DEF apptVars, loopVars, tallyVars, bootVars
  <2>12. ~reevaluate_all_pending /\ (\A d \in due : ~Reevaluate(d))
         /\ ~list_pending_appointments /\ ~rehydrate_from
    BY <2>1, Zenon DEF reevaluate_all_pending, Reevaluate, list_pending_appointments, rehydrate_from
  <2> QED
    BY <2>0, <2>2, <2>3, <2>4, <2>5, <2>6, <2>7, <2>8, <2>9, <2>10, <2>11, <2>12
       DEF ApptNext, LoopStep, CallStep
<1> QED
  BY <1>1, ApptInitHolds, PTL DEF ApptSpec

\* An appointment is dispatched at most max_fires times, and a one-shot once, however it is
\* re-issued, cancelled or missed meanwhile, while the clock is not adjusted and the steward not restarted (fire_one,
\* mark_fired, advance_after_fire).
THEOREM AppointmentsBounded == ApptSpec => []FiresBounded
<1>1. ApptInv => FiresBounded
  BY DEF ApptInv, Calm, Orderly, CallRule, FiresBounded, Scheduled
<1> QED
  BY <1>1, ApptInvariant, PTL
=============================================================================
