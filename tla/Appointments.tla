---------------------------- MODULE Appointments ----------------------------
(***************************************************************************)
(* Appointments (appointments.rs): the ledger, the runtime loop that fires *)
(* what is due and re-evaluates after a clock adjustment, the table behind *)
(* it and the boot.                                                        *)
(*                                                                         *)
(* mono is the monotonic clock of tokio's Instants, mono + skew the wall   *)
(* clock of the table and of the specs; both in ticks.  A call is one      *)
(* schedule or cancel: its ledger step, and the table write it awaits.     *)
(* The loop is one task: it snapshots entries and then works through them  *)
(* with the ledger unlocked.                                               *)
(***************************************************************************)
EXTENDS Naturals, FiniteSets

CONSTANTS Appts,        \* (creator, appointment_id) keys
          Specs,        \* records kind, ms, max_fires (0: none given), miss_policy
          Skews,        \* offsets of the wall clock
          Grace,        \* grace_ms of CatchupWithinGrace
          max_total,
          MaxCalls, MaxTime, MaxAdjusts, MaxDistrust, MaxAppointmentBoots

ASSUME AppointmentAssumption ==
    /\ Appts # {} /\ Specs # {}
    /\ Specs \subseteq [kind : {"one_shot", "periodic", "daily"}, ms : Nat \ {0},
                        max_fires : Nat, miss_policy : {"catchup", "drop", "grace"}]
    /\ Skews \subseteq Nat
    /\ MaxCalls \in Nat

VARIABLES mono, skew, trust,
          ledger,       \* [Appts -> entry]
          table,        \* [Appts -> row]
          call,         \* per call
          loop,         \* where the runtime loop stands
          due,          \* the snapshot it works through
          firing,       \* the element it is at
          clock_adjusted,   \* a ClockAdjusted happening waits on the bus
          fired,        \* per schedule call: dispatches made
          missed,       \* per schedule call: given up by the miss policy
          boot,         \* the rows the boot has read and not yet scheduled
          failed_write, adjusts, distrusts, aboots

clockVars == <<mono, skew, trust, adjusts, distrusts>>
loopVars == <<loop, due, firing, clock_adjusted>>
tallyVars == <<fired, missed>>
bootVars == <<boot, aboots>>
apptVars == <<clockVars, ledger, table, call, loopVars, tallyVars, failed_write, bootVars>>

Calls == 1..MaxCalls
None == 0
wall == mono + skew
NoSpec == CHOOSE s \in Specs : TRUE
NoAppt == [state |-> "absent", spec |-> NoSpec, next_fire |-> None, fires |-> 0, by |-> 0]
NoRow == [here |-> FALSE, spec |-> NoSpec, next_ms |-> None, fires |-> 0, by |-> 0]
Up == [at |-> "up", rows |-> [k \in Appts |-> NoRow]]
NoFiring == [key |-> CHOOSE k \in Appts : TRUE, entry |-> NoAppt, now |-> 0, next_ms |-> None]
NoCall == [op |-> "none", key |-> CHOOSE k \in Appts : TRUE, spec |-> NoSpec, next_ms |-> None,
           at |-> "new"]

ApptInit ==
    /\ mono = 1 /\ skew = 0 /\ trust = TRUE
    /\ ledger = [k \in Appts |-> NoAppt]
    /\ table = [k \in Appts |-> NoRow]
    /\ call = [i \in Calls |-> NoCall]
    /\ loop = "idle" /\ due = {} /\ firing = NoFiring /\ clock_adjusted = FALSE
    /\ fired = [i \in Calls |-> 0]
    /\ missed = [i \in Calls |-> FALSE]
    /\ boot = Up
    /\ failed_write = FALSE /\ adjusts = 0 /\ distrusts = 0 /\ aboots = 0

-----------------------------------------------------------------------------
\* next_fire_after: a one-shot stays at its instant and fires once, a period counts from
\* now, a calendar rule takes its next slot strictly after now.
next_fire_after(spec, now, fires_completed) ==
    IF \/ spec.max_fires # None /\ fires_completed >= spec.max_fires
       \/ spec.kind = "one_shot" /\ fires_completed > 0
    THEN None
    ELSE CASE spec.kind = "one_shot" -> spec.ms
           [] spec.kind = "periodic" -> now + spec.ms
           [] spec.kind = "daily" -> (now \div spec.ms + 1) * spec.ms

\* Mutant: an instant that has passed is no instant.
FutureInstant(ms, now) == IF ms <= now THEN None ELSE mono + (ms - now)
ms_to_instant(ms, now) ==
    IF ms = None THEN None ELSE IF ms <= now THEN mono ELSE mono + (ms - now)

Pending(k) == ledger[k].state = "pending"

\* AppointmentLedger::schedule on an admitted entry.
Entry(spec, next_fire, i) ==
    [state |-> "pending", spec |-> spec, next_fire |-> next_fire, fires |-> 0, by |-> i]

FreshCall(i) == call[i].at = "new" /\ \A j \in 1..(i - 1) : call[j].at # "new"

\* The quota, which a re-issue does not meet.
Full(k) == ledger[k] = NoAppt /\ Cardinality({a \in Appts : ledger[a] # NoAppt}) >= max_total

schedule(i, k, spec) ==
    LET next_ms == next_fire_after(spec, wall, 0)
        made == [op |-> "schedule", key |-> k, spec |-> spec, next_ms |-> next_ms, at |-> "row"]
    IN  /\ FreshCall(i)
        /\ \/ Full(k) /\ call' = [call EXCEPT ![i] = [made EXCEPT !.op = "refused", !.at = "done"]]
                   /\ UNCHANGED ledger
           \/ /\ ~Full(k)
              /\ call' = [call EXCEPT ![i] = made]
              /\ ledger' = [ledger EXCEPT ![k] = Entry(spec, ms_to_instant(next_ms, wall), i)]
        /\ UNCHANGED <<clockVars, table, loopVars, tallyVars, failed_write, bootVars>>

cancel(i, k) ==
    /\ FreshCall(i)
    /\ ledger[k].state \notin {"absent", "cancelled"}
    /\ ledger' = [ledger EXCEPT ![k].state = "cancelled", ![k].next_fire = None]
    /\ call' = [call EXCEPT ![i] = [NoCall EXCEPT !.op = "cancel", !.key = k, !.at = "row"]]
    /\ UNCHANGED <<clockVars, table, loopVars, tallyVars, failed_write, bootVars>>

\* record_appointment or forget_appointment: a failure is logged and forgotten.
CallRow(i) ==
    LET k == call[i].key
    IN  /\ call[i].at = "row"
        /\ call' = [call EXCEPT ![i].at = "done"]
        /\ \/ /\ call[i].op = "schedule"
              /\ table' = [table EXCEPT ![k] = [here |-> TRUE, spec |-> call[i].spec,
                                                next_ms |-> call[i].next_ms, fires |-> 0, by |-> i]]
              /\ UNCHANGED failed_write
           \/ /\ call[i].op = "cancel"
              /\ table' = [table EXCEPT ![k] = NoRow]
              /\ UNCHANGED failed_write
           \/ failed_write' = TRUE /\ UNCHANGED table
        /\ UNCHANGED <<clockVars, ledger, loopVars, tallyVars, bootVars>>

-----------------------------------------------------------------------------
\* The loop.

\* The entries, and the wall clock as it was read for all of them.
Snapshot(keys) ==
    {[key |-> k, entry |-> ledger[k], now |-> wall, next_ms |-> None] : k \in keys}
Onward(rest, at) == loop' = IF rest = {} THEN "idle" ELSE at

fire_due_entries ==
    LET ready == {k \in Appts : Pending(k) /\ ledger[k].next_fire \in 1..mono}
    IN  /\ loop = "idle"
        /\ ready # {}
        /\ loop' = "firing"
        /\ due' = Snapshot(ready)
        /\ UNCHANGED <<clockVars, ledger, table, call, firing, clock_adjusted, tallyVars,
                       failed_write, bootVars>>

TooLate(d) ==
    \/ d.entry.spec.miss_policy = "drop" /\ mono > d.entry.next_fire
    \/ d.entry.spec.miss_policy = "grace" /\ mono > d.entry.next_fire + Grace

\* fire_one up to the dispatch: an untrusted clock leaves the entry as it is.
fire_one(d) ==
    /\ loop = "firing"
    /\ d \in due
    /\ due' = due \ {d}
    /\ \/ ~trust /\ Onward(due', "firing") /\ UNCHANGED <<firing, tallyVars>>
       \/ /\ trust /\ TooLate(d)
          /\ loop' = "advance" /\ firing' = d
          /\ missed' = [missed EXCEPT ![d.entry.by] = TRUE]
          /\ UNCHANGED fired
       \/ /\ trust /\ ~TooLate(d)
          /\ loop' = "advance" /\ firing' = d
          /\ fired' = [fired EXCEPT ![d.entry.by] = @ + 1]
          /\ UNCHANGED missed
    /\ UNCHANGED <<clockVars, ledger, table, call, clock_adjusted, failed_write, bootVars>>

\* Mutant: the fire that has just been made is not counted.
AdvanceUncounted(d) == next_fire_after(d.entry.spec, d.now, d.entry.fires)
NextAfter(d) == next_fire_after(d.entry.spec, d.now, d.entry.fires + 1)

\* mark_fired, from the snapshot's spec and count, on whatever entry is there now.
mark_fired ==
    LET k == firing.key
        next_ms == NextAfter(firing)
    IN  /\ loop = "advance"
        /\ loop' = "row"
        /\ firing' = [firing EXCEPT !.next_ms = next_ms]
        /\ ledger' = IF ledger[k].state \in {"absent", "cancelled"} THEN ledger
                     ELSE [ledger EXCEPT ![k].fires = @ + 1,
                                         ![k].next_fire = ms_to_instant(next_ms, firing.now),
                                         ![k].state = IF next_ms = None THEN "fired" ELSE "pending"]
        /\ UNCHANGED <<clockVars, table, call, due, clock_adjusted, tallyVars, failed_write, bootVars>>

\* Mutant: the row is deleted after every fire.
ForgetAfterFire(row, d) == NoRow
RowAfterFire(row, d) ==
    IF d.next_ms = None THEN NoRow
    ELSE IF row.here THEN [row EXCEPT !.next_ms = d.next_ms, !.fires = d.entry.fires + 1]
    ELSE row

advance_after_fire ==
    /\ loop = "row"
    /\ Onward(due, "firing")
    /\ firing' = NoFiring
    /\ \/ /\ table' = [table EXCEPT ![firing.key] = RowAfterFire(@, firing)]
          /\ UNCHANGED failed_write
       \/ failed_write' = TRUE /\ UNCHANGED table
    /\ UNCHANGED <<clockVars, ledger, call, due, clock_adjusted, tallyVars, bootVars>>

\* A ClockAdjusted happening: snapshot, then every pending entry is scheduled anew.
reevaluate_all_pending ==
    LET found == Snapshot({k \in Appts : Pending(k)})
    IN  /\ loop = "idle"
        /\ clock_adjusted
        /\ clock_adjusted' = FALSE
        /\ due' = found
        /\ Onward(found, "reevaluate")
        /\ UNCHANGED <<clockVars, ledger, table, call, firing, tallyVars, failed_write, bootVars>>

Reevaluate(d) ==
    LET next_ms == next_fire_after(d.entry.spec, d.now, d.entry.fires)
    IN  /\ loop = "reevaluate"
        /\ d \in due
        /\ due' = due \ {d}
        /\ Onward(due', "reevaluate")
        /\ ledger' = [ledger EXCEPT ![d.key] =
                        Entry(d.entry.spec, ms_to_instant(next_ms, d.now), d.entry.by)]
        /\ UNCHANGED <<clockVars, table, call, firing, clock_adjusted, tallyVars, failed_write,
                       bootVars>>

-----------------------------------------------------------------------------
\* A boot starts with an empty ledger and a running loop.  Plugins load, and may schedule,
\* before the rows are read.
Crash ==
    /\ aboots < MaxAppointmentBoots
    /\ aboots' = aboots + 1
    /\ boot' = [Up EXCEPT !.at = "load"]
    /\ ledger' = [k \in Appts |-> NoAppt]
    /\ call' = [i \in Calls |->
                  IF call[i].at = "row" THEN [call[i] EXCEPT !.at = "cut"] ELSE call[i]]
    /\ loop' = "idle" /\ due' = {} /\ firing' = NoFiring /\ clock_adjusted' = FALSE
    /\ UNCHANGED <<clockVars, table, tallyVars, failed_write>>

list_pending_appointments ==
    /\ boot.at = "load"
    /\ boot' = [at |-> "rows", rows |-> table]
    /\ UNCHANGED <<clockVars, ledger, table, call, loopVars, tallyVars, failed_write, aboots>>

\* Each row is scheduled, over what a plugin scheduled under its key, and dropped when the
\* ledger is full.  An instant in the past becomes now.
rehydrate_from ==
    /\ boot.at = "rows"
    /\ boot' = Up
    /\ \E kept \in SUBSET {k \in Appts : boot.rows[k].here} :
         /\ \A k \in Appts : boot.rows[k].here /\ ledger[k] # NoAppt => k \in kept
         /\ ledger' = [k \in Appts |->
                         IF k \in kept
                         THEN Entry(boot.rows[k].spec, ms_to_instant(boot.rows[k].next_ms, wall),
                                    boot.rows[k].by)
                         ELSE ledger[k]]
         /\ \A k \in Appts : boot.rows[k].here /\ k \notin kept => Full(k)'
         /\ Cardinality({k \in Appts : ledger'[k] # NoAppt}) <= max_total
    /\ UNCHANGED <<clockVars, table, call, loopVars, tallyVars, failed_write, aboots>>

\* Time, the wall clock and the trust in it.
Tick ==
    /\ mono < MaxTime
    /\ mono' = mono + 1
    /\ UNCHANGED <<skew, trust, adjusts, distrusts, ledger, table, call, loopVars, tallyVars,
                   failed_write, bootVars>>

AdjustClock(s) ==
    /\ adjusts < MaxAdjusts /\ s # skew
    /\ adjusts' = adjusts + 1
    /\ skew' = s
    /\ clock_adjusted' = TRUE
    /\ UNCHANGED <<mono, trust, distrusts, ledger, table, call, loop, due, firing, tallyVars,
                   failed_write, bootVars>>

SetTrust ==
    /\ trust => distrusts < MaxDistrust
    /\ trust' = ~trust
    /\ distrusts' = IF trust THEN distrusts + 1 ELSE distrusts
    /\ UNCHANGED <<mono, skew, adjusts, ledger, table, call, loopVars, tallyVars, failed_write,
                   bootVars>>

-----------------------------------------------------------------------------
LoopStep ==
    \/ fire_due_entries \/ mark_fired \/ advance_after_fire \/ reevaluate_all_pending
    \/ \E d \in due : fire_one(d) \/ Reevaluate(d)

CallStep == list_pending_appointments \/ rehydrate_from \/ \E i \in Calls : CallRow(i)

ApptNext ==
    \/ LoopStep \/ CallStep \/ Tick \/ SetTrust \/ Crash
    \/ \E i \in Calls, k \in Appts :
         cancel(i, k) \/ \E spec \in Specs : schedule(i, k, spec)
    \/ \E s \in Skews : AdjustClock(s)

\* The loop, the calls and the boot run, time passes, and a clock that is not trusted is one day
\* trusted again.
ApptFairness ==
    /\ WF_apptVars(LoopStep) /\ WF_apptVars(CallStep) /\ WF_apptVars(Tick)
    /\ WF_apptVars(SetTrust /\ ~trust)

ApptSpec == ApptInit /\ [][ApptNext]_apptVars /\ ApptFairness

-----------------------------------------------------------------------------
Scheduled(i) == call[i].op = "schedule"
Sole(i) == \A j \in Calls \ {i} : call[j].op \in {"none", "refused"} \/ call[j].key # call[i].key

\* n dispatches are no more than the spec allows.
Allowed(spec, n) ==
    (spec.max_fires # None => n <= spec.max_fires) /\ (spec.kind = "one_shot" => n <= 1)

\* An appointment is dispatched at most max_fires times, a one-shot once, while the clock
\* is not adjusted and the steward not restarted (fire_one, advance_after_fire).
FiresBounded ==
    \A i \in Calls :
      Scheduled(i) /\ adjusts = 0 /\ aboots = 0 => Allowed(call[i].spec, fired[i])

\* The same with clock adjustments: "the re-evaluation only changes WHEN, not the fire
\* count" (reevaluate_all_pending).
CountKept ==
    \A i \in Calls : Scheduled(i) /\ aboots = 0 => Allowed(call[i].spec, fired[i])

\* An appointment nobody else touches, with dispatches still to make, is in the table while it
\* is pending, so the next boot finds it.  (A boot that listed the row before the last
\* dispatch deleted it revives an appointment that owes nothing.)  (record_appointment,
\* advance_after_fire, reevaluate_all_pending)
PendingDurable ==
    \A i \in Calls :
      Scheduled(i) /\ Sole(i) /\ call[i].at = "done" /\ ~failed_write /\ loop # "row"
        /\ Allowed(call[i].spec, fired[i] + 1) /\ ~missed[i] /\ Pending(call[i].key)
      => table[call[i].key].here

\* An acknowledged appointment nobody else touches is dispatched, or given up by its miss
\* policy, whatever boots, distrust and adjustments come in between, unless a boot finds
\* the ledger full of others (the horizon of the model aside).
DueFires ==
    []<>(\A i \in Calls :
           Scheduled(i) /\ Sole(i) /\ call[i].at = "done" /\ ~failed_write =>
             fired[i] > 0 \/ missed[i] \/ ledger[call[i].key].next_fire > MaxTime
               \/ Full(call[i].key))
=============================================================================
