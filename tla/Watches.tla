------------------------------ MODULE Watches ------------------------------
(***************************************************************************)
(* Watches (watches.rs): the ledger, the evaluator state kept beside it,   *)
(* and the loop that takes one happening at a time from the bus and walks  *)
(* a snapshot of the active watches.                                       *)
(*                                                                         *)
(* A happening is a reading of the watched subject, or "other".  Instants  *)
(* are ticks of a steady clock; the wall clock, on which durations are     *)
(* measured, is an offset ahead of it that may change at any time, whether *)
(* or not the clock is trusted.  The locks one evaluation takes up to its  *)
(* dispatch are one step; the dispatch, during which other calls run, ends *)
(* in another.  schedule writes the ledger and then clears the evaluator   *)
(* state: two steps.                                                       *)
(***************************************************************************)
EXTENDS Naturals, Sequences, FiniteSets

CONSTANTS WatchKeys,    \* (creator, watch_id)
          WatchSpecs,   \* records predicate, cooldown_ms (0: Edge), minimum_duration_ms
          Readings,
          BusCapacity,
          MaxRate,      \* max_evaluations_per_second, per tick
          MaxWatches,   \* max_total
          Offsets,      \* of the wall clock, which reads clock + offset
          MaxReadings, MaxWatchCalls, MaxWatchTime, MaxDoubts, MaxSteps

ASSUME WatchAssumption ==
    /\ WatchKeys # {}
    /\ WatchSpecs # {}
    /\ \A spec \in WatchSpecs : spec.cooldown_ms \in Nat /\ spec.minimum_duration_ms \in Nat
    /\ Offsets \subseteq Nat /\ Offsets # {}
    /\ MaxWatchCalls \in Nat

VARIABLES clock, offset,    \* the Instants, and the wall clock's offset from them
          strict,       \* whether the wall clock is trusted
          bus, emitted,
          watch,        \* [WatchKeys -> ledger entry]
          eval,         \* [WatchKeys -> evaluator state]
          wcall,        \* schedule and cancel calls
          walk,         \* the entries the loop has still to evaluate
          event,        \* the happening it evaluates
          stamp, now_ms, \* when it took it: the Instant and the wall clock
          shot,         \* the entry being dispatched
          since,        \* ghost, per schedule call: matched without a break since, on both
          prior,        \* ghost, per schedule call: the stamps of its last two dispatches
          doubts, steps

timeVars == <<clock, offset, strict, doubts, steps>>
busVars == <<bus, emitted>>
evaluationVars == <<walk, event, stamp, now_ms, shot>>
ghostVars == <<since, prior>>
watchVars == <<timeVars, busVars, watch, eval, wcall, evaluationVars, ghostVars>>

WatchCalls == 1..MaxWatchCalls
AnySpec == CHOOSE s \in WatchSpecs : TRUE
NoWatch == [state |-> "absent", spec |-> AnySpec, entered |-> 0, by |-> 0]
NoEval == [cooldown_until |-> 0, high |-> FALSE, window |-> 0, seen |-> 0]
NoShot == [key |-> CHOOSE k \in WatchKeys : TRUE, entry |-> NoWatch]
NotSince == [at |-> 0, ms |-> 0]
NoWCall == [op |-> "none", key |-> CHOOSE k \in WatchKeys : TRUE, at |-> "new"]

WatchInit ==
    /\ clock = 1 /\ offset \in Offsets /\ strict = TRUE /\ doubts = 0 /\ steps = 0
    /\ bus = <<>> /\ emitted = 0
    /\ watch = [k \in WatchKeys |-> NoWatch]
    /\ eval = [k \in WatchKeys |-> NoEval]
    /\ wcall = [i \in WatchCalls |-> NoWCall]
    /\ walk = {} /\ event = "other" /\ stamp = 0 /\ now_ms = 0 /\ shot = NoShot
    /\ since = [i \in WatchCalls |-> NotSince]
    /\ prior = [i \in WatchCalls |-> <<0, 0>>]

-----------------------------------------------------------------------------
\* schedule and cancel.
NewCall(i) == wcall[i].at = "new" /\ \A j \in 1..(i - 1) : wcall[j].at # "new"

ScheduleWatch(i, k, spec) ==
    LET full == watch[k] = NoWatch
                  /\ Cardinality({w \in WatchKeys : watch[w] # NoWatch}) >= MaxWatches
    IN  /\ NewCall(i)
        /\ \/ /\ full
              /\ wcall' = [wcall EXCEPT ![i] = [op |-> "refused", key |-> k, at |-> "done"]]
              /\ UNCHANGED watch
           \/ /\ ~full
              /\ wcall' = [wcall EXCEPT ![i] = [op |-> "schedule", key |-> k, at |-> "clear"]]
              /\ watch' = [watch EXCEPT ![k] = [state |-> "pending", spec |-> spec,
                                                entered |-> 0, by |-> i]]
        /\ UNCHANGED <<timeVars, busVars, eval, evaluationVars, ghostVars>>

CancelWatch(i, k) ==
    /\ NewCall(i)
    /\ watch[k].state \notin {"absent", "cancelled"}
    /\ watch' = [watch EXCEPT ![k].state = "cancelled", ![k].entered = 0]
    /\ wcall' = [wcall EXCEPT ![i] = [op |-> "cancel", key |-> k, at |-> "clear"]]
    /\ UNCHANGED <<timeVars, busVars, eval, evaluationVars, ghostVars>>

ClearState(i) ==
    /\ wcall[i].at = "clear"
    /\ eval' = [eval EXCEPT ![wcall[i].key] = NoEval]
    /\ wcall' = [wcall EXCEPT ![i].at = "done"]
    /\ prior' = [prior EXCEPT ![i] = <<0, 0>>]
    /\ UNCHANGED <<timeVars, busVars, watch, evaluationVars, since>>

-----------------------------------------------------------------------------
\* One happening.

\* A receiver that lags loses the oldest.
Emit(r) ==
    /\ emitted < MaxReadings
    /\ emitted' = emitted + 1
    /\ bus' = Append(IF Len(bus) = BusCapacity THEN Tail(bus) ELSE bus, r)
    /\ UNCHANGED <<timeVars, watch, eval, wcall, evaluationVars, ghostVars>>

Active(k) == watch[k].state \in {"pending", "matched"}

evaluate_event ==
    /\ walk = {} /\ shot = NoShot
    /\ bus # <<>>
    /\ bus' = Tail(bus)
    /\ event' = Head(bus)
    /\ stamp' = clock /\ now_ms' = clock + offset
    /\ walk' = {[key |-> k, entry |-> watch[k]] : k \in {w \in WatchKeys : Active(w)}}
    /\ UNCHANGED <<timeVars, emitted, watch, eval, wcall, shot, ghostVars>>

\* account_for_evaluation: the window rolls after a tick.
Rolled(e) == IF e.window # 0 /\ stamp > e.window
             THEN [e EXCEPT !.window = stamp, !.seen = 0]
             ELSE [e EXCEPT !.window = IF @ = 0 THEN stamp ELSE @, !.seen = @ + 1]
Throttled(e) == e.window # 0 /\ stamp = e.window /\ e.seen >= MaxRate

\* evaluate_condition_against_event: an arm on the subject is false of anything else.
Matches(predicate, e) ==
    CASE predicate = "greater_than" -> event = "high"
      [] predicate = "not_greater_than" -> event # "high"
      [] predicate = "hysteresis" -> event = "high" /\ ~e.high
High(predicate, e) ==
    IF predicate # "hysteresis" THEN e.high
    ELSE IF event = "high" THEN TRUE ELSE IF event = "low" THEN FALSE ELSE e.high

\* The anchor is set and cleared whether or not the clock is trusted.
\* Mutant: an evaluation that does not match leaves the anchor.
KeepAnchor(w, snapshot) == w
note_match_exited(w, snapshot) ==
    IF snapshot.spec.minimum_duration_ms > 0 /\ snapshot.entered # 0
         /\ w.state \notin {"absent", "cancelled"}
    THEN [w EXCEPT !.state = "pending", !.entered = 0] ELSE w

note_match_entered(w, snapshot) ==
    IF snapshot.spec.minimum_duration_ms = 0 \/ w.state \in {"absent", "cancelled"} THEN w
    ELSE [w EXCEPT !.state = "matched", !.entered = IF @ = 0 THEN now_ms ELSE @]

evaluate_one(d) ==
    LET k == d.key
        spec == d.entry.spec
        e == Rolled(eval[k])
        matched == Matches(spec.predicate, e)
        w == IF matched THEN note_match_entered(watch[k], d.entry)
             ELSE note_match_exited(watch[k], d.entry)
        held == \/ spec.minimum_duration_ms = 0
                \/ w.entered # 0 /\ now_ms >= w.entered + spec.minimum_duration_ms
        cooling == spec.cooldown_ms > 0 /\ e.cooldown_until > stamp
        fires == matched /\ held /\ ~cooling /\ (spec.minimum_duration_ms > 0 => strict)
    IN  /\ shot = NoShot
        /\ d \in walk
        /\ walk' = walk \ {d}
        /\ \/ Throttled(eval[k]) /\ UNCHANGED <<watch, eval, shot, ghostVars>>
           \/ /\ ~Throttled(eval[k])
              /\ eval' = [eval EXCEPT ![k] = [e EXCEPT !.high = High(spec.predicate, e)]]
              /\ watch' = [watch EXCEPT ![k] = w]
              /\ since' = [since EXCEPT ![d.entry.by] =
                             IF ~matched THEN NotSince
                             ELSE IF @ = NotSince THEN [at |-> stamp, ms |-> now_ms] ELSE @]
              /\ shot' = IF fires THEN d ELSE shot
              /\ prior' = IF fires THEN [prior EXCEPT ![d.entry.by] = <<@[2], stamp>>] ELSE prior
        /\ UNCHANGED <<timeVars, busVars, wcall, event, stamp, now_ms>>

\* Mutant: the cooldown is counted from the end of the one before.
CooldownUntil(spec) == spec.cooldown_ms
CooldownFrom(spec) == stamp + spec.cooldown_ms

\* The dispatch has returned: mark_fired and the evaluator's cooldown.
MarkWatchFired ==
    LET k == shot.key
        spec == shot.entry.spec
    IN  /\ shot # NoShot
        /\ watch' = IF watch[k].state \in {"absent", "cancelled"} THEN watch
                    ELSE [watch EXCEPT ![k].state = "pending", ![k].entered = 0]
        /\ eval' = IF spec.cooldown_ms = 0 THEN eval
                   ELSE [eval EXCEPT ![k].cooldown_until = CooldownFrom(spec)]
        /\ since' = [since EXCEPT ![shot.entry.by] = NotSince]
        /\ shot' = NoShot
        /\ UNCHANGED <<timeVars, busVars, wcall, walk, event, stamp, now_ms, prior>>

-----------------------------------------------------------------------------
WatchTick ==
    /\ clock < MaxWatchTime
    /\ clock' = clock + 1
    /\ UNCHANGED <<offset, strict, doubts, steps, busVars, watch, eval, wcall, evaluationVars, ghostVars>>

DoubtClock ==
    /\ strict => doubts < MaxDoubts
    /\ strict' = ~strict
    /\ doubts' = IF strict THEN doubts + 1 ELSE doubts
    /\ UNCHANGED <<clock, offset, steps, busVars, watch, eval, wcall, evaluationVars, ghostVars>>

\* The wall clock is set, forward or back.
StepWall ==
    /\ steps < MaxSteps
    /\ steps' = steps + 1
    /\ offset' \in Offsets \ {offset}
    /\ UNCHANGED <<clock, strict, doubts, busVars, watch, eval, wcall, evaluationVars, ghostVars>>

WatchNext ==
    \/ \E i \in WatchCalls, k \in WatchKeys :
         CancelWatch(i, k) \/ \E spec \in WatchSpecs : ScheduleWatch(i, k, spec)
    \/ \E i \in WatchCalls : ClearState(i)
    \/ \E r \in Readings : Emit(r)
    \/ evaluate_event
    \/ \E d \in walk : evaluate_one(d)
    \/ MarkWatchFired
    \/ WatchTick
    \/ DoubtClock
    \/ StepWall

WatchesSpec == WatchInit /\ [][WatchNext]_watchVars

-----------------------------------------------------------------------------
Alone(i) ==
    \A j \in WatchCalls \ {i} : wcall[j].op \in {"none", "refused"} \/ wcall[j].key # wcall[i].key

\* The happenings behind two dispatches of a level-triggered watch were taken up a cooldown
\* apart by the Instants, whatever the wall clock does, from the moment schedule has
\* returned and as long as nobody re-issues or cancels the watch (evaluate_one,
\* mark_fired, schedule).
CooldownKept ==
    \A i \in WatchCalls :
      LET spec == watch[wcall[i].key].spec
      IN  wcall[i].op = "schedule" /\ Alone(i) /\ spec.cooldown_ms > 0 /\ prior[i][1] # 0
            => prior[i][2] >= prior[i][1] + spec.cooldown_ms

\* A watch with a minimum duration that nobody re-issues is dispatched only after its
\* condition has matched at every evaluation for that long by the wall clock, and in
\* fact for that long unless the wall clock was put forward in between
\* (note_match_entered, note_match_exited).
DurationHeld ==
    shot # NoShot /\ Alone(shot.entry.by) /\ shot.entry.spec.minimum_duration_ms > 0 =>
      LET held == since[shot.entry.by]
          duration == shot.entry.spec.minimum_duration_ms
      IN  /\ held # NotSince /\ now_ms >= held.ms + duration
          /\ now_ms + held.at <= stamp + held.ms => stamp >= held.at + duration
=============================================================================
