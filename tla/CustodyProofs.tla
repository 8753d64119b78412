---------------------------- MODULE CustodyProofs ----------------------------
(***************************************************************************)
(* The happenings, the writes to the mirror and the boot keep the          *)
(* invariant, and what follows from it: the mirror is never ahead of the   *)
(* tables and a released custody leaves nothing behind.                    *)
(***************************************************************************)
EXTENDS CustodyRules

\* Mirror as one assignment and a move to the happening.
LEMMA MirrorFacts ==
    ASSUME CustodyInv, NEW t \in Tasks, NEW h \in Handles, h = on[t], Mirror(t),
           NEW new \in CustodyRecord \cup {NoRec}, new = Mirrored(t, entries[h])
    PROVE  /\ pc[t] = "mirror" /\ entries'[h] = new
           /\ UNCHANGED <<rows, snaps, phase, handed, reports, failed, cut>>
           /\ LedgerType' /\ reports <= reports' /\ \A k \in Handles : k # h => Kept(k)
           /\ TaskType' /\ Moves(t)
           /\ pc'[t] = "emit" /\ op'[t] = op[t] /\ on'[t] = h /\ num'[t] = num[t]
<1>1. /\ pc[t] = "mirror" /\ Goto(t, "emit") /\ entries' = [entries EXCEPT ![h] = new]
      /\ UNCHANGED <<rows, snaps, phase, handed, reports, failed, cut>>
  BY DEF Mirror, At
<1>2. LedgerType /\ TaskType
  BY DEF CustodyInv
<1>3. entries'[h] = new /\ LedgerType' /\ reports <= reports'
  BY <1>1, <1>2 DEF LedgerType
<1>4. \A k \in Handles : k # h => Kept(k)
  BY <1>1, <1>2 DEF LedgerType, Kept
<1>5. /\ TaskType' /\ Moves(t)
      /\ pc'[t] = "emit" /\ op'[t] = op[t] /\ on'[t] = h /\ num'[t] = num[t]
  BY <1>1, <1>2, GotoFacts DEF Steps
<1> QED
  BY <1>1, <1>3, <1>4, <1>5

\* What every write to the mirror keeps: the rules of all tasks, if the last report of a
\* record somebody is reporting on stays or is that one's.
LEMMA MirrorRules ==
    ASSUME CustodyInv, NEW t \in Tasks, NEW h \in Handles, h = on[t],
           pc[t] = "mirror", Moves(t), UNCHANGED <<rows, snaps, phase, handed, reports>>,
           pc'[t] = "emit", op'[t] = op[t], on'[t] = h, num'[t] = num[t],
           entries'[h].last = entries[h].last \/ \A u \in Tasks : u # t /\ on[u] = h => op[u] # "report"
    PROVE  /\ Rules(t)'
           /\ \A u \in Tasks : u # t /\ on[u] = h => TakeRule(u)' /\ ReleaseRule(u)' /\ ReportRule(u)'
<1>1. \A u \in Tasks : Shape(u) /\ TakeRule(u) /\ TakesAlone(u) /\ ReleaseRule(u) /\ ReportRule(u)
  BY DEF CustodyInv, Rules
<1>2. Rules(t)'
  <2>1. Shape(t) /\ TakeRule(t) /\ TakesAlone(t) /\ ReleaseRule(t) /\ ReportRule(t)
    BY <1>1
  <2>2. Shape(t)'
    BY <2>1 DEF Shape
  <2>3. TakeRule(t)' /\ ReleaseRule(t)'
    BY <2>1 DEF TakeRule, ReleaseRule
  <2>4. TakesAlone(t)'
    BY <2>1 DEF TakesAlone, Moves
  <2>5. ReportRule(t)'
    BY <2>1 DEF ReportRule
  <2> QED
    BY <2>2, <2>3, <2>4, <2>5 DEF Rules
<1>3. ASSUME NEW u \in Tasks, u # t, on[u] = h
      PROVE  TakeRule(u)' /\ ReleaseRule(u)' /\ ReportRule(u)'
  <2>1. /\ pc'[u] = pc[u] /\ op'[u] = op[u] /\ on'[u] = h /\ img'[u] = img[u]
        /\ num'[u] = num[u]
    BY <1>3 DEF Moves
  <2>2. TakeRule(u) /\ ReleaseRule(u) /\ ReportRule(u)
    BY <1>1
  <2>3. TakeRule(u)' /\ ReleaseRule(u)'
    BY <1>3, <2>1, <2>2 DEF TakeRule, ReleaseRule
  <2>4. ReportRule(u)'
    BY <1>3, <2>1, <2>2, Zenon DEF ReportRule
  <2> QED
    BY <2>3, <2>4
<1> QED
  BY <1>2, <1>3

\* EmitHappening: take_custody returns the handle to its caller.
LEMMA EmitKeeps ==
    ASSUME CustodyInv, NEW t \in Tasks, NEW h \in Handles, h = on[t], EmitHappening(t)
    PROVE  CustodyInv'
<1>1. /\ pc[t] = "emit" /\ Done(t)
      /\ handed' = IF op[t] = "take" THEN handed \cup {h} ELSE handed
      /\ UNCHANGED <<entries, rows, snaps, phase, reports, failed, cut>>
  BY DEF EmitHappening, At, ledgerVars
<1>2. op[t] # "none"
  <2>1. Shape(t)
    BY DEF CustodyInv, Rules
  <2> QED
    BY <1>1, <2>1 DEF Shape
<1>3. TaskType /\ LedgerType /\ TakeRule(t) /\ TakesAlone(t) /\ Mirrors(h) /\ Vanishes(h)
  BY <1>2, TaskAt
<1>4. TaskType' /\ Moves(t) /\ Rules(t)' /\ Shape(t)' /\ op'[t] = "none" /\ on'[t] = NoHandle
  BY <1>1, <1>3, DoneFacts DEF Rules
<1>5. CASE op[t] # "take"
  <2>1. UNCHANGED <<entries, rows, snaps, phase, handed, reports, failed, cut>>
    BY <1>1, <1>5
  <2>2. pc[t] # "mirror" /\ pc[t] # "row"
    BY <1>1
  <2> QED
    BY <1>1, <1>3, <2>1, <2>2, TaskEnds
<1>6. CASE op[t] = "take"
  <2>1. /\ phase[h] = "held" /\ handed' = handed \cup {h}
        /\ \A u \in Tasks : op[u] = "take" /\ on[u] = h => u = t
    BY <1>1, <1>3, <1>6 DEF TakeRule, TakesAlone
  <2>2. LedgerType' /\ reports <= reports' /\ \A k \in Handles : k # h => Kept(k)
    BY <1>1, <1>3, <2>1 DEF LedgerType, Kept
  <2>3. ASSUME NEW u \in Tasks, u # t, on[u] = h
        PROVE  TakeRule(u)' /\ ReleaseRule(u)' /\ ReportRule(u)'
    <3>1. ReleaseRule(u) /\ ReportRule(u) /\ op[u] # "take"
      BY <2>1, <2>3 DEF CustodyInv, Rules
    <3>2. /\ pc'[u] = pc[u] /\ op'[u] = op[u] /\ on'[u] = h /\ num'[u] = num[u]
      BY <1>4, <2>3 DEF Moves
    <3>3. ReleaseRule(u)'
      BY <1>1, <2>1, <2>3, <3>1, <3>2 DEF ReleaseRule
    <3>4. ReportRule(u)'
      BY <1>1, <2>3, <3>1, <3>2 DEF ReportRule
    <3> QED
      BY <3>1, <3>2, <3>3, <3>4 DEF TakeRule
  <2>4. Settled(h)'
    <3>1. (Deleting(h) => Deleting(h)') /\ (Snapped(h) => Snapped(h)')
      BY <1>1, <1>4, StillDeleting, StillSnapped
    <3>2. Mirrors(h)'
      BY <1>1, <1>3, <3>1 DEF Mirrors
    <3> QED
      BY <1>1, <2>1, <3>2 DEF Settled, Vanishes, HandedOnce
  <2> QED
    BY <1>1, <1>4, <2>2, <2>3, <2>4, OneStep
<1> QED
  BY <1>5, <1>6

\* The mirror after record_custody.
LEMMA MirrorTakeKeeps ==
    ASSUME CustodyInv, NEW v \in Tasks, NEW h \in Handles, h = on[v], Mirror(v), op[v] = "take"
    PROVE  CustodyInv'
<1>1. entries[h] \in CustodyRecord \cup {NoRec} /\ NoSnap \in 0..MaxReports
  BY CustodyAssumption DEF CustodyInv, LedgerType, NoSnap
<1>2. PICK new \in CustodyRecord \cup {NoRec} :
        /\ new = Mirrored(v, entries[h]) /\ new.named /\ new.last = entries[h].last
  <2>1. CASE entries[h] = NoRec
    <3>1. Mirrored(v, entries[h]) = [named |-> TRUE, state |-> "active", last |-> NoSnap]
      BY <2>1 DEF Mirrored, Fresh
    <3>2. [named |-> TRUE, state |-> "active", last |-> NoSnap] \in CustodyRecord
      BY <1>1 DEF CustodyRecord, Kinds
    <3> QED
      BY <2>1, <3>1, <3>2 DEF NoRec
  <2>2. CASE entries[h] # NoRec
    <3>1. Mirrored(v, entries[h]) = [entries[h] EXCEPT !.named = TRUE]
      BY <2>2 DEF Mirrored
    <3>2. /\ [entries[h] EXCEPT !.named = TRUE] \in CustodyRecord
          /\ [entries[h] EXCEPT !.named = TRUE].last = entries[h].last
          /\ [entries[h] EXCEPT !.named = TRUE].named
      BY <1>1, <2>2, Zenon DEF CustodyRecord
    <3> QED
      BY <3>1, <3>2, Zenon
  <2> QED
    BY <2>1, <2>2
<1>3. /\ pc[v] = "mirror" /\ entries'[h] = new
      /\ UNCHANGED <<rows, snaps, phase, handed, reports, failed, cut>>
      /\ LedgerType' /\ reports <= reports' /\ \A k \in Handles : k # h => Kept(k)
      /\ TaskType' /\ Moves(v)
      /\ pc'[v] = "emit" /\ op'[v] = op[v] /\ on'[v] = h /\ num'[v] = num[v]
  BY <1>2, MirrorFacts
<1>4. /\ Rules(v)'
      /\ \A u \in Tasks : u # v /\ on[u] = h => TakeRule(u)' /\ ReleaseRule(u)' /\ ReportRule(u)'
  BY <1>2, <1>3, MirrorRules
<1>5. TakeRule(v) /\ Mirrors(h) /\ HandedOnce(h)
  BY TaskAt
<1>6. phase[h] = "held" /\ rows[h] # NoRow /\ rows[h].named
  BY <1>3, <1>5, Zenon DEF TakeRule
<1>7. Settled(h)'
  <2>1. ~Deleting(h) /\ (Snapped(h) => Snapped(h)')
    BY <1>3, <1>6, HeldStays, StillSnapped, Zenon
  <2>2. Mirrors(h)'
    BY <1>2, <1>3, <1>5, <1>6, <2>1, Zenon DEF Mirrors
  <2> QED
    BY <1>3, <1>5, <1>6, <2>2, Zenon DEF Settled, Vanishes, HandedOnce
<1> QED
  BY <1>3, <1>4, <1>7, OneStep, Zenon

\* The mirror after record_state.
LEMMA MirrorReportKeeps ==
    ASSUME OneReader, CustodyInv, NEW r \in Tasks, NEW h \in Handles, h = on[r], Mirror(r),
           op[r] = "report"
    PROVE  CustodyInv'
<1>1. entries[h] \in CustodyRecord \cup {NoRec} /\ num[r] \in 0..MaxReports
  BY DEF CustodyInv, LedgerType, TaskType
<1>2. PICK new \in CustodyRecord \cup {NoRec} :
        /\ new = Mirrored(r, entries[h]) /\ new.last = num[r]
        /\ new.named => entries[h] # NoRec /\ entries[h].named
  <2>1. CASE entries[h] = NoRec
    <3>1. Mirrored(r, entries[h]) = [named |-> FALSE, state |-> "active", last |-> num[r]]
      BY <2>1 DEF Mirrored, Fresh
    <3>2. [named |-> FALSE, state |-> "active", last |-> num[r]] \in CustodyRecord
      BY <1>1 DEF CustodyRecord, Kinds
    <3> QED
      BY <3>1, <3>2
  <2>2. CASE entries[h] # NoRec
    <3>1. Mirrored(r, entries[h]) = [entries[h] EXCEPT !.last = num[r]]
      BY <2>2 DEF Mirrored
    <3>2. /\ [entries[h] EXCEPT !.last = num[r]] \in CustodyRecord
          /\ [entries[h] EXCEPT !.last = num[r]].last = num[r]
          /\ [entries[h] EXCEPT !.last = num[r]].named = entries[h].named
      BY <1>1, <2>2 DEF CustodyRecord
    <3> QED
      BY <2>2, <3>1, <3>2, Zenon
  <2> QED
    BY <2>1, <2>2
<1>3. /\ pc[r] = "mirror" /\ entries'[h] = new
      /\ UNCHANGED <<rows, snaps, phase, handed, reports, failed, cut>>
      /\ LedgerType' /\ reports <= reports' /\ \A k \in Handles : k # h => Kept(k)
      /\ TaskType' /\ Moves(r)
      /\ pc'[r] = "emit" /\ op'[r] = op[r] /\ on'[r] = h /\ num'[r] = num[r]
  BY <1>2, MirrorFacts
<1>4. \A u \in Tasks : u # r => op[u] # "report"
  <2>1. \A u \in Tasks : Shape(u)
    BY DEF CustodyInv, Rules
  <2> QED
    BY <2>1 DEF Shape, Tasks, OneReader
<1>5. /\ Rules(r)'
      /\ \A u \in Tasks : u # r /\ on[u] = h => TakeRule(u)' /\ ReleaseRule(u)' /\ ReportRule(u)'
  BY <1>3, <1>4, MirrorRules
<1>6. ReportRule(r) /\ Mirrors(h) /\ HandedOnce(h)
  BY TaskAt
<1>7. phase[h] = "held" /\ rows[h] # NoRow /\ snaps[h] = num[r]
  BY <1>3, <1>6, Zenon DEF ReportRule
<1>8. Settled(h)'
  <2>1. ~Deleting(h)
    BY <1>7, HeldStays
  <2>2. Mirrors(h)'
    BY <1>2, <1>3, <1>6, <1>7, <2>1, Zenon DEF Mirrors
  <2> QED
    BY <1>3, <1>6, <1>7, <2>2, Zenon DEF Settled, Vanishes, HandedOnce
<1> QED
  BY <1>3, <1>5, <1>8, OneStep, Zenon

\* The mirror after mark_custody_state.
LEMMA MirrorCorrectKeeps ==
    ASSUME CustodyInv, NEW v \in Tasks, NEW h \in Handles, h = on[v], Mirror(v), op[v] = "correct"
    PROVE  CustodyInv'
<1>1. entries[h] \in CustodyRecord \cup {NoRec}
  BY DEF CustodyInv, LedgerType
<1>2. PICK new \in CustodyRecord \cup {NoRec} :
        /\ new = Mirrored(v, entries[h]) /\ new.last = entries[h].last
        /\ new.named = entries[h].named /\ (new = NoRec) = (entries[h] = NoRec)
  <2>1. CASE entries[h] = NoRec
    BY <1>1, <2>1 DEF Mirrored
  <2>2. CASE entries[h] # NoRec
    <3>1. Mirrored(v, entries[h]) = [entries[h] EXCEPT !.state = FailureMode]
      BY <2>2 DEF Mirrored
    <3>2. entries[h] \in CustodyRecord /\ FailureMode \in Kinds
      BY <1>1, <2>2, CustodyAssumption DEF Kinds
    <3>3. /\ [entries[h] EXCEPT !.state = FailureMode] \in CustodyRecord
          /\ [entries[h] EXCEPT !.state = FailureMode].last = entries[h].last
          /\ [entries[h] EXCEPT !.state = FailureMode].named = entries[h].named
      BY <3>2 DEF CustodyRecord
    <3>4. [entries[h] EXCEPT !.state = FailureMode] # NoRec
      BY <3>3 DEF CustodyRecord, NoRec, Kinds
    <3> QED
      BY <2>2, <3>1, <3>3, <3>4, Zenon
  <2> QED
    BY <2>1, <2>2
<1>3. /\ pc[v] = "mirror" /\ entries'[h] = new
      /\ UNCHANGED <<rows, snaps, phase, handed, reports, failed, cut>>
      /\ LedgerType' /\ reports <= reports' /\ \A k \in Handles : k # h => Kept(k)
      /\ TaskType' /\ Moves(v)
      /\ pc'[v] = "emit" /\ op'[v] = op[v] /\ on'[v] = h /\ num'[v] = num[v]
  BY <1>2, MirrorFacts
<1>4. /\ Rules(v)'
      /\ \A u \in Tasks : u # v /\ on[u] = h => TakeRule(u)' /\ ReleaseRule(u)' /\ ReportRule(u)'
  BY <1>2, <1>3, MirrorRules, ZenonT(60)
<1>5. Mirrors(h) /\ Vanishes(h) /\ HandedOnce(h)
  BY TaskAt
<1>6. Settled(h)'
  <2>1. (Deleting(h) => Deleting(h)') /\ (Snapped(h) => Snapped(h)')
    BY <1>3, StillDeleting, StillSnapped, Zenon
  <2>2. Releasing(h) => Releasing(h)'
    BY <1>3, StillReleasing, Zenon
  <2>3. Mirrors(h)'
    BY <1>2, <1>3, <1>5, <2>1, Zenon DEF Mirrors
  <2> QED
    BY <1>2, <1>3, <1>5, <2>2, <2>3, Zenon DEF Settled, Vanishes, HandedOnce
<1> QED
  BY <1>3, <1>4, <1>6, OneStep, Zenon

\* The mirror after delete_custody.
LEMMA MirrorReleaseKeeps ==
    ASSUME CustodyInv, NEW v \in Tasks, NEW h \in Handles, h = on[v], Mirror(v), op[v] = "release"
    PROVE  CustodyInv'
<1>0. NoRec \in CustodyRecord \cup {NoRec}
  OBVIOUS
<1>1. NoRec = Mirrored(v, entries[h]) /\ NoRec.last = NoSnap
  BY DEF Mirrored, NoRec
<1>2. /\ pc[v] = "mirror" /\ entries'[h] = NoRec
      /\ UNCHANGED <<rows, snaps, phase, handed, reports, failed, cut>>
      /\ LedgerType' /\ reports <= reports' /\ \A k \in Handles : k # h => Kept(k)
      /\ TaskType' /\ Moves(v)
      /\ pc'[v] = "emit" /\ op'[v] = op[v] /\ on'[v] = h /\ num'[v] = num[v]
  BY <1>0, <1>1, MirrorFacts
<1>3. ReleaseRule(v) /\ Mirrors(h) /\ HandedOnce(h)
  BY TaskAt
<1>4. phase[h] = "released" /\ rows[h] = NoRow
  BY <1>2, <1>3 DEF ReleaseRule
<1>5. /\ Rules(v)'
      /\ \A u \in Tasks : u # v /\ on[u] = h => TakeRule(u)' /\ ReleaseRule(u)' /\ ReportRule(u)'
  <2>1. \A u \in Tasks : u # v /\ on[u] = h => op[u] # "report"
    BY <1>4, ReleasedStays
  <2> QED
    BY <1>2, <2>1, MirrorRules, Zenon
<1>6. Settled(h)'
  <2>1. Mirrors(h)'
    BY <1>1, <1>2, <1>3, <1>4, Zenon DEF Mirrors
  <2> QED
    BY <1>2, <1>3, <1>4, <2>1, Zenon DEF Settled, Vanishes, HandedOnce
<1> QED
  BY <1>2, <1>5, <1>6, OneStep, Zenon

\* The steward dies and boots: what it shows is what the tables hold.
LEMMA RestartKeeps ==
    ASSUME CustodyInv, rehydrate_from
    PROVE  CustodyInv'
<1>1. /\ LedgerType /\ \A h \in Handles : Settled(h)
      /\ rows' = rows /\ snaps' = snaps /\ handed' = handed /\ reports' = reports
      /\ failed' = failed /\ cut' = cut \cup Cut
  BY DEF CustodyInv, rehydrate_from
<1>2. /\ TaskType'
      /\ \A t \in Tasks : pc'[t] = "idle" /\ op'[t] = "none" /\ on'[t] = NoHandle
  BY CustodyAssumption DEF rehydrate_from, AllDone, TaskType, Steps
<1>3. \A t \in Tasks : Rules(t)'
  <2>1. \A t \in Tasks : Shape(t)'
    BY <1>2 DEF Shape
  <2>2. \A t \in Tasks : op'[t] = "none"
    BY <1>2
  <2> QED
    BY <2>1, <2>2 DEF Rules, TakeRule, TakesAlone, ReleaseRule, ReportRule
<1>4. \A h \in Handles : IF rows[h] = NoRow THEN entries'[h] = NoRec
        ELSE /\ entries'[h] \in CustodyRecord
             /\ entries'[h].named = rows[h].named /\ entries'[h].last = snaps[h]
  <2>1. ASSUME NEW h \in Handles, rows[h] # NoRow
        PROVE  /\ entries'[h] \in CustodyRecord
               /\ entries'[h].named = rows[h].named /\ entries'[h].last = snaps[h]
    <3>1. rows[h] \in Row /\ snaps[h] \in 0..MaxReports
      BY <1>1, <2>1 DEF LedgerType
    <3>2. entries'[h] = [named |-> rows[h].named, state |-> rows[h].state, last |-> snaps[h]]
      BY <2>1 DEF rehydrate_from
    <3> QED
      BY <3>1, <3>2 DEF Row, CustodyRecord
  <2>2. ASSUME NEW h \in Handles, rows[h] = NoRow PROVE entries'[h] = NoRec
    BY <2>2 DEF rehydrate_from
  <2> QED
    BY <2>1, <2>2
<1>5. \A h \in Handles : phase'[h] \in {phase[h], "lost"}
  BY Zenon DEF rehydrate_from, WardenKeeps
<1>6. LedgerType'
  <2>1. entries' = [h \in Handles |-> entries'[h]] /\ phase' = [h \in Handles |-> phase'[h]]
    BY DEF rehydrate_from, WardenKeeps
  <2>2. \A h \in Handles : entries'[h] \in CustodyRecord \cup {NoRec}
    BY <1>4
  <2>3. \A h \in Handles : phase'[h] \in {"new", "held", "released", "lost"}
    BY <1>1, <1>5 DEF LedgerType
  <2> QED
    BY <1>1, <2>1, <2>2, <2>3 DEF LedgerType
<1>7. ASSUME NEW h \in Handles PROVE Settled(h)'
  <2>1. Mirrors(h) /\ Vanishes(h) /\ HandedOnce(h)
    BY <1>1 DEF Settled
  <2>2. Mirrors(h)'
    <3>1. /\ rows[h] = NoRow => snaps[h] = NoSnap
          /\ snaps[h] <= reports
      BY <2>1 DEF Mirrors
    <3>2. entries'[h] # NoRec => /\ rows[h] # NoRow
                                 /\ entries'[h].named => rows[h].named
      BY <1>4
    <3>3. entries'[h].last = snaps[h]
      <4>1. NoRec.last = NoSnap
        BY DEF NoRec
      <4> QED
        BY <1>4, <3>1, <4>1
    <3> QED
      BY <1>1, <3>1, <3>2, <3>3 DEF Mirrors
  <2>3. Vanishes(h)'
    <3>1. ASSUME Releasing(h), h \notin Cut PROVE rows[h] = NoRow
      <4>1. PICK t \in Tasks : on[t] = h /\ op[t] = "release" /\ pc[t] \in {"row", "mirror"}
        BY <3>1 DEF Releasing
      <4>2. t \in Verbs /\ ReleaseRule(t)
        <5>1. Shape(t) /\ ReleaseRule(t)
          BY DEF CustodyInv, Rules
        <5> QED
          BY <4>1, <5>1 DEF Shape, Tasks
      <4>3. pc[t] = "mirror"
        BY <3>1, <4>1, <4>2 DEF Cut, At
      <4> QED
        BY <4>1, <4>2, <4>3 DEF ReleaseRule
    <3>2. ASSUME ~failed, h \notin cut, h \notin Cut, phase[h] = "released"
          PROVE  entries'[h] = NoRec /\ rows[h] = NoRow
      BY <1>4, <2>1, <3>1, <3>2 DEF Vanishes
    <3>3. phase'[h] = "released" => phase[h] = "released"
      BY <1>5
    <3> QED
      BY <1>1, <3>2, <3>3 DEF Vanishes
  <2>4. HandedOnce(h)'
    BY <1>1, <1>5, <2>1 DEF HandedOnce
  <2> QED
    BY <2>2, <2>3, <2>4 DEF Settled
<1> QED
  BY <1>2, <1>3, <1>6, <1>7 DEF CustodyInv


\* A verb or report at work, after its call.
Work(t) ==
    \/ /\ t \in Verbs
       /\ \/ TakeReturns(t) \/ ReleaseReturns(t) \/ dispatch_correction_to_warden(t)
          \/ ReadForCustody(t) \/ mark_custody_state(t) \/ delete_custody(t)
    \/ t \in Reporters /\ upsert_custody_state(t)
    \/ upsert_custody(t)
    \/ Mirror(t)
    \/ EmitHappening(t)

\* The steps of the ledger, and the handle each is about.
LEMMA StepKinds ==
    ASSUME CustodyInv, CustodyNext
    PROVE  \/ \E v \in Verbs, h \in Handles :
                take_custody(v, h) \/ course_correct(v, h) \/ course_correct_fast(v, h)
                  \/ release_custody(v, h)
           \/ \E r \in Reporters, h \in Handles : report(r, h)
           \/ \E t \in Tasks : StoreFailure(t)
           \/ \E t \in Tasks, h \in Handles : h = on[t] /\ op[t] # "none" /\ Work(t)
           \/ rehydrate_from
<1>1. ASSUME NEW t \in Tasks, pc[t] # "idle" PROVE on[t] \in Handles /\ op[t] # "none"
  <2>1. op[t] # "none"
    BY <1>1 DEF CustodyInv, Rules, Shape
  <2> QED
    BY <2>1, TaskAt
<1>2. ASSUME NEW t \in Tasks, Work(t) PROVE pc[t] # "idle"
  BY <1>2 DEF Work, TakeReturns, ReleaseReturns, dispatch_correction_to_warden, ReadForCustody,
     mark_custody_state, delete_custody, upsert_custody_state, upsert_custody, Mirror,
     EmitHappening, At
<1> QED
  BY <1>1, <1>2, Zenon DEF CustodyNext, Work, Tasks

\* Every step of the ledger keeps the invariant.
LEMMA StepKeeps ==
    ASSUME OneReader, CustodyInv, CustodyNext
    PROVE  CustodyInv'
<1>1. CASE \/ \E v \in Verbs, h \in Handles :
                take_custody(v, h) \/ course_correct(v, h) \/ course_correct_fast(v, h)
                  \/ release_custody(v, h)
           \/ \E r \in Reporters, h \in Handles : report(r, h)
           \/ \E t \in Tasks : StoreFailure(t)
           \/ rehydrate_from
  BY <1>1, TakeKeeps, CallKeeps, ReportKeeps, EndKeeps, RestartKeeps
<1>2. ASSUME NEW t \in Tasks, NEW h \in Handles, h = on[t], op[t] # "none", Work(t)
      PROVE  CustodyInv'
  <2>1. CASE t \in Verbs /\ (TakeReturns(t) \/ ReleaseReturns(t))
    <3>1. TakeReturns(t) => \/ Goto(t, "read") /\ UNCHANGED phase
                            \/ Done(t) /\ phase' = [phase EXCEPT ![h] = "lost"]
      BY <1>2 DEF TakeReturns
    <3>2. CASE TakeReturns(t)
      BY <1>2, <2>1, <3>1, <3>2, TakeReturnsKeeps, TakeRefusedKeeps
    <3>3. CASE ReleaseReturns(t)
      <4>1. \/ /\ ReplyRead /\ phase[h] = "held"
               /\ Goto(t, "row") /\ phase' = [phase EXCEPT ![h] = "released"]
            \/ Done(t) /\ UNCHANGED phase
        BY <1>2, <3>3, Zenon DEF ReleaseReturns
      <4> QED
        BY <1>2, <2>1, <3>3, <4>1, ReleaseReturnsKeeps, AnswerKeeps
    <3> QED
      BY <2>1, <3>2, <3>3
  <2>2. CASE t \in Verbs /\ (dispatch_correction_to_warden(t) \/ ReadForCustody(t))
    BY <1>2, <2>2, AnswerKeeps, ReadKeeps
  <2>3. CASE t \in Verbs /\ (mark_custody_state(t) \/ delete_custody(t))
    BY <1>2, <2>3, MarkKeeps, DeleteKeeps
  <2>4. CASE t \in Reporters /\ upsert_custody_state(t)
    BY <1>2, <2>4, SnapKeeps, EndKeeps
  <2>5. CASE upsert_custody(t) \/ EmitHappening(t)
    BY <1>2, <2>5, UpsertKeeps, EmitKeeps
  <2>6. CASE Mirror(t)
    <3>1. op[t] \in {"take", "report", "correct", "release"}
      BY <1>2 DEF CustodyInv, TaskType
    <3> QED
      BY <1>2, <2>6, <3>1, MirrorTakeKeeps, MirrorReportKeeps, MirrorCorrectKeeps,
         MirrorReleaseKeeps
  <2> QED
    BY <1>2, <2>1, <2>2, <2>3, <2>4, <2>5, <2>6 DEF Work
<1> QED
  BY <1>1, <1>2, StepKinds

\* The empty ledger satisfies the invariant.
LEMMA InitHolds ==
    ASSUME CustodyInit
    PROVE  CustodyInv
<1>1. LedgerType
  BY CustodyAssumption DEF CustodyInit, LedgerType, NoSnap
<1>2. /\ TaskType
      /\ \A t \in Tasks : pc[t] = "idle" /\ op[t] = "none" /\ on[t] = NoHandle
  BY CustodyAssumption DEF CustodyInit, TaskType, Steps
<1>3. \A t \in Tasks : Rules(t)
  BY <1>2 DEF Rules, Shape, TakeRule, TakesAlone, ReleaseRule, ReportRule
<1>4. ASSUME NEW h \in Handles PROVE Settled(h)
  <2>1. /\ entries[h] = NoRec /\ rows[h] = NoRow /\ snaps[h] = 0 /\ phase[h] = "new"
        /\ handed = {} /\ reports = 0
    BY DEF CustodyInit, NoSnap
  <2>2. Mirrors(h)
    BY <2>1 DEF Mirrors, NoRec, NoSnap
  <2> QED
    BY <2>1, <2>2 DEF Settled, Vanishes, HandedOnce
<1> QED
  BY <1>1, <1>2, <1>3, <1>4 DEF CustodyInv

\* With one reader loop on the wire, any number of verbs and handles, failing
\* transactions and boots keep the invariant.
THEOREM CustodyInvariant ==
    ASSUME OneReader
    PROVE  CustodySpec => []CustodyInv
<1>1. CustodyInit => CustodyInv
  BY InitHolds
<1>2. CustodyInv /\ [CustodyNext]_custodyVars => CustodyInv'
  <2>1. ASSUME CustodyInv, UNCHANGED custodyVars PROVE CustodyInv'
    <3>1. /\ UNCHANGED <<entries, rows, snaps, phase, handed, reports, failed, cut>>
          /\ UNCHANGED <<pc, op, on, img, num>>
      BY <2>1 DEF custodyVars, ledgerVars, taskVars
    <3>2. LedgerType' /\ TaskType'
      BY <2>1, <3>1 DEF CustodyInv, LedgerType, TaskType
    <3>3. ASSUME NEW t \in Tasks PROVE Rules(t)'
      <4>1. Shape(t) /\ TakeRule(t) /\ TakesAlone(t) /\ ReleaseRule(t) /\ ReportRule(t)
        BY <2>1 DEF CustodyInv, Rules
      <4>2. Shape(t)' /\ TakesAlone(t)'
        BY <3>1, <4>1, Zenon DEF Shape, TakesAlone
      <4>3. TakeRule(t)' /\ ReleaseRule(t)' /\ ReportRule(t)'
        BY <3>1, <4>1, Zenon DEF TakeRule, ReleaseRule, ReportRule
      <4> QED
        BY <4>2, <4>3 DEF Rules
    <3>4. ASSUME NEW h \in Handles PROVE Settled(h)'
      <4>1. Deleting(h)' = Deleting(h) /\ Releasing(h)' = Releasing(h) /\ Snapped(h)' = Snapped(h)
        BY <3>1, Zenon DEF Deleting, Releasing, Snapped
      <4>2. Mirrors(h) /\ Vanishes(h) /\ HandedOnce(h)
        BY <2>1 DEF CustodyInv, Settled
      <4>3. Mirrors(h)'
        BY <3>1, <4>1, <4>2, Zenon DEF Mirrors
      <4> QED
        BY <3>1, <4>1, <4>2, <4>3, Zenon DEF Settled, Vanishes, HandedOnce
    <3> QED
      BY <3>2, <3>3, <3>4 DEF CustodyInv
  <2> QED
    BY <2>1, StepKeeps
<1> QED
  BY <1>1, <1>2, PTL DEF CustodySpec

\* Whatever fails on the way, a record at rest in the mirror has its row, its names and
\* its snapshot in the tables: record_custody, record_state and release_custody write
\* the table first.
THEOREM CustodyMemoryNotAhead ==
    ASSUME OneReader
    PROVE  CustodySpec => []MemoryNotAhead
<1>1. CustodyInv => MemoryNotAhead
  <2> SUFFICES ASSUME CustodyInv, NEW h \in Handles, On(h) = {}, entries[h] # NoRec
               PROVE  /\ rows[h] # NoRow
                      /\ entries[h].named => rows[h].named
                      /\ entries[h].last = snaps[h]
    BY DEF MemoryNotAhead
  <2>1. ~Deleting(h) /\ ~Snapped(h)
    BY DEF On, Deleting, Snapped
  <2>2. Mirrors(h)
    BY DEF CustodyInv, Settled
  <2> QED
    BY <2>1, <2>2, Zenon DEF Mirrors
<1> QED
  BY <1>1, CustodyInvariant, PTL

\* A released custody leaves neither record nor row nor snapshot behind, unless a transaction
\* failed or the steward died before delete_custody: the reader loop handles the reports
\* before the release's reply.
THEOREM CustodyNoZombie ==
    ASSUME OneReader
    PROVE  CustodySpec => []NoZombie
<1>1. CustodyInv => NoZombie
  <2> SUFFICES ASSUME CustodyInv, ~failed, NEW h \in Handles, h \notin cut,
                      phase[h] = "released", On(h) = {}
               PROVE  entries[h] = NoRec /\ rows[h] = NoRow /\ snaps[h] = NoSnap
    BY DEF NoZombie
  <2>1. ~Releasing(h)
    BY DEF On, Releasing
  <2>2. Mirrors(h) /\ Vanishes(h)
    BY DEF CustodyInv, Settled
  <2> QED
    BY <2>1, <2>2 DEF Mirrors, Vanishes
<1> QED
  BY <1>1, CustodyInvariant, PTL

-----------------------------------------------------------------------------
Shows == [h \in Handles |-> Shown(h)]

\* What one handle's record may do in a step.
Advances(h) ==
    \/ Shown(h)' = View!Gone
    \/ /\ Shown(h).stage \in {"absent", "reported"}
       /\ Shown(h)' = [Shown(h) EXCEPT !.stage = "taken"]
    \/ \E n \in 1..MaxReports :
         /\ Shown(h) # View!Gone /\ Shown(h).last < n
         /\ Shown(h)' = [stage |-> IF Shown(h).stage = "taken" THEN "taken" ELSE "reported",
                         last |-> n]

\* A step in which nothing listed changes is a stutter of the view.
LEMMA SameView ==
    ASSUME \A k \in Handles : Shown(k)' = Shown(k)
    PROVE  UNCHANGED Shows
BY DEF Shows

\* A step in which one record advances is a step of the view, or a stutter.
LEMMA OneAdvances ==
    ASSUME NEW h \in Handles, Shown(h)' = Shown(h) \/ Advances(h),
           \A k \in Handles : k # h => Shown(k)' = Shown(k)
    PROVE  View!ViewNext \/ UNCHANGED Shows
<1> DEFINE new == Shown(h)'
<1>1. Shows' = [Shows EXCEPT ![h] = new] /\ Shows[h] = Shown(h)
  BY Zenon DEF Shows
<1>2. CASE Shown(h)' = Shown(h)
  BY <1>2, SameView
<1>3. CASE Shown(h)' = View!Gone /\ Shown(h) # View!Gone
  BY <1>1, <1>3, Zenon DEF Shows, View!ViewNext, View!Leave, View!Becomes
<1>4. CASE /\ Shown(h).stage \in {"absent", "reported"}
           /\ Shown(h)' = [Shown(h) EXCEPT !.stage = "taken"]
  BY <1>1, <1>4, Zenon DEF Shows, View!ViewNext, View!ShowTake, View!Becomes
<1>5. CASE \E n \in 1..MaxReports :
             /\ Shown(h) # View!Gone /\ Shown(h).last < n
             /\ Shown(h)' = [stage |-> IF Shown(h).stage = "taken" THEN "taken" ELSE "reported",
                             last |-> n]
  <2>1. View!ShowReport(h)
    BY <1>1, <1>5, Zenon DEF Shows, View!ShowReport, View!Becomes
  <2> QED
    BY <2>1 DEF View!ViewNext
<1> QED
  BY <1>2, <1>3, <1>4, <1>5 DEF Advances

\* Steps that touch neither mirror, table nor warden show nothing.
LEMMA QuietSteps ==
    ASSUME UNCHANGED <<entries, rows, phase>>
    PROVE  UNCHANGED Shows
BY SameView DEF Shown

\* take_custody, TakeReturns and ReleaseReturns change the warden's side only.
LEMMA WardenSteps ==
    ASSUME CustodyInv, NEW h \in Handles, UNCHANGED <<entries, rows>>,
           \/ phase[h] = "new" /\ phase' = [phase EXCEPT ![h] = "held"]
           \/ phase' = [phase EXCEPT ![h] = "lost"]
           \/ phase' = [phase EXCEPT ![h] = "released"]
           \/ UNCHANGED phase
    PROVE  View!ViewNext \/ UNCHANGED Shows
<1>1. phase \in [Handles -> {"new", "held", "released", "lost"}]
  BY DEF CustodyInv, LedgerType
<1>2. \A k \in Handles : k # h => Shown(k)' = Shown(k)
  BY <1>1, Zenon DEF Shown
<1>3. Shown(h)' = Shown(h) \/ Shown(h)' = View!Gone
  BY <1>1, Zenon DEF Shown, View!Gone, NoSnap
<1> QED
  BY <1>2, <1>3, OneAdvances DEF Advances

\* upsert_custody and mark_custody_state write rows of custodies that are not over.
LEMMA RowSteps ==
    ASSUME CustodyInv, NEW h \in Handles, UNCHANGED <<entries, phase>>,
           \A k \in Handles : k # h => rows'[k] = rows[k],
           phase[h] = "held" \/ (rows'[h] = NoRow <=> rows[h] = NoRow)
    PROVE  UNCHANGED Shows
<1>1. \A k \in Handles : Shown(k)' = Shown(k)
  BY Zenon DEF Shown
<1> QED
  BY <1>1, SameView

\* upsert_custody shows nothing: whoever records works on a held custody.
LEMMA UpsertShows ==
    ASSUME CustodyInv, NEW t \in Tasks, NEW h \in Handles, h = on[t], upsert_custody(t)
    PROVE  UNCHANGED Shows
<1>1. pc[t] = "row" /\ op[t] \in {"take", "report"}
  BY DEF upsert_custody, At
<1>2. phase[h] = "held"
  <2>1. TakeRule(t) /\ ReportRule(t)
    BY <1>1, TaskAt, Zenon
  <2> QED
    BY <1>1, <2>1, Zenon DEF TakeRule, ReportRule
<1>3. rows \in [Handles -> Row \cup {NoRow}]
  BY DEF CustodyInv, LedgerType
<1>4. UNCHANGED <<entries, phase>> /\ \A k \in Handles : k # h => rows'[k] = rows[k]
  BY <1>3 DEF upsert_custody
<1> QED
  BY <1>2, <1>4, RowSteps

\* mark_custody_state shows nothing: the row stays or stays away.
LEMMA MarkShows ==
    ASSUME CustodyInv, NEW v \in Tasks, NEW h \in Handles, h = on[v], mark_custody_state(v)
    PROVE  UNCHANGED Shows
<1>1. rows \in [Handles -> Row \cup {NoRow}]
  BY DEF CustodyInv, LedgerType
<1>2. rows'[h] = NoRow <=> rows[h] = NoRow
  BY <1>1, CustodyAssumption DEF mark_custody_state, Row, Kinds, NoRow
<1>3. UNCHANGED <<entries, phase>> /\ \A k \in Handles : k # h => rows'[k] = rows[k]
  BY <1>1 DEF mark_custody_state
<1> QED
  BY <1>2, <1>3, RowSteps

\* delete_custody ends a custody the mirror does not have; otherwise the mirror ends it.
LEMMA DeleteShows ==
    ASSUME CustodyInv, NEW v \in Tasks, NEW h \in Handles, h = on[v], delete_custody(v)
    PROVE  View!ViewNext \/ UNCHANGED Shows
<1>1. pc[v] = "row" /\ op[v] = "release"
  BY Zenon DEF delete_custody, At
<1>2. phase[h] = "released"
  <2>1. ReleaseRule(v)
    BY <1>1, TaskAt, Zenon
  <2> QED
    BY <1>1, <2>1 DEF ReleaseRule
<1>3. rows \in [Handles -> Row \cup {NoRow}]
  BY DEF CustodyInv, LedgerType
<1>4. /\ UNCHANGED <<entries, phase>> /\ rows'[h] = NoRow
      /\ \A k \in Handles : k # h => rows'[k] = rows[k]
  BY <1>1, <1>3, Zenon DEF delete_custody
<1>5. \A k \in Handles : k # h => Shown(k)' = Shown(k)
  BY <1>4, Zenon DEF Shown
<1>6. Shown(h)' = Shown(h) \/ Shown(h)' = View!Gone
  BY <1>2, <1>4, Zenon DEF Shown, View!Gone, NoSnap
<1> QED
  BY <1>1, <1>5, <1>6, OneAdvances DEF Advances

\* The mirror after record_custody shows the take.
LEMMA MirrorTakeShows ==
    ASSUME CustodyInv, NEW v \in Tasks, NEW h \in Handles, h = on[v], Mirror(v), op[v] = "take"
    PROVE  View!ViewNext \/ UNCHANGED Shows
<1>1. phase[h] = "held"
  <2>1. TakeRule(v)
    BY TaskAt, Zenon
  <2> QED
    BY <2>1, Zenon DEF TakeRule, Mirror, At
<1>2. entries \in [Handles -> CustodyRecord \cup {NoRec}]
  BY Zenon DEF CustodyInv, LedgerType
<1>3. Mirrored(v, entries[h]) = IF entries[h] = NoRec THEN Fresh(TRUE, NoSnap)
                                ELSE [entries[h] EXCEPT !.named = TRUE]
  BY DEF Mirrored
<1>4. /\ UNCHANGED <<rows, phase>> /\ entries'[h] = Mirrored(v, entries[h])
      /\ \A k \in Handles : k # h => entries'[k] = entries[k]
  BY <1>2 DEF Mirror
<1>5. \A k \in Handles : k # h => Shown(k)' = Shown(k)
  BY <1>4, Zenon DEF Shown
<1>6. CASE entries[h] = NoRec
  <2>1. entries'[h] = Fresh(TRUE, NoSnap) /\ entries'[h] # NoRec
    BY <1>3, <1>4, <1>6 DEF Fresh, NoRec
  <2>2. Shown(h)' = [stage |-> "taken", last |-> NoSnap]
    <3>1. Fresh(TRUE, NoSnap).named = TRUE /\ Fresh(TRUE, NoSnap).last = NoSnap
      BY Zenon DEF Fresh
    <3>2. entries'[h].named = TRUE /\ entries'[h].last = NoSnap
      BY <2>1, <3>1, Zenon
    <3> QED
      BY <2>1, <3>2, Zenon DEF Shown
  <2>3. Shown(h) = [stage |-> "absent", last |-> NoSnap]
    BY <1>1, <1>6, Zenon DEF Shown
  <2> QED
    BY <1>5, <2>2, <2>3, OneAdvances DEF Advances
<1>7. CASE entries[h] # NoRec
  <2>1. entries[h] \in CustodyRecord /\ entries'[h] = [entries[h] EXCEPT !.named = TRUE]
    BY <1>2, <1>3, <1>4, <1>7
  <2>2. /\ entries'[h] \in CustodyRecord /\ entries'[h].named /\ entries'[h].last = entries[h].last
        /\ entries[h].named \in BOOLEAN
    BY <2>1, Zenon DEF CustodyRecord
  <2>3. entries'[h] # NoRec
    BY <2>2 DEF CustodyRecord, Kinds, NoRec
  <2>4. Shown(h)' = [stage |-> "taken", last |-> entries[h].last]
    BY <2>2, <2>3 DEF Shown
  <2>5. Shown(h) = [stage |-> IF entries[h].named THEN "taken" ELSE "reported",
                    last |-> entries[h].last]
    BY <1>7 DEF Shown
  <2>6. Shown(h)' = Shown(h) \/ Advances(h)
    BY <2>4, <2>5 DEF Advances
  <2> QED
    BY <1>5, <2>6, OneAdvances
<1> QED
  BY <1>6, <1>7

\* The mirror after record_state shows the report, which is newer than what it showed.
LEMMA MirrorReportShows ==
    ASSUME CustodyInv, NEW r \in Tasks, NEW h \in Handles, h = on[r], Mirror(r), op[r] = "report"
    PROVE  View!ViewNext \/ UNCHANGED Shows
<1>0. ReportRule(r) /\ reports \in 0..MaxReports
  BY TaskAt, Zenon DEF LedgerType
<1>n. PICK n \in 1..MaxReports : n = num[r]
  <2>1. num[r] \in 1..reports
    BY <1>0 DEF ReportRule
  <2>2. num[r] \in 1..MaxReports
    <3>1. reports \in 0..MaxReports /\ MaxReports \in Nat
      BY <1>0, CustodyAssumption, Zenon
    <3> QED
      BY <2>1, <3>1
  <2> QED
    BY <2>2
<1>1. phase[h] = "held" /\ entries[h].last < n
  BY <1>0, <1>n DEF ReportRule, Mirror, At
<1>2. entries \in [Handles -> CustodyRecord \cup {NoRec}]
  BY DEF CustodyInv, LedgerType
<1>3. Mirrored(r, entries[h]) = IF entries[h] = NoRec THEN Fresh(FALSE, n)
                                ELSE [entries[h] EXCEPT !.last = n]
  BY <1>0, <1>n DEF Mirrored
<1>4. /\ UNCHANGED <<rows, phase>> /\ entries'[h] = Mirrored(r, entries[h])
      /\ \A k \in Handles : k # h => entries'[k] = entries[k]
  BY <1>2, Zenon DEF Mirror
<1>5. \A k \in Handles : k # h => Shown(k)' = Shown(k)
  BY <1>4, Zenon DEF Shown
<1>6. CASE entries[h] = NoRec
  <2>1. entries'[h] = Fresh(FALSE, n) /\ entries'[h] # NoRec
    BY <1>3, <1>4, <1>6 DEF Fresh, NoRec
  <2>a. Fresh(FALSE, n).named = FALSE /\ Fresh(FALSE, n).last = n
    BY Zenon DEF Fresh
  <2>2. Shown(h)' = [stage |-> "reported", last |-> n]
    BY <2>1, <2>a, Zenon DEF Shown
  <2>3. Shown(h) = [stage |-> "absent", last |-> 0]
    BY <1>1, <1>6 DEF Shown, NoSnap
  <2>4. Shown(h) # View!Gone /\ Shown(h).last < n
    BY <2>3 DEF View!Gone
  <2>5. Advances(h)
    BY <2>2, <2>3, <2>4 DEF Advances
  <2> QED
    BY <1>5, <2>5, OneAdvances
<1>7. CASE entries[h] # NoRec
  <2>1. entries[h] \in CustodyRecord /\ entries'[h] = [entries[h] EXCEPT !.last = n]
    BY <1>2, <1>3, <1>4, <1>7
  <2>2. /\ entries'[h].state = entries[h].state /\ entries'[h].last = n
        /\ entries'[h].named = entries[h].named /\ entries[h].state # "none"
    BY <2>1 DEF CustodyRecord, Kinds
  <2>3. entries'[h] # NoRec
    BY <2>2 DEF NoRec
  <2>4. Shown(h)' = [stage |-> IF entries[h].named THEN "taken" ELSE "reported", last |-> n]
    BY <2>2, <2>3 DEF Shown
  <2>5. Shown(h) = [stage |-> IF entries[h].named THEN "taken" ELSE "reported",
                    last |-> entries[h].last]
    BY <1>7 DEF Shown
  <2>6. Shown(h) # View!Gone /\ Shown(h).last < n
    BY <1>1, <2>5 DEF View!Gone
  <2>7. Advances(h)
    BY <2>4, <2>5, <2>6 DEF Advances
  <2> QED
    BY <1>5, <2>7, OneAdvances
<1> QED
  BY <1>6, <1>7

\* The mirror after mark_custody_state shows neither stage nor report.
LEMMA MirrorCorrectShows ==
    ASSUME CustodyInv, NEW v \in Tasks, NEW h \in Handles, h = on[v], Mirror(v), op[v] = "correct"
    PROVE  UNCHANGED Shows
<1>1. entries \in [Handles -> CustodyRecord \cup {NoRec}]
  BY DEF CustodyInv, LedgerType
<1>2. Mirrored(v, entries[h]) = IF entries[h] = NoRec THEN NoRec
                                ELSE [entries[h] EXCEPT !.state = FailureMode]
  BY DEF Mirrored
<1>3. /\ UNCHANGED <<rows, phase>> /\ entries'[h] = Mirrored(v, entries[h])
      /\ \A k \in Handles : k # h => entries'[k] = entries[k]
  BY <1>1 DEF Mirror
<1>4. CASE entries[h] = NoRec
  <2>1. \A k \in Handles : entries'[k] = entries[k]
    BY <1>2, <1>3, <1>4
  <2> QED
    BY <1>3, <2>1, SameView, Zenon DEF Shown
<1>5. CASE entries[h] # NoRec
  <2>1. entries[h] \in CustodyRecord /\ entries'[h] = [entries[h] EXCEPT !.state = FailureMode]
    BY <1>1, <1>2, <1>3, <1>5
  <2>2. /\ entries'[h].state = FailureMode /\ entries'[h].last = entries[h].last
        /\ entries'[h].named = entries[h].named
    BY <2>1 DEF CustodyRecord
  <2>3. entries'[h] # NoRec
    BY <2>2, CustodyAssumption DEF NoRec
  <2>4. \A k \in Handles : Shown(k)' = Shown(k)
    BY <1>3, <1>5, <2>2, <2>3, Zenon DEF Shown
  <2> QED
    BY <2>4, SameView
<1> QED
  BY <1>4, <1>5

\* The mirror after delete_custody: the custody is gone.
LEMMA MirrorReleaseShows ==
    ASSUME CustodyInv, NEW v \in Tasks, NEW h \in Handles, h = on[v], Mirror(v), op[v] = "release"
    PROVE  View!ViewNext \/ UNCHANGED Shows
<1>1. phase[h] = "released" /\ rows[h] = NoRow
  <2>1. ReleaseRule(v)
    BY TaskAt
  <2> QED
    BY <2>1, Zenon DEF ReleaseRule, Mirror, At
<1>2. entries \in [Handles -> CustodyRecord \cup {NoRec}]
  BY DEF CustodyInv, LedgerType
<1>3. Mirrored(v, entries[h]) = NoRec
  BY DEF Mirrored
<1>4. /\ UNCHANGED <<rows, phase>> /\ entries'[h] = NoRec
      /\ \A k \in Handles : k # h => entries'[k] = entries[k]
  BY <1>2, <1>3 DEF Mirror
<1>5. \A k \in Handles : k # h => Shown(k)' = Shown(k)
  BY <1>4, Zenon DEF Shown
<1>6. Shown(h)' = View!Gone
  BY <1>1, <1>4 DEF Shown, View!Gone, NoSnap
<1> QED
  BY <1>5, <1>6, OneAdvances DEF Advances

\* rehydrate_from: every record is at least as far as it was.
LEMMA RestartShows ==
    ASSUME CustodyInv, rehydrate_from
    PROVE  View!ViewNext
<1>1. /\ entries \in [Handles -> CustodyRecord \cup {NoRec}]
      /\ rows \in [Handles -> Row \cup {NoRow}]
      /\ snaps \in [Handles -> 0..MaxReports]
      /\ rows' = rows
  BY DEF CustodyInv, LedgerType, rehydrate_from
<1>2. \A t \in Tasks : ReleaseRule(t) /\ ReportRule(t)
  BY DEF CustodyInv, Rules
<1>3. ASSUME NEW h \in Handles PROVE View!Forward(Shown(h), Shown(h)')
  <2>1. entries'[h] = IF rows[h] = NoRow THEN NoRec
          ELSE [named |-> rows[h].named, state |-> rows[h].state, last |-> snaps[h]]
    BY <1>3, Zenon DEF rehydrate_from
  <2>2. phase'[h] = phase[h] \/ (phase[h] = "held" /\ phase'[h] = "lost")
    BY <1>3, Zenon DEF rehydrate_from, WardenKeeps
  <2>3. Mirrors(h)
    BY <1>3 DEF CustodyInv, Settled
  <2>4. CASE rows[h] = NoRow /\ entries[h] = NoRec
    <3>1. Shown(h)' = Shown(h) \/ Shown(h)' = View!Gone
      BY <1>1, <2>1, <2>2, <2>4, Zenon DEF Shown, View!Gone, NoSnap
    <3>2. Shown(h) = View!Gone \/ Shown(h) = [stage |-> "absent", last |-> 0]
      BY <2>4, Zenon DEF Shown, View!Gone, NoSnap
    <3>3. [stage |-> "absent", last |-> 0] \in View!ViewRecord
      <4>1. 0 \in 0..MaxReports
        BY CustodyAssumption
      <4> QED
        BY <4>1, Zenon DEF View!ViewRecord
    <3>4. [stage |-> "absent", last |-> 0] # View!Gone
      BY DEF View!Gone
    <3>5. View!Forward([stage |-> "absent", last |-> 0], [stage |-> "absent", last |-> 0])
      <4>1. PICK a : a = [stage |-> "absent", last |-> 0]
        BY Zenon
      <4>2. a.last = 0 /\ a.stage = "absent" /\ 0 <= 0
        BY <4>1
      <4> QED
        BY <3>3, <3>4, <4>1, <4>2 DEF View!Forward
    <3>6. CASE Shown(h)' = View!Gone
      BY <3>6, Zenon DEF View!Forward
    <3>7. CASE Shown(h)' = Shown(h) /\ Shown(h) = [stage |-> "absent", last |-> 0]
      BY <3>5, <3>7, Zenon
    <3> QED
      BY <3>1, <3>2, <3>6, <3>7, Zenon
  <2>5. CASE rows[h] = NoRow /\ entries[h] # NoRec
    <3>1. Deleting(h)
      BY <2>3, <2>5 DEF Mirrors
    <3>2. On(h) # {} /\ phase[h] = "released"
      BY <3>1, <1>2, Zenon DEF Deleting, On, ReleaseRule
    <3>3. Shown(h)' = View!Gone
      BY <1>1, <2>1, <2>2, <2>5, <3>2, Zenon DEF Shown, View!Gone, NoSnap
    <3> QED
      BY <3>3 DEF View!Forward
  <2>6. CASE rows[h] # NoRow
    <3>1. rows[h] \in Row
      BY <1>1, <1>3, <2>6
    <3>2. /\ entries'[h].named = rows[h].named /\ entries'[h].last = snaps[h]
          /\ entries'[h].state \in Kinds
      BY <2>1, <2>6, <3>1 DEF Row
    <3>3. entries'[h] # NoRec
      BY <3>2 DEF NoRec, Kinds
    <3>4. Shown(h)' = [stage |-> IF rows[h].named THEN "taken" ELSE "reported", last |-> snaps[h]]
      BY <3>2, <3>3 DEF Shown
    <3>5. Shown(h)' \in View!ViewRecord
      BY <1>1, <1>3, <3>4 DEF View!ViewRecord
    <3>6. CASE entries[h] = NoRec
      <4>1. Shown(h) = [stage |-> "absent", last |-> 0]
        BY <2>6, <3>6, Zenon DEF Shown, NoSnap
      <4>2. Shown(h) # View!Gone /\ Shown(h).last = 0 /\ Shown(h).stage = "absent"
        BY <4>1 DEF View!Gone
      <4>3. Shown(h)'.last = snaps[h] /\ 0 <= snaps[h]
        BY <1>1, <1>3, <3>4
      <4> QED
        BY <3>5, <4>2, <4>3 DEF View!Forward
    <3>7. CASE entries[h] # NoRec
      <4>1. ~Deleting(h)
        BY <1>2, <2>6 DEF Deleting, ReleaseRule
      <4>2. (entries[h].named => rows[h].named) /\ entries[h].last <= snaps[h]
        <5>1. CASE Snapped(h)
          <6>1. PICK r \in Tasks : on[r] = h /\ op[r] = "report" /\ pc[r] = "mirror"
            BY <5>1 DEF Snapped
          <6>2. num[r] \in 0..MaxReports
            BY DEF CustodyInv, TaskType
          <6>3. snaps[h] = num[r] /\ entries[h].last < num[r]
            BY <1>2, <6>1, Zenon DEF ReportRule
          <6>4. entries[h].last \in 0..MaxReports
            BY <1>1, <1>3, <3>7 DEF CustodyRecord
          <6> QED
            BY <2>3, <3>7, <4>1, <6>2, <6>3, <6>4 DEF Mirrors
        <5>2. CASE ~Snapped(h)
          BY <1>1, <1>3, <2>3, <3>7, <4>1, <5>2 DEF Mirrors
        <5> QED
          BY <5>1, <5>2
      <4>3. Shown(h) = [stage |-> IF entries[h].named THEN "taken" ELSE "reported",
                        last |-> entries[h].last]
        BY <3>7 DEF Shown
      <4>4. Shown(h) # View!Gone
        BY <4>3 DEF View!Gone
      <4>5. /\ Shown(h).last <= Shown(h)'.last
            /\ Shown(h).stage = "reported" => Shown(h)'.stage # "absent"
            /\ Shown(h).stage = "taken" => Shown(h)'.stage = "taken"
        BY <3>4, <4>2, <4>3
      <4> QED
        BY <3>5, <4>4, <4>5 DEF View!Forward
    <3> QED
      BY <3>6, <3>7
  <2> QED
    BY <2>4, <2>5, <2>6, Zenon
<1>4. View!Boot
  BY <1>3 DEF View!Boot
<1> QED
  BY <1>4 DEF View!ViewNext

\* Every step of the ledger is a step of the view or a stutter.
LEMMA StepShows ==
    ASSUME CustodyInv, CustodyNext
    PROVE  View!ViewNext \/ UNCHANGED Shows
<1>1. CASE \E v \in Verbs, h \in Handles : take_custody(v, h)
  BY <1>1, WardenSteps, Zenon DEF take_custody, ledgerVars
<1>2. CASE \/ \E v \in Verbs, h \in Handles :
                course_correct(v, h) \/ course_correct_fast(v, h) \/ release_custody(v, h)
           \/ \E r \in Reporters, h \in Handles : report(r, h)
           \/ \E t \in Tasks : StoreFailure(t)
  BY <1>2, QuietSteps, Zenon DEF course_correct, course_correct_fast, release_custody, report,
     StoreFailure, ledgerVars
<1>3. ASSUME NEW t \in Tasks, NEW h \in Handles, h = on[t], op[t] # "none", Work(t)
      PROVE  View!ViewNext \/ UNCHANGED Shows
  <2>1. CASE TakeReturns(t) \/ ReleaseReturns(t)
    <3>1. /\ UNCHANGED <<entries, rows>>
          /\ \/ phase' = [phase EXCEPT ![h] = "lost"]
             \/ phase' = [phase EXCEPT ![h] = "released"]
             \/ UNCHANGED phase
      BY <1>3, <2>1, Zenon DEF TakeReturns, ReleaseReturns, ledgerVars
    <3> QED
      BY <3>1, WardenSteps
  <2>2. CASE \/ dispatch_correction_to_warden(t) \/ ReadForCustody(t)
             \/ upsert_custody_state(t) \/ EmitHappening(t)
    BY <2>2, QuietSteps, Zenon DEF dispatch_correction_to_warden, ReadForCustody,
       upsert_custody_state, EmitHappening, ledgerVars
  <2>3. CASE mark_custody_state(t) \/ delete_custody(t) \/ upsert_custody(t)
    BY <1>3, <2>3, MarkShows, DeleteShows, UpsertShows, Zenon
  <2>4. CASE Mirror(t)
    <3>1. op[t] \in {"take", "report", "correct", "release"}
      BY <1>3 DEF CustodyInv, TaskType
    <3> QED
      BY <1>3, <2>4, <3>1, MirrorTakeShows, MirrorReportShows, MirrorCorrectShows,
         MirrorReleaseShows, Zenon
  <2> QED
    BY <1>3, <2>1, <2>2, <2>3, <2>4, Zenon DEF Work
<1>4. CASE rehydrate_from
  BY <1>4, RestartShows
<1> QED
  BY <1>1, <1>2, <1>3, <1>4, StepKinds, Zenon

\* The ledger implements CustodyView: whatever verbs, reports, failing transactions and
\* boots interleave, the record of a custody moves forward only and never comes back.
THEOREM CustodyImplementsView ==
    ASSUME OneReader
    PROVE  CustodySpec => ImplementsView
<1>1. CustodyInit => View!ViewInit
  <2> SUFFICES ASSUME CustodyInit PROVE View!ViewInit
    OBVIOUS
  <2>1. \A h \in Handles : Shown(h) = View!Absent
    BY Zenon DEF CustodyInit, Shown, View!Absent, NoSnap
  <2> QED
    BY <2>1 DEF View!ViewInit
<1>2. CustodyInv /\ [CustodyNext]_custodyVars => [View!ViewNext]_Shows
  <2>1. ASSUME UNCHANGED custodyVars PROVE UNCHANGED Shows
    BY <2>1, QuietSteps DEF custodyVars, ledgerVars
  <2> QED
    BY <2>1, StepShows
<1> QED
  BY <1>1, <1>2, CustodyInvariant, PTL DEF CustodySpec, ImplementsView, View!ViewSpec, Shows
=============================================================================
