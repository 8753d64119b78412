---------------------------- MODULE CustodyRules ----------------------------
(***************************************************************************)
(* The inductive invariant of CustodyLedger, for any handles, verbs and    *)
(* bounds.  It assumes a warden on the wire, with its one reader loop, and *)
(* consumers that use a handle only after take_custody has returned it.    *)
(* The router's calls, the wardens' answers and reports, the writes to the *)
(* tables and a task that ends early keep it.                              *)
(***************************************************************************)
EXTENDS CustodyLedger, TLAPS

Steps == {"idle", "call", "read", "row", "snap", "mirror", "emit"}

LedgerType ==
    /\ entries \in [Handles -> CustodyRecord \cup {NoRec}]
    /\ rows \in [Handles -> Row \cup {NoRow}]
    /\ snaps \in [Handles -> 0..MaxReports]
    /\ phase \in [Handles -> {"new", "held", "released", "lost"}]
    /\ handed \subseteq Handles
    /\ reports \in 0..MaxReports

TaskType ==
    /\ pc \in [Tasks -> Steps]
    /\ op \in [Tasks -> {"none", "take", "correct", "release", "report"}]
    /\ on \in [Tasks -> Handles \cup {NoHandle}]
    /\ img \in [Tasks -> Row \cup {NoRow}]
    /\ num \in [Tasks -> 0..MaxReports]

\* A task is idle, a verb's or the reader's, at a step its operation has.
Shape(t) ==
    /\ (pc[t] = "idle") = (op[t] = "none")
    /\ (op[t] = "none") = (on[t] = NoHandle)
    /\ t \in Verbs => op[t] # "report"
    /\ t \in Reporters => op[t] \in {"none", "report"}
    /\ pc[t] = "read" => op[t] = "take"
    /\ pc[t] = "snap" => op[t] = "report"
    /\ pc[t] = "row" /\ op[t] \in {"take", "report"} => img[t] \in Row

\* Nobody else takes a custody that is being taken; a release comes after the take has
\* returned and after the reports before it.
TakeRule(t) ==
    op[t] = "take" =>
        /\ on[t] \notin handed /\ phase[on[t]] = "held"
        /\ pc[t] = "row" => img[t].named
        /\ pc[t] = "mirror" => rows[on[t]] # NoRow /\ rows[on[t]].named
TakesAlone(t) ==
    op[t] = "take" => \A u \in Tasks : op[u] = "take" /\ on[u] = on[t] => u = t
ReleaseRule(t) ==
    op[t] = "release" =>
        /\ on[t] \in handed
        /\ pc[t] # "call" => phase[on[t]] = "released"
        /\ pc[t] = "mirror" => rows[on[t]] = NoRow
ReportRule(t) ==
    op[t] = "report" =>
        /\ phase[on[t]] = "held" /\ num[t] \in 1..reports
        /\ pc[t] \in {"row", "snap"} => snaps[on[t]] < num[t]
        /\ pc[t] = "mirror" =>
             rows[on[t]] # NoRow /\ snaps[on[t]] = num[t] /\ entries[on[t]].last < num[t]

Rules(t) == Shape(t) /\ TakeRule(t) /\ TakesAlone(t) /\ ReleaseRule(t) /\ ReportRule(t)

Deleting(h) == \E t \in Tasks : on[t] = h /\ op[t] = "release" /\ pc[t] = "mirror"
Releasing(h) == \E t \in Tasks : on[t] = h /\ op[t] = "release" /\ pc[t] \in {"row", "mirror"}
Snapped(h) == \E t \in Tasks : on[t] = h /\ op[t] = "report" /\ pc[t] = "mirror"

\* Between the two halves of a write the table leads; otherwise mirror and table agree.
Mirrors(h) ==
    /\ rows[h] = NoRow => snaps[h] = NoSnap
    /\ snaps[h] <= reports
    /\ ~Deleting(h) /\ entries[h] # NoRec =>
         rows[h] # NoRow /\ (entries[h].named => rows[h].named)
    /\ ~Deleting(h) /\ ~Snapped(h) => entries[h].last = snaps[h]
Vanishes(h) ==
    ~failed /\ h \notin cut /\ phase[h] = "released" =>
        Releasing(h) \/ (entries[h] = NoRec /\ rows[h] = NoRow)
HandedOnce(h) == h \in handed => phase[h] # "new"

Settled(h) == Mirrors(h) /\ Vanishes(h) /\ HandedOnce(h)

CustodyInv ==
    /\ LedgerType
    /\ TaskType
    /\ \A t \in Tasks : Rules(t)
    /\ \A h \in Handles : Settled(h)

\* One reader loop, on the wire; consumers wait for the handle.
OneReader == Wire /\ ~EarlyUse /\ \A r, q \in Reporters : r = q

-----------------------------------------------------------------------------
(* A step is one task's, about one handle. *)

\* The task t may move; the others stay.
Moves(t) ==
    \A u \in Tasks : u # t =>
        pc'[u] = pc[u] /\ op'[u] = op[u] /\ on'[u] = on[u] /\ img'[u] = img[u] /\ num'[u] = num[u]

\* Handle k is left alone.
Kept(k) ==
    /\ entries'[k] = entries[k] /\ rows'[k] = rows[k] /\ snaps'[k] = snaps[k]
    /\ phase'[k] = phase[k] /\ (k \in handed') = (k \in handed)

\* A step that writes the row of one handle and nothing else of the ledger.
LEMMA RowWritten ==
    ASSUME LedgerType, UNCHANGED <<entries, snaps, phase, handed, reports>>, NEW h \in Handles,
           rows' \in [Handles -> Row \cup {NoRow}],
           \A k \in Handles : k # h => rows'[k] = rows[k]
    PROVE  LedgerType' /\ reports <= reports' /\ \A k \in Handles : k # h => Kept(k)
<1>1. entries' = entries /\ snaps' = snaps /\ phase' = phase /\ handed' = handed /\ reports' = reports
  OBVIOUS
<1>2. LedgerType'
  BY <1>1, Zenon DEF LedgerType
<1>3. \A k \in Handles : k # h => Kept(k)
  BY <1>1, Zenon DEF Kept
<1>4. reports \in 0..MaxReports
  BY Zenon DEF LedgerType
<1>5. reports <= reports'
  BY <1>1, <1>4, CustodyAssumption
<1> QED
  BY <1>2, <1>3, <1>5, Zenon

\* Goto changes the step of one task.
LEMMA GotoFacts ==
    ASSUME TaskType, NEW t \in Tasks, NEW s \in Steps, Goto(t, s)
    PROVE  /\ TaskType' /\ Moves(t)
           /\ pc'[t] = s /\ op'[t] = op[t] /\ on'[t] = on[t]
           /\ img'[t] = img[t] /\ num'[t] = num[t]
BY DEF TaskType, Moves, Goto

\* Done makes one task idle.
LEMMA DoneFacts ==
    ASSUME TaskType, NEW t \in Tasks, Done(t)
    PROVE  /\ TaskType' /\ Moves(t) /\ Rules(t)'
           /\ pc'[t] = "idle" /\ op'[t] = "none" /\ on'[t] = NoHandle
<1>1. /\ TaskType' /\ Moves(t)
      /\ pc'[t] = "idle" /\ op'[t] = "none" /\ on'[t] = NoHandle
  BY CustodyAssumption DEF TaskType, Moves, Done, Steps
<1>2. Shape(t)'
  BY <1>1 DEF Shape
<1>3. op'[t] = "none"
  BY <1>1
<1> QED
  BY <1>1, <1>2, <1>3 DEF Rules, TakeRule, TakesAlone, ReleaseRule, ReportRule

\* A running task has a handle.
LEMMA HandleOf ==
    ASSUME TaskType, NEW t \in Tasks, Shape(t), op[t] # "none"
    PROVE  on[t] \in Handles
BY DEF TaskType, Shape

\* Writes in progress stay so as long as the task that moves is not in one.
LEMMA StillDeleting ==
    ASSUME NEW t \in Tasks, NEW h, Moves(t), ~(op[t] = "release" /\ pc[t] = "mirror" /\ on[t] = h)
    PROVE  Deleting(h) => Deleting(h)'
BY DEF Moves, Deleting

LEMMA StillSnapped ==
    ASSUME NEW t \in Tasks, NEW h, Moves(t), ~(op[t] = "report" /\ pc[t] = "mirror" /\ on[t] = h)
    PROVE  Snapped(h) => Snapped(h)'
BY DEF Moves, Snapped

LEMMA StillReleasing ==
    ASSUME NEW t \in Tasks, NEW h, Moves(t),
           ~(op[t] = "release" /\ pc[t] \in {"row", "mirror"} /\ on[t] = h)
    PROVE  Releasing(h) => Releasing(h)'
BY DEF Moves, Releasing

\* A task that stays on a handle that is left alone keeps its rules but the one about
\* other tasks.
LEMMA RulesKept ==
    ASSUME NEW t \in Tasks, NEW u \in Tasks, u # t, Moves(t), Rules(u), Kept(on[u]),
           reports \in Nat, reports' \in Nat, reports <= reports'
    PROVE  Shape(u)' /\ TakeRule(u)' /\ ReleaseRule(u)' /\ ReportRule(u)'
<1>1. /\ pc'[u] = pc[u] /\ op'[u] = op[u] /\ on'[u] = on[u] /\ img'[u] = img[u]
      /\ num'[u] = num[u]
  BY DEF Moves
<1>2. Shape(u) /\ TakeRule(u) /\ ReleaseRule(u) /\ ReportRule(u)
  BY DEF Rules
<1>3. Shape(u)'
  BY <1>1, <1>2 DEF Shape
<1>4. TakeRule(u)'
  BY <1>1, <1>2 DEF TakeRule, Kept
<1>5. ReleaseRule(u)'
  BY <1>1, <1>2 DEF ReleaseRule, Kept
<1>6. ReportRule(u)'
  BY <1>1, <1>2 DEF ReportRule, Kept
<1> QED
  BY <1>3, <1>4, <1>5, <1>6

\* A handle that is left alone, and that t is not about, stays settled.
LEMMA SettledKept ==
    ASSUME NEW t \in Tasks, NEW k \in Handles, Moves(t), Settled(k), Kept(k),
           on[t] # k, on'[t] # k, snaps[k] \in Nat,
           reports \in Nat, reports' \in Nat, reports <= reports', failed => failed', cut' = cut
    PROVE  Settled(k)'
<1>1. Deleting(k)' => Deleting(k)
  BY DEF Deleting, Moves
<1>2. Snapped(k)' => Snapped(k)
  BY DEF Snapped, Moves
<1>3. Deleting(k) => Deleting(k)'
  BY StillDeleting
<1>4. Snapped(k) => Snapped(k)'
  BY StillSnapped
<1>5. Releasing(k) => Releasing(k)'
  BY StillReleasing
<1>6. Mirrors(k)'
  BY <1>1, <1>2, <1>3, <1>4 DEF Settled, Mirrors, Kept
<1>7. Vanishes(k)'
  BY <1>5 DEF Settled, Vanishes, Kept
<1> QED
  BY <1>6, <1>7 DEF Settled, HandedOnce, Kept

\* A step of task t about handle h: the rules of the tasks on other handles and the state
\* of other handles stay as they were.
LEMMA OneStep ==
    ASSUME CustodyInv, LedgerType', TaskType', NEW t \in Tasks, NEW h \in Handles, Moves(t),
           on[t] \in {h, NoHandle}, on'[t] \in {h, NoHandle},
           \A k \in Handles : k # h => Kept(k),
           reports <= reports', failed => failed', cut' = cut,
           Rules(t)', Settled(h)',
           op'[t] = "take" => op[t] = "take" \/ \A u \in Tasks : ~(op[u] = "take" /\ on[u] = h),
           \A u \in Tasks : u # t /\ on[u] = h => TakeRule(u)' /\ ReleaseRule(u)' /\ ReportRule(u)'
    PROVE  CustodyInv'
<1>0. NoHandle \notin Handles /\ reports \in Nat /\ reports' \in Nat
  BY CustodyAssumption DEF CustodyInv, LedgerType
<1>1. \A k \in Handles : Settled(k) /\ snaps[k] \in Nat
  BY DEF CustodyInv, LedgerType
<1>2. \A u \in Tasks : Rules(u)
  BY DEF CustodyInv
<1>3. ASSUME NEW k \in Handles, k # h PROVE Settled(k)'
  BY <1>0, <1>1, <1>3, SettledKept
<1>4. ASSUME NEW u \in Tasks, u # t PROVE Rules(u)'
  <2>1. /\ pc'[u] = pc[u] /\ op'[u] = op[u] /\ on'[u] = on[u] /\ img'[u] = img[u]
    BY <1>4 DEF Moves
  <2>2. Shape(u)'
    <3>1. Shape(u)
      BY <1>2, Zenon DEF Rules
    <3> QED
      BY <2>1, <3>1, Zenon DEF Shape
  <2>3. TakesAlone(u)'
    <3>1. TakesAlone(u) /\ TakesAlone(t)
      BY <1>2 DEF Rules
    <3>2. op[t] = "take" => on[t] = h
      <4>1. Shape(t)
        BY <1>2 DEF Rules
      <4> QED
        BY <4>1 DEF Shape
    <3>3. ASSUME NEW w \in Tasks, op'[u] = "take", op'[w] = "take", on'[w] = on'[u]
          PROVE  w = u
      <4>1. CASE w # t
        BY <2>1, <3>1, <3>3, <4>1 DEF TakesAlone, Moves
      <4>2. CASE w = t
        <5>1. on'[t] = h
          <6>1. Shape(t)'
            BY DEF Rules
          <6> QED
            BY <3>3, <4>2, <6>1 DEF Shape
        <5> QED
          BY <1>4, <2>1, <3>1, <3>2, <3>3, <4>2, <5>1, Zenon DEF TakesAlone
      <4> QED
        BY <4>1, <4>2
    <3> QED
      BY <3>3 DEF TakesAlone
  <2>4. TakeRule(u)' /\ ReleaseRule(u)' /\ ReportRule(u)'
    <3>1. CASE on[u] \in Handles /\ on[u] # h
      BY <1>0, <1>2, <1>4, <3>1, RulesKept
    <3>2. CASE on[u] \notin Handles
      <4>1. TaskType /\ Shape(u)
        BY <1>2 DEF CustodyInv, Rules
      <4>2. op'[u] = "none"
        BY <2>1, <3>2, <4>1, HandleOf
      <4> QED
        BY <4>2 DEF TakeRule, ReleaseRule, ReportRule
    <3> QED
      BY <1>4, <3>1, <3>2
  <2> QED
    BY <2>2, <2>3, <2>4 DEF Rules
<1> QED
  BY <1>3, <1>4 DEF CustodyInv

\* A task that ends outside its write, begins a correction or a release, or has its
\* handle and reads for it, changes neither ledger nor warden; a release may end between
\* the warden and the table only because a transaction failed.
LEMMA Quiet ==
    ASSUME CustodyInv, TaskType', NEW t \in Tasks, NEW h \in Handles, Moves(t),
           on[t] \in {h, NoHandle}, on'[t] \in {h, NoHandle}, Shape(t)', pc[t] # "mirror",
           UNCHANGED <<entries, rows, snaps, phase, handed, reports>>,
           \/ op'[t] \in {"none", "correct"}
           \/ op'[t] = "release" /\ pc'[t] = "call" /\ on'[t] = h /\ h \in handed
           \/ /\ op'[t] = "take" /\ op[t] = "take" /\ on'[t] = on[t]
              /\ pc'[t] = "read" \/ (pc'[t] = "row" /\ img'[t].named),
           failed => failed', cut' = cut,
           pc[t] = "row" /\ op[t] = "release" => failed'
    PROVE  CustodyInv'
<1>1. (\A u \in Tasks : Rules(u)) /\ Settled(h)
  BY DEF CustodyInv
<1>2. LedgerType' /\ reports <= reports' /\ reports \in Nat
  BY DEF CustodyInv, LedgerType
<1>3. \A k : Kept(k)
  BY DEF Kept
<1>4. ASSUME NEW u \in Tasks, u # t PROVE TakeRule(u)' /\ ReleaseRule(u)' /\ ReportRule(u)'
  BY <1>1, <1>2, <1>3, <1>4, RulesKept
<1>5. Rules(t)'
  <2>1. TakeRule(t) /\ TakesAlone(t)
    BY <1>1 DEF Rules
  <2>2. TakeRule(t)'
    BY <2>1 DEF TakeRule
  <2>3. TakesAlone(t)'
    BY <2>1 DEF TakesAlone, Moves
  <2>4. ReleaseRule(t)' /\ ReportRule(t)'
    BY DEF ReleaseRule, ReportRule
  <2> QED
    BY <2>2, <2>3, <2>4 DEF Rules
<1>6. Settled(h)'
  <2>1. Mirrors(h) /\ Vanishes(h) /\ HandedOnce(h)
    BY <1>1, Zenon DEF Settled
  <2>2. Deleting(h) => Deleting(h)'
    BY StillDeleting
  <2>3. Snapped(h) => Snapped(h)'
    BY StillSnapped
  <2>4. Mirrors(h)'
    BY <2>1, <2>2, <2>3 DEF Mirrors
  <2>5. Releasing(h) => failed' \/ Releasing(h)'
    BY StillReleasing, Zenon
  <2>6. Vanishes(h)' /\ HandedOnce(h)'
    BY <2>1, <2>5 DEF Vanishes, HandedOnce
  <2> QED
    BY <2>4, <2>6 DEF Settled
<1> QED
  BY <1>2, <1>3, <1>4, <1>5, <1>6, OneStep, Zenon

\* Call makes an idle verb busy.
LEMMA CallFacts ==
    ASSUME CustodyInv, NEW v \in Verbs, NEW h \in Handles,
           NEW verb \in {"take", "correct", "release"}, Call(v, verb, h)
    PROVE  /\ v \in Tasks /\ TaskType' /\ Moves(v) /\ Shape(v)'
           /\ pc[v] = "idle" /\ op[v] = "none" /\ on[v] = NoHandle
           /\ pc'[v] = "call" /\ op'[v] = verb /\ on'[v] = h
<1>1. v \in Tasks /\ v \notin Reporters /\ NoHandle \notin Handles
  BY CustodyAssumption DEF Tasks
<1>2. TaskType /\ Shape(v)
  BY <1>1 DEF CustodyInv, Rules
<1>3. /\ TaskType' /\ Moves(v)
      /\ pc[v] = "idle" /\ pc'[v] = "call" /\ op'[v] = verb /\ on'[v] = h
  BY <1>1, <1>2 DEF Call, At, TaskType, Moves, Steps
<1>4. op[v] = "none" /\ on[v] = NoHandle
  BY <1>2, <1>3 DEF Shape
<1>5. Shape(v)'
  BY <1>1, <1>3 DEF Shape
<1> QED
  BY <1>1, <1>3, <1>4, <1>5

\* take_custody: no task takes, releases or reports on a handle the warden has not
\* handed out.
LEMMA TakeKeeps ==
    ASSUME CustodyInv, NEW v \in Verbs, NEW h \in Handles, take_custody(v, h)
    PROVE  CustodyInv'
<1>1. /\ v \in Tasks /\ TaskType' /\ Moves(v) /\ Shape(v)'
      /\ op[v] = "none" /\ on[v] = NoHandle
      /\ pc'[v] = "call" /\ op'[v] = "take" /\ on'[v] = h
  BY CallFacts DEF take_custody
<1>2. /\ phase[h] = "new" /\ phase' = [phase EXCEPT ![h] = "held"]
      /\ UNCHANGED <<entries, rows, snaps, handed, reports, failed, cut>>
  BY DEF take_custody, ledgerVars
<1>3. (\A u \in Tasks : Rules(u)) /\ Settled(h) /\ LedgerType
  BY DEF CustodyInv
<1>4. /\ LedgerType' /\ reports <= reports' /\ phase'[h] = "held"
      /\ \A k \in Handles : k # h => Kept(k)
  BY <1>2, <1>3 DEF LedgerType, Kept
<1>5. h \notin handed
  BY <1>2, <1>3 DEF Settled, HandedOnce
<1>6. ASSUME NEW u \in Tasks, on[u] = h PROVE op[u] \in {"none", "correct"}
  <2>1. TakeRule(u) /\ ReleaseRule(u) /\ ReportRule(u) /\ TaskType
    BY <1>3 DEF Rules, CustodyInv
  <2> QED
    BY <1>2, <1>5, <1>6, <2>1 DEF TakeRule, ReleaseRule, ReportRule, TaskType
<1>7. Rules(v)'
  <2>1. TakeRule(v)'
    BY <1>1, <1>2, <1>4, <1>5 DEF TakeRule
  <2>2. TakesAlone(v)'
    BY <1>1, <1>6 DEF TakesAlone, Moves
  <2>3. ReleaseRule(v)' /\ ReportRule(v)'
    BY <1>1 DEF ReleaseRule, ReportRule
  <2> QED
    BY <1>1, <2>1, <2>2, <2>3 DEF Rules
<1>8. ASSUME NEW u \in Tasks, u # v, on[u] = h
      PROVE  TakeRule(u)' /\ ReleaseRule(u)' /\ ReportRule(u)'
  <2>1. op'[u] \in {"none", "correct"}
    BY <1>1, <1>6, <1>8, Zenon DEF Moves
  <2> QED
    BY <2>1 DEF TakeRule, ReleaseRule, ReportRule
<1>9. Settled(h)'
  <2>1. Mirrors(h)
    BY <1>3 DEF Settled
  <2>2. (Deleting(h) => Deleting(h)') /\ (Snapped(h) => Snapped(h)')
    BY <1>1, StillDeleting, StillSnapped
  <2>3. Mirrors(h)'
    BY <1>2, <2>1, <2>2 DEF Mirrors
  <2> QED
    BY <1>4, <2>3 DEF Settled, Vanishes, HandedOnce
<1> QED
  BY <1>1, <1>2, <1>4, <1>6, <1>7, <1>8, <1>9, OneStep

\* course_correct, course_correct_fast and release_custody write nothing yet; the caller
\* of a release has the handle from take_custody.
LEMMA CallKeeps ==
    ASSUME OneReader, CustodyInv, NEW v \in Verbs, NEW h \in Handles,
           course_correct(v, h) \/ course_correct_fast(v, h) \/ release_custody(v, h)
    PROVE  CustodyInv'
<1>1. /\ h \in handed /\ \E verb \in {"correct", "release"} : Call(v, verb, h)
      /\ UNCHANGED <<entries, rows, snaps, phase, handed, reports, failed, cut>>
  BY DEF course_correct, course_correct_fast, release_custody, Known, OneReader, ledgerVars
<1>2. PICK verb \in {"correct", "release"} : Call(v, verb, h)
  BY <1>1
<1>3. /\ v \in Tasks /\ TaskType' /\ Moves(v) /\ Shape(v)'
      /\ pc[v] = "idle" /\ on[v] = NoHandle
      /\ pc'[v] = "call" /\ op'[v] = verb /\ on'[v] = h
  BY <1>2, CallFacts, Zenon
<1> QED
  BY <1>1, <1>3, Quiet

-----------------------------------------------------------------------------
\* A verb that runs is no report and has a handle.
LEMMA VerbAt ==
    ASSUME CustodyInv, NEW v \in Verbs, op[v] # "none"
    PROVE  v \in Tasks /\ v \notin Reporters /\ TaskType /\ Rules(v) /\ on[v] \in Handles
<1>1. v \in Tasks /\ v \notin Reporters
  BY CustodyAssumption DEF Tasks
<1>2. TaskType /\ Rules(v) /\ Shape(v)
  BY <1>1 DEF CustodyInv, Rules
<1> QED
  BY <1>1, <1>2, HandleOf

\* take_custody's answer: the handle, which is recorded next.
LEMMA TakeReturnsKeeps ==
    ASSUME CustodyInv, NEW v \in Verbs, TakeReturns(v), Goto(v, "read"), UNCHANGED phase
    PROVE  CustodyInv'
<1>1. /\ pc[v] = "call" /\ op[v] = "take"
      /\ UNCHANGED <<entries, rows, snaps, phase, handed, reports, failed, cut>>
  BY Zenon DEF TakeReturns, At, ledgerVars
<1>2. v \in Tasks /\ v \notin Reporters /\ TaskType /\ Shape(v) /\ on[v] \in Handles
  BY <1>1, VerbAt, Zenon DEF Rules
<1>3. /\ TaskType' /\ Moves(v)
      /\ pc'[v] = "read" /\ op'[v] = op[v] /\ on'[v] = on[v]
  BY <1>2, GotoFacts, Zenon DEF Steps
<1>4. Shape(v)'
  BY <1>1, <1>2, <1>3, Zenon DEF Shape
<1> QED
  BY <1>1, <1>2, <1>3, <1>4, Quiet, Zenon

\* When the reader loop is between frames nobody reports.
LEMMA NobodyReports ==
    ASSUME OneReader, CustodyInv, ReplyRead, NEW u \in Tasks
    PROVE  op[u] # "report"
<1>1. Shape(u)
  BY DEF CustodyInv, Rules
<1>2. u \in Reporters => pc[u] = "idle"
  BY DEF ReplyRead, OneReader, At
<1> QED
  BY <1>1, <1>2 DEF Shape, Tasks

\* take_custody's refusal: the handle is lost to everybody.
LEMMA TakeRefusedKeeps ==
    ASSUME OneReader, CustodyInv, NEW v \in Verbs, NEW h \in Handles, h = on[v],
           TakeReturns(v), Done(v), phase' = [phase EXCEPT ![h] = "lost"]
    PROVE  CustodyInv'
<1>1. /\ op[v] = "take" /\ pc[v] = "call" /\ ReplyRead
      /\ UNCHANGED <<entries, rows, snaps, handed, reports, failed, cut>>
  BY DEF TakeReturns, At, ledgerVars
<1>2. /\ LedgerType /\ TaskType /\ (\A u \in Tasks : Rules(u)) /\ Settled(h)
      /\ v \in Tasks
  BY DEF CustodyInv, Tasks
<1>3. phase[h] = "held" /\ h \notin handed
  <2>1. TakeRule(v)
    BY <1>2 DEF Rules
  <2> QED
    BY <1>1, <2>1 DEF TakeRule
<1>4. /\ LedgerType' /\ reports <= reports' /\ phase'[h] = "lost"
      /\ \A k \in Handles : k # h => Kept(k)
  <2>1. /\ phase' \in [Handles -> {"new", "held", "released", "lost"}] /\ phase'[h] = "lost"
        /\ \A k \in Handles : k # h => phase'[k] = phase[k]
    BY <1>1, <1>2, Zenon DEF LedgerType
  <2>2. reports' = reports /\ reports <= reports
    BY <1>1, <1>2 DEF LedgerType
  <2> QED
    BY <1>1, <1>2, <2>1, <2>2, Zenon DEF LedgerType, Kept
<1>5. TaskType' /\ Moves(v) /\ Rules(v)' /\ op'[v] = "none" /\ on'[v] = NoHandle
  BY <1>2, DoneFacts, Zenon
<1>6. ASSUME NEW u \in Tasks, u # v, on[u] = h
      PROVE  TakeRule(u)' /\ ReleaseRule(u)' /\ ReportRule(u)'
  <2>1. op[u] # "report"
    BY <1>1, NobodyReports
  <2>2. op[u] # "release"
    BY <1>2, <1>3, <1>6 DEF Rules, ReleaseRule
  <2>3. op[u] # "take"
    BY <1>1, <1>2, <1>6, Zenon DEF Rules, TakesAlone
  <2>4. op'[u] \notin {"take", "release", "report"}
    BY <1>5, <1>6, <2>1, <2>2, <2>3, Zenon DEF Moves
  <2> QED
    BY <2>4 DEF TakeRule, ReleaseRule, ReportRule
<1>7. Settled(h)'
  <2>1. Mirrors(h)
    BY <1>2 DEF Settled
  <2>2. (Deleting(h) => Deleting(h)') /\ (Snapped(h) => Snapped(h)')
    BY <1>1, <1>2, <1>5, StillDeleting, StillSnapped, Zenon
  <2>3. Mirrors(h)'
    BY <1>1, <2>1, <2>2, Zenon DEF Mirrors
  <2> QED
    BY <1>4, <2>3 DEF Settled, Vanishes, HandedOnce
<1> QED
  BY <1>1, <1>2, <1>4, <1>5, <1>6, <1>7, OneStep, Zenon

\* The warden has let go: the row is deleted next.
LEMMA ReleaseReturnsKeeps ==
    ASSUME OneReader, CustodyInv, NEW v \in Verbs, NEW h \in Handles, h = on[v],
           ReleaseReturns(v), ReplyRead, phase[h] = "held", Goto(v, "row"),
           phase' = [phase EXCEPT ![h] = "released"]
    PROVE  CustodyInv'
<1>1. /\ op[v] = "release" /\ pc[v] = "call" /\ ReplyRead /\ phase[h] = "held"
      /\ Goto(v, "row") /\ phase' = [phase EXCEPT ![h] = "released"]
      /\ UNCHANGED <<entries, rows, snaps, handed, reports, failed, cut>>
  BY Zenon DEF ReleaseReturns, At, ledgerVars
<1>2. LedgerType /\ (\A u \in Tasks : Rules(u)) /\ Settled(h)
  BY DEF CustodyInv
<1>3. v \in Tasks /\ v \notin Reporters /\ TaskType /\ Shape(v) /\ ReleaseRule(v)
  BY <1>1, VerbAt, Zenon DEF Rules
<1>4. h \in handed
  BY <1>1, <1>3 DEF ReleaseRule
<1>5. /\ LedgerType' /\ reports <= reports' /\ phase'[h] = "released"
      /\ \A k \in Handles : k # h => Kept(k)
  <2>1. /\ phase' \in [Handles -> {"new", "held", "released", "lost"}] /\ phase'[h] = "released"
        /\ \A k \in Handles : k # h => phase'[k] = phase[k]
    BY <1>1, <1>2, Zenon DEF LedgerType
  <2>2. reports' = reports /\ reports <= reports
    BY <1>1, <1>2 DEF LedgerType
  <2> QED
    BY <1>1, <1>2, <2>1, <2>2, Zenon DEF LedgerType, Kept
<1>6. /\ TaskType' /\ Moves(v)
      /\ pc'[v] = "row" /\ op'[v] = "release" /\ on'[v] = h
  BY <1>1, <1>3, GotoFacts, Zenon DEF Steps
<1>7. Rules(v)'
  <2>1. Shape(v)'
    BY <1>1, <1>3, <1>6, Zenon DEF Shape
  <2>2. ReleaseRule(v)'
    BY <1>1, <1>4, <1>5, <1>6, Zenon DEF ReleaseRule
  <2>3. TakeRule(v)' /\ TakesAlone(v)' /\ ReportRule(v)'
    BY <1>6, Zenon DEF TakeRule, TakesAlone, ReportRule
  <2> QED
    BY <2>1, <2>2, <2>3, Zenon DEF Rules
<1>8. ASSUME NEW u \in Tasks, u # v, on[u] = h
      PROVE  TakeRule(u)' /\ ReleaseRule(u)' /\ ReportRule(u)'
  <2>1. op[u] # "report"
    BY <1>1, NobodyReports
  <2>2. op[u] # "take"
    BY <1>2, <1>4, <1>8, Zenon DEF Rules, TakeRule
  <2>3. op'[u] = op[u] /\ pc'[u] = pc[u] /\ on'[u] = h
    BY <1>6, <1>8, Zenon DEF Moves
  <2>4. ReleaseRule(u)
    BY <1>2 DEF Rules
  <2>5. ReleaseRule(u)'
    BY <1>1, <1>5, <1>8, <2>3, <2>4 DEF ReleaseRule
  <2> QED
    BY <2>1, <2>2, <2>3, <2>5, Zenon DEF TakeRule, ReportRule
<1>9. Settled(h)'
  <2>1. Mirrors(h) /\ HandedOnce(h)
    BY <1>2 DEF Settled
  <2>2. (Deleting(h) => Deleting(h)') /\ (Snapped(h) => Snapped(h)')
    BY <1>1, <1>3, <1>6, StillDeleting, StillSnapped, Zenon
  <2>3. Mirrors(h)'
    BY <1>1, <2>1, <2>2, Zenon DEF Mirrors
  <2>4. Releasing(h)'
    BY <1>3, <1>6 DEF Releasing
  <2> QED
    BY <1>5, <2>3, <2>4 DEF Settled, Vanishes, HandedOnce
<1> QED
  BY <1>1, <1>3, <1>5, <1>6, <1>7, <1>8, <1>9, OneStep, Zenon

\* The warden errs on a release, or answers a correction, or a correction fails: nothing
\* is written yet.
LEMMA AnswerKeeps ==
    ASSUME CustodyInv, NEW v \in Verbs,
           \/ ReleaseReturns(v) /\ Done(v) /\ UNCHANGED phase
           \/ dispatch_correction_to_warden(v)
    PROVE  CustodyInv'
<1>1. /\ pc[v] = "call" /\ op[v] \in {"correct", "release"}
      /\ Done(v) \/ (op[v] = "correct" /\ Goto(v, "row"))
      /\ UNCHANGED <<entries, rows, snaps, phase, handed, reports, failed, cut>>
  BY Zenon DEF ReleaseReturns, dispatch_correction_to_warden, At, ledgerVars
<1>2. v \in Tasks /\ v \notin Reporters /\ TaskType /\ Shape(v) /\ on[v] \in Handles
  BY <1>1, VerbAt, Zenon DEF Rules
<1>3. CASE Done(v)
  <2>1. TaskType' /\ Moves(v) /\ Shape(v)' /\ op'[v] = "none" /\ on'[v] = NoHandle
    BY <1>2, <1>3, DoneFacts, Zenon DEF Rules
  <2> QED
    BY <1>1, <1>2, <2>1, Quiet, Zenon
<1>4. CASE op[v] = "correct" /\ Goto(v, "row")
  <2>1. /\ TaskType' /\ Moves(v)
        /\ pc'[v] = "row" /\ op'[v] = "correct" /\ on'[v] = on[v]
    BY <1>2, <1>4, GotoFacts, Zenon DEF Steps
  <2>2. Shape(v)'
    BY <1>2, <1>4, <2>1, Zenon DEF Shape
  <2> QED
    BY <1>1, <1>2, <2>1, <2>2, Quiet, Zenon
<1> QED
  BY <1>1, <1>3, <1>4, Zenon

\* record_custody reads the state kind before it writes.
LEMMA ReadKeeps ==
    ASSUME CustodyInv, NEW v \in Verbs, ReadForCustody(v)
    PROVE  CustodyInv'
<1>1. /\ pc[v] = "read" /\ pc' = [pc EXCEPT ![v] = "row"]
      /\ img' = [img EXCEPT ![v] = [named |-> TRUE, state |-> Seen(on[v]).state]]
      /\ UNCHANGED <<op, on, num>>
      /\ UNCHANGED <<entries, rows, snaps, phase, handed, reports, failed, cut>>
  BY DEF ReadForCustody, At, ledgerVars
<1>2. op[v] = "take"
  <2>1. Shape(v)
    BY DEF CustodyInv, Rules, Tasks
  <2> QED
    BY <1>1, <2>1, Zenon DEF Shape
<1>3. v \in Tasks /\ v \notin Reporters /\ TaskType /\ Shape(v) /\ on[v] \in Handles
  BY <1>2, VerbAt DEF Rules
<1>4. Seen(on[v]).state \in Kinds
  <2>1. entries[on[v]] \in CustodyRecord \cup {NoRec}
    BY <1>3 DEF CustodyInv, LedgerType
  <2> QED
    BY <2>1 DEF Seen, CustodyRecord, Kinds
<1>5. [named |-> TRUE, state |-> Seen(on[v]).state] \in Row
  BY <1>4 DEF Row
<1>6. /\ TaskType' /\ Moves(v) /\ pc'[v] = "row" /\ op'[v] = op[v] /\ on'[v] = on[v]
      /\ img'[v] \in Row /\ img'[v].named
  BY <1>1, <1>3, <1>5 DEF TaskType, Moves, Steps
<1>7. Shape(v)'
  BY <1>2, <1>3, <1>6, Zenon DEF Shape
<1> QED
  BY <1>1, <1>2, <1>3, <1>6, <1>7, Quiet, Zenon

\* A running task with its handle and its rules.
LEMMA TaskAt ==
    ASSUME CustodyInv, NEW t \in Tasks, op[t] # "none"
    PROVE  /\ on[t] \in Handles /\ TaskType /\ LedgerType
           /\ Shape(t) /\ TakeRule(t) /\ TakesAlone(t) /\ ReleaseRule(t) /\ ReportRule(t)
           /\ Mirrors(on[t]) /\ Vanishes(on[t]) /\ HandedOnce(on[t])
<1>1. /\ TaskType /\ LedgerType
      /\ Shape(t) /\ TakeRule(t) /\ TakesAlone(t) /\ ReleaseRule(t) /\ ReportRule(t)
  BY DEF CustodyInv, Rules
<1>2. on[t] \in Handles
  BY <1>1, HandleOf
<1> QED
  BY <1>1, <1>2, Zenon DEF CustodyInv, Settled

\* Nobody deletes the row of a custody the warden holds.
LEMMA HeldStays ==
    ASSUME CustodyInv, NEW h \in Handles, phase[h] = "held"
    PROVE  ~Deleting(h) /\ \A u \in Tasks : op[u] = "release" /\ on[u] = h => pc[u] = "call"
<1>1. \A u \in Tasks : ReleaseRule(u)
  BY DEF CustodyInv, Rules
<1>2. \A u \in Tasks : op[u] = "release" /\ on[u] = h => pc[u] = "call"
  BY <1>1 DEF ReleaseRule
<1> QED
  BY <1>2 DEF Deleting

\* Nobody takes or reports a custody the warden has let go.
LEMMA ReleasedStays ==
    ASSUME CustodyInv, NEW h \in Handles, phase[h] = "released", NEW u \in Tasks, on[u] = h
    PROVE  op[u] \notin {"take", "report"}
<1>1. TakeRule(u) /\ ReportRule(u)
  BY DEF CustodyInv, Rules
<1> QED
  BY <1>1 DEF TakeRule, ReportRule

-----------------------------------------------------------------------------
\* The reports, the writes to the tables and a task that ends early.

\* A task that ends and writes nothing.
LEMMA TaskEnds ==
    ASSUME CustodyInv, TaskType, NEW t \in Tasks, NEW h \in Handles, on[t] = h, Done(t),
           pc[t] # "mirror", UNCHANGED <<entries, rows, snaps, phase, handed, reports>>,
           failed => failed', cut' = cut, pc[t] = "row" => failed'
    PROVE  CustodyInv'
<1>1. TaskType' /\ Moves(t) /\ Shape(t)' /\ op'[t] = "none" /\ on'[t] = NoHandle
  BY DoneFacts DEF Rules
<1>2. on[t] \in {h, NoHandle} /\ on'[t] \in {h, NoHandle} /\ op'[t] \in {"none", "correct"}
  BY <1>1
<1> QED
  BY <1>1, <1>2, Quiet

\* upsert_custody_state refused by the foreign key, or a failed transaction: the task ends.
LEMMA EndKeeps ==
    ASSUME CustodyInv, NEW t \in Tasks,
           \/ StoreFailure(t)
           \/ upsert_custody_state(t) /\ rows[on[t]] = NoRow
    PROVE  CustodyInv'
<1>1. /\ pc[t] \in {"row", "snap", "emit"} /\ Done(t) /\ (failed => failed') /\ cut' = cut
      /\ pc[t] = "row" => failed'
      /\ UNCHANGED <<entries, rows, snaps, phase, handed, reports>>
  <2>1. CASE StoreFailure(t)
    BY <2>1 DEF StoreFailure, At, ledgerVars
  <2>2. CASE upsert_custody_state(t) /\ rows[on[t]] = NoRow
    BY <2>2 DEF upsert_custody_state, At, ledgerVars
  <2> QED
    BY <2>1, <2>2
<1>2. op[t] # "none"
  <2>1. Shape(t)
    BY DEF CustodyInv, Rules
  <2> QED
    BY <1>1, <2>1 DEF Shape
<1>3. on[t] \in Handles /\ TaskType
  BY <1>2, TaskAt
<1>4. pc[t] # "mirror"
  BY <1>1
<1> QED
  BY <1>1, <1>3, <1>4, TaskEnds

\* What a task copies from the mirror is a row.
LEMMA SeenRow ==
    ASSUME LedgerType, NEW h \in Handles
    PROVE  Seen(h) \in Row
<1>1. entries[h] \in CustodyRecord \cup {NoRec}
  BY DEF LedgerType
<1> QED
  BY <1>1 DEF Seen, CustodyRecord, Row, Kinds

\* report: the only reader takes the next number.
LEMMA ReportKeeps ==
    ASSUME OneReader, CustodyInv, NEW r \in Reporters, NEW h \in Handles, report(r, h)
    PROVE  CustodyInv'
<1>1. /\ pc[r] = "idle" /\ phase[h] = "held" /\ reports < MaxReports /\ reports' = reports + 1
      /\ UNCHANGED <<entries, rows, snaps, phase, handed, failed, cut>>
  BY DEF report, At, ledgerVars
<1>2. LedgerType /\ TaskType /\ r \in Tasks /\ r \notin Verbs /\ NoHandle \notin Handles
  BY CustodyAssumption DEF CustodyInv, Tasks
<1>3. (\A u \in Tasks : Rules(u)) /\ Shape(r) /\ Mirrors(h) /\ Vanishes(h) /\ HandedOnce(h)
  BY <1>2 DEF CustodyInv, Rules, Settled
<1>4. op[r] = "none" /\ on[r] = NoHandle
  BY <1>1, <1>3 DEF Shape
<1>5. /\ LedgerType' /\ reports \in Nat /\ reports' \in 1..MaxReports
      /\ reports' \in Nat /\ reports <= reports'
      /\ \A k \in Handles : Kept(k)
  BY <1>1, <1>2, CustodyAssumption DEF LedgerType, Kept
<1>6. Seen(h) \in Row
  BY <1>2, SeenRow
<1>7. /\ TaskType' /\ Moves(r) /\ pc'[r] = "row" /\ op'[r] = "report" /\ on'[r] = h
      /\ img'[r] \in Row /\ num'[r] = reports'
  <2>1. /\ pc' = [pc EXCEPT ![r] = "row"] /\ op' = [op EXCEPT ![r] = "report"]
        /\ on' = [on EXCEPT ![r] = h] /\ img' = [img EXCEPT ![r] = Seen(h)]
        /\ num' = [num EXCEPT ![r] = reports']
    BY <1>1 DEF report
  <2> QED
    BY <1>2, <1>5, <1>6, <2>1 DEF TaskType, Moves, Steps
<1>8. Rules(r)'
  <2>1. Shape(r)'
    BY <1>2, <1>7 DEF Shape
  <2>2. snaps[h] <= reports /\ snaps[h] \in Nat
    BY <1>2, <1>3 DEF Mirrors, LedgerType
  <2>3. ReportRule(r)'
    BY <1>1, <1>5, <1>7, <2>2 DEF ReportRule
  <2>4. TakeRule(r)' /\ TakesAlone(r)' /\ ReleaseRule(r)'
    BY <1>7 DEF TakeRule, TakesAlone, ReleaseRule
  <2> QED
    BY <2>1, <2>3, <2>4 DEF Rules
<1>9. ASSUME NEW u \in Tasks, u # r, on[u] = h
      PROVE  TakeRule(u)' /\ ReleaseRule(u)' /\ ReportRule(u)'
  BY <1>2, <1>3, <1>5, <1>7, <1>9, RulesKept
<1>10. Settled(h)'
  <2>1. (Deleting(h) => Deleting(h)') /\ (Snapped(h) => Snapped(h)')
    BY <1>2, <1>4, <1>7, StillDeleting, StillSnapped
  <2>2. snaps'[h] <= reports'
    BY <1>1, <1>2, <1>3 DEF Mirrors, LedgerType
  <2>3. Mirrors(h)'
    BY <1>1, <1>3, <2>1, <2>2 DEF Mirrors
  <2> QED
    BY <1>1, <1>3, <2>3 DEF Settled, Vanishes, HandedOnce
<1> QED
  BY <1>1, <1>2, <1>4, <1>5, <1>7, <1>8, <1>9, <1>10, OneStep

\* The row after upsert_custody: names once there stay.
LEMMA UpsertRow ==
    ASSUME LedgerType, TaskType, NEW t \in Tasks, NEW h \in Handles, h = on[t],
           img[t] \in Row, upsert_custody(t)
    PROVE  /\ rows' \in [Handles -> Row \cup {NoRow}]
           /\ \A k \in Handles : k # h => rows'[k] = rows[k]
           /\ rows'[h] # NoRow
           /\ rows[h] # NoRow /\ rows[h].named => rows'[h].named
           /\ img[t].named => rows'[h].named
<1>1. rows \in [Handles -> Row \cup {NoRow}]
  BY DEF LedgerType
<1> DEFINE new == IF rows[h] = NoRow THEN img[t]
                  ELSE [named |-> img[t].named \/ rows[h].named, state |-> img[t].state]
<1>2. rows' = [rows EXCEPT ![h] = new]
  BY DEF upsert_custody
<1>3. new \in Row /\ (rows[h] # NoRow /\ rows[h].named => new.named)
      /\ (img[t].named => new.named)
  <2>1. CASE rows[h] = NoRow
    BY <2>1
  <2>2. CASE rows[h] # NoRow
    <3>1. rows[h] \in Row
      BY <1>1, <2>2
    <3> QED
      BY <2>2, <3>1 DEF Row
  <2> QED
    BY <2>1, <2>2, Zenon
<1> HIDE DEF new
<1>4. new # NoRow
  <2>1. new.state \in Kinds /\ NoRow.state \notin Kinds
    BY <1>3 DEF Row, NoRow, Kinds
  <2> QED
    BY <2>1, Zenon
<1> QED
  BY <1>1, <1>2, <1>3, <1>4

\* upsert_custody, by record_custody or record_state: the custody is held.
LEMMA UpsertKeeps ==
    ASSUME OneReader, CustodyInv, NEW t \in Tasks, NEW h \in Handles, h = on[t], upsert_custody(t)
    PROVE  CustodyInv'
<1>1. /\ pc[t] = "row" /\ op[t] \in {"take", "report"}
      /\ Goto(t, IF op[t] = "take" THEN "mirror" ELSE "snap")
      /\ UNCHANGED <<entries, snaps, phase, handed, reports, failed, cut>>
  BY DEF upsert_custody, At
<1>2. /\ TaskType /\ LedgerType
      /\ Shape(t) /\ TakeRule(t) /\ TakesAlone(t) /\ ReportRule(t)
      /\ Mirrors(h) /\ HandedOnce(h)
  BY <1>1, TaskAt
<1>3. phase[h] = "held"
  BY <1>1, <1>2, Zenon DEF TakeRule, ReportRule
<1>4. img[t] \in Row
  BY <1>1, <1>2, Zenon DEF Shape
<1>5. /\ rows' \in [Handles -> Row \cup {NoRow}]
      /\ \A k \in Handles : k # h => rows'[k] = rows[k]
      /\ rows'[h] # NoRow
      /\ rows[h] # NoRow /\ rows[h].named => rows'[h].named
      /\ img[t].named => rows'[h].named
  BY <1>2, <1>4, UpsertRow
<1>6. LedgerType' /\ reports <= reports' /\ \A k \in Handles : k # h => Kept(k)
  BY <1>1, <1>2, <1>5, RowWritten, Zenon
<1>7. /\ TaskType' /\ Moves(t) /\ op'[t] = op[t] /\ on'[t] = h
      /\ img'[t] = img[t] /\ num'[t] = num[t]
      /\ pc'[t] = IF op[t] = "take" THEN "mirror" ELSE "snap"
  BY <1>1, <1>2, GotoFacts, Zenon DEF Steps
<1>8. Rules(t)'
  <2>1. Shape(t)'
    BY <1>1, <1>2, <1>7, Zenon DEF Shape
  <2>2. TakeRule(t)'
    BY <1>1, <1>2, <1>5, <1>7, Zenon DEF TakeRule
  <2>3. TakesAlone(t)'
    BY <1>2, <1>7, Zenon DEF TakesAlone, Moves
  <2>4. ReportRule(t)'
    BY <1>1, <1>2, <1>7, Zenon DEF ReportRule
  <2>5. ReleaseRule(t)'
    BY <1>1, <1>7, Zenon DEF ReleaseRule
  <2> QED
    BY <2>1, <2>2, <2>3, <2>4, <2>5 DEF Rules
<1>9. ASSUME NEW u \in Tasks, u # t, on[u] = h
      PROVE  TakeRule(u)' /\ ReleaseRule(u)' /\ ReportRule(u)'
  <2>1. TakeRule(u) /\ ReleaseRule(u) /\ ReportRule(u)
    BY DEF CustodyInv, Rules
  <2>2. /\ pc'[u] = pc[u] /\ op'[u] = op[u] /\ on'[u] = h /\ img'[u] = img[u]
        /\ num'[u] = num[u]
    BY <1>7, <1>9 DEF Moves
  <2>3. op[u] = "release" => pc[u] = "call"
    BY <1>3, <1>9, HeldStays
  <2>4. TakeRule(u)'
    BY <1>1, <1>5, <1>9, <2>1, <2>2 DEF TakeRule
  <2>5. ReleaseRule(u)'
    BY <1>1, <1>9, <2>1, <2>2, <2>3, Zenon DEF ReleaseRule
  <2>6. ReportRule(u)'
    BY <1>1, <1>5, <1>9, <2>1, <2>2, ZenonT(60) DEF ReportRule
  <2> QED
    BY <2>4, <2>5, <2>6
<1>10. Settled(h)'
  <2>1. ~Deleting(h) /\ (Snapped(h) => Snapped(h)')
    BY <1>1, <1>3, <1>7, HeldStays, StillSnapped, Zenon
  <2>2. Mirrors(h)'
    BY <1>1, <1>2, <1>5, <2>1, Zenon DEF Mirrors
  <2> QED
    BY <1>1, <1>2, <1>3, <2>2 DEF Settled, Vanishes, HandedOnce
<1> QED
  BY <1>1, <1>6, <1>7, <1>8, <1>9, <1>10, OneStep

\* upsert_custody_state: the snapshot is one ahead of the mirror.
LEMMA SnapKeeps ==
    ASSUME OneReader, CustodyInv, NEW r \in Reporters, NEW h \in Handles, h = on[r],
           upsert_custody_state(r), rows[h] # NoRow
    PROVE  CustodyInv'
<1>1. /\ pc[r] = "snap" /\ Goto(r, "mirror") /\ snaps' = [snaps EXCEPT ![h] = num[r]]
      /\ UNCHANGED <<entries, rows, phase, handed, reports, failed, cut>>
  BY DEF upsert_custody_state, At
<1>2. r \in Tasks /\ op[r] = "report"
  <2>1. r \in Tasks /\ Shape(r)
    BY DEF CustodyInv, Rules, Tasks
  <2> QED
    BY <1>1, <2>1 DEF Shape
<1>3. TaskType /\ LedgerType /\ Shape(r) /\ ReportRule(r) /\ Mirrors(h) /\ HandedOnce(h)
  BY <1>2, TaskAt
<1>4. /\ phase[h] = "held" /\ num[r] \in 1..reports /\ snaps[h] < num[r]
      /\ num[r] \in 0..MaxReports
  BY <1>1, <1>2, <1>3 DEF ReportRule, TaskType
<1>5. /\ LedgerType' /\ reports <= reports' /\ snaps'[h] = num[r]
      /\ \A k \in Handles : k # h => Kept(k)
  <2>1. snaps \in [Handles -> 0..MaxReports] /\ reports \in 0..MaxReports
    BY <1>3 DEF LedgerType
  <2>2. snaps' \in [Handles -> 0..MaxReports] /\ snaps'[h] = num[r] /\ reports <= reports'
    BY <1>1, <1>4, <2>1
  <2>3. \A k \in Handles : k # h => snaps'[k] = snaps[k]
    BY <1>1, <2>1
  <2>4. LedgerType'
    BY <1>1, <1>3, <2>2, Zenon DEF LedgerType
  <2>5. \A k \in Handles : k # h => Kept(k)
    BY <1>1, <2>3, Zenon DEF Kept
  <2> QED
    BY <2>2, <2>4, <2>5, Zenon
<1>6. /\ TaskType' /\ Moves(r) /\ op'[r] = "report" /\ on'[r] = h
      /\ img'[r] = img[r] /\ num'[r] = num[r] /\ pc'[r] = "mirror"
  BY <1>1, <1>2, <1>3, GotoFacts, Zenon DEF Steps
<1>7. ASSUME NEW u \in Tasks, u # r PROVE op[u] # "report"
  <2>1. Shape(u)
    BY DEF CustodyInv, Rules
  <2> QED
    BY <1>7, <2>1 DEF Shape, Tasks, OneReader
<1>8. ~Deleting(h) /\ ~Snapped(h)
  BY <1>1, <1>4, <1>7, HeldStays DEF Snapped
<1>9. Rules(r)'
  <2>1. Shape(r)'
    BY <1>1, <1>2, <1>3, <1>6 DEF Shape
  <2>2. entries[h].last < num[r]
    BY <1>3, <1>4, <1>8, Zenon DEF Mirrors
  <2>3. ReportRule(r)'
    BY <1>1, <1>4, <1>5, <1>6, <2>2, Zenon DEF ReportRule
  <2>4. TakeRule(r)' /\ TakesAlone(r)' /\ ReleaseRule(r)'
    BY <1>6, Zenon DEF TakeRule, TakesAlone, ReleaseRule
  <2> QED
    BY <2>1, <2>3, <2>4 DEF Rules
<1>10. ASSUME NEW u \in Tasks, u # r, on[u] = h
       PROVE  TakeRule(u)' /\ ReleaseRule(u)' /\ ReportRule(u)'
  <2>1. TakeRule(u) /\ ReleaseRule(u) /\ op[u] # "report"
    BY <1>7, <1>10, Zenon DEF CustodyInv, Rules
  <2>2. pc'[u] = pc[u] /\ op'[u] = op[u] /\ on'[u] = h /\ img'[u] = img[u]
    BY <1>6, <1>10, Zenon DEF Moves
  <2>3. TakeRule(u)' /\ ReleaseRule(u)'
    BY <1>1, <1>10, <2>1, <2>2, Zenon DEF TakeRule, ReleaseRule
  <2> QED
    BY <2>1, <2>2, <2>3, Zenon DEF ReportRule
<1>11. Settled(h)'
  <2>1. Snapped(h)'
    BY <1>2, <1>6 DEF Snapped
  <2>2. /\ ~Deleting(h) /\ entries'[h] # NoRec => (entries'[h].named => rows'[h].named)
        /\ rows'[h] # NoRow /\ snaps'[h] <= reports'
    <3>1. entries' = entries /\ rows' = rows /\ reports' = reports /\ snaps'[h] = num[r]
      BY <1>1, <1>5, Zenon
    <3>2. num[r] <= reports
      BY <1>4
    <3>3. ~Deleting(h) /\ entries[h] # NoRec => (entries[h].named => rows[h].named)
      BY <1>3, Zenon DEF Mirrors
    <3> QED
      BY <3>1, <3>2, <3>3, Zenon
  <2>3. Mirrors(h)'
    BY <1>1, <1>8, <2>1, <2>2, Zenon DEF Mirrors
  <2> QED
    BY <1>1, <1>3, <1>4, <2>3, Zenon DEF Settled, Vanishes, HandedOnce
<1> QED
  BY <1>1, <1>2, <1>5, <1>6, <1>9, <1>10, <1>11, OneStep, Zenon


\* mark_custody_state keeps the names, and the row where it is.
LEMMA MarkKeeps ==
    ASSUME CustodyInv, NEW v \in Verbs, NEW h \in Handles, h = on[v], mark_custody_state(v)
    PROVE  CustodyInv'
<1>1. /\ pc[v] = "row" /\ op[v] = "correct" /\ Goto(v, "mirror")
      /\ UNCHANGED <<entries, snaps, phase, handed, reports, failed, cut>>
  BY DEF mark_custody_state, At
<1>2. v \in Tasks /\ v \notin Reporters
  BY CustodyAssumption DEF Tasks
<1>3. TaskType /\ LedgerType /\ Shape(v) /\ Mirrors(h) /\ Vanishes(h) /\ HandedOnce(h)
  BY <1>1, <1>2, TaskAt
<1>4. /\ rows' \in [Handles -> Row \cup {NoRow}]
      /\ \A k \in Handles : k # h => rows'[k] = rows[k]
      /\ (rows'[h] = NoRow) = (rows[h] = NoRow) /\ rows'[h].named = rows[h].named
  <2>1. rows \in [Handles -> Row \cup {NoRow}]
    BY <1>3 DEF LedgerType
  <2>2. CASE rows[h] = NoRow
    BY <2>1, <2>2 DEF mark_custody_state
  <2>3. CASE rows[h] # NoRow
    <3>1. rows[h] \in Row /\ rows' = [rows EXCEPT ![h] = [rows[h] EXCEPT !.state = FailureMode]]
      BY <2>1, <2>3 DEF mark_custody_state
    <3>2. /\ [rows[h] EXCEPT !.state = FailureMode] \in Row
          /\ [rows[h] EXCEPT !.state = FailureMode].named = rows[h].named
      BY <3>1, CustodyAssumption DEF Row, Kinds
    <3>3. [rows[h] EXCEPT !.state = FailureMode] # NoRow
      BY <3>2 DEF Row, NoRow, Kinds
    <3> QED
      BY <2>1, <2>3, <3>1, <3>2, <3>3
  <2> QED
    BY <2>2, <2>3
<1>5. LedgerType' /\ reports <= reports' /\ \A k \in Handles : k # h => Kept(k)
  BY <1>1, <1>3, <1>4, RowWritten, Zenon
<1>6. TaskType' /\ Moves(v) /\ op'[v] = "correct" /\ on'[v] = h /\ pc'[v] = "mirror"
  BY <1>1, <1>2, <1>3, GotoFacts, Zenon DEF Steps
<1>7. Rules(v)'
  <2>1. Shape(v)'
    BY <1>1, <1>2, <1>3, <1>6, Zenon DEF Shape
  <2> QED
    BY <1>6, <2>1, Zenon DEF Rules, TakeRule, TakesAlone, ReleaseRule, ReportRule
<1>8. ASSUME NEW u \in Tasks, u # v, on[u] = h
      PROVE  TakeRule(u)' /\ ReleaseRule(u)' /\ ReportRule(u)'
  <2>1. TakeRule(u) /\ ReleaseRule(u) /\ ReportRule(u)
    BY DEF CustodyInv, Rules
  <2>2. /\ pc'[u] = pc[u] /\ op'[u] = op[u] /\ on'[u] = h /\ img'[u] = img[u]
        /\ num'[u] = num[u]
    BY <1>6, <1>8, Zenon DEF Moves
  <2>3. TakeRule(u)' /\ ReleaseRule(u)'
    BY <1>1, <1>4, <1>8, <2>1, <2>2, Zenon DEF TakeRule, ReleaseRule
  <2>4. ReportRule(u)'
    BY <1>1, <1>4, <1>8, <2>1, <2>2, Zenon DEF ReportRule
  <2> QED
    BY <2>3, <2>4
<1>9. Settled(h)'
  <2>1. (Deleting(h) => Deleting(h)') /\ (Snapped(h) => Snapped(h)')
    BY <1>1, <1>2, <1>6, StillDeleting, StillSnapped, Zenon
  <2>2. Releasing(h) => Releasing(h)'
    BY <1>1, <1>2, <1>6, StillReleasing, Zenon
  <2>3. Mirrors(h)'
    BY <1>1, <1>3, <1>4, <2>1, Zenon DEF Mirrors
  <2> QED
    BY <1>1, <1>3, <1>4, <2>2, <2>3, Zenon DEF Settled, Vanishes, HandedOnce
<1> QED
  BY <1>1, <1>2, <1>5, <1>6, <1>7, <1>8, <1>9, OneStep, Zenon

\* delete_custody: the row and its snapshot go.
LEMMA DeleteKeeps ==
    ASSUME CustodyInv, NEW v \in Verbs, NEW h \in Handles, h = on[v], delete_custody(v)
    PROVE  CustodyInv'
<1>1. /\ pc[v] = "row" /\ op[v] = "release" /\ Goto(v, "mirror")
      /\ rows' = [rows EXCEPT ![h] = NoRow] /\ snaps' = [snaps EXCEPT ![h] = NoSnap]
      /\ UNCHANGED <<entries, phase, handed, reports, failed, cut>>
  BY Zenon DEF delete_custody, At
<1>2. v \in Tasks /\ v \notin Reporters
  BY CustodyAssumption DEF Tasks
<1>3. TaskType /\ LedgerType /\ Shape(v) /\ ReleaseRule(v) /\ HandedOnce(h)
  BY <1>1, <1>2, TaskAt, Zenon
<1>4. phase[h] = "released" /\ h \in handed
  BY <1>1, <1>3 DEF ReleaseRule
<1>5. /\ LedgerType' /\ reports <= reports' /\ rows'[h] = NoRow /\ snaps'[h] = NoSnap
      /\ NoSnap <= reports
      /\ \A k \in Handles : k # h => Kept(k)
  <2>1. 0 \in 0..MaxReports /\ 0 <= reports /\ reports <= reports /\ NoSnap = 0
    BY <1>3, CustodyAssumption DEF LedgerType, NoSnap
  <2>2. /\ rows' \in [Handles -> Row \cup {NoRow}] /\ rows'[h] = NoRow
        /\ \A k \in Handles : k # h => rows'[k] = rows[k]
    BY <1>1, <1>3, Zenon DEF LedgerType
  <2>3. /\ snaps' \in [Handles -> 0..MaxReports] /\ snaps'[h] = NoSnap
        /\ \A k \in Handles : k # h => snaps'[k] = snaps[k]
    BY <1>1, <1>3, <2>1, Zenon DEF LedgerType
  <2> QED
    BY <1>1, <1>3, <2>1, <2>2, <2>3, Zenon DEF LedgerType, Kept
<1>6. TaskType' /\ Moves(v) /\ op'[v] = "release" /\ on'[v] = h /\ pc'[v] = "mirror"
  BY <1>1, <1>2, <1>3, GotoFacts, Zenon DEF Steps
<1>7. Rules(v)'
  <2>1. Shape(v)'
    BY <1>1, <1>2, <1>3, <1>6, Zenon DEF Shape
  <2>2. ReleaseRule(v)'
    BY <1>1, <1>4, <1>5, <1>6, Zenon DEF ReleaseRule
  <2> QED
    BY <1>6, <2>1, <2>2, Zenon DEF Rules, TakeRule, TakesAlone, ReportRule
<1>8. ASSUME NEW u \in Tasks, u # v, on[u] = h
      PROVE  TakeRule(u)' /\ ReleaseRule(u)' /\ ReportRule(u)'
  <2>1. op[u] \notin {"take", "report"} /\ ReleaseRule(u)
    BY <1>4, <1>8, ReleasedStays, Zenon DEF CustodyInv, Rules
  <2>2. pc'[u] = pc[u] /\ op'[u] = op[u] /\ on'[u] = h
    BY <1>6, <1>8, Zenon DEF Moves
  <2>3. ReleaseRule(u)'
    BY <1>1, <1>5, <1>8, <2>1, <2>2, Zenon DEF ReleaseRule
  <2> QED
    BY <2>1, <2>2, <2>3, Zenon DEF TakeRule, ReportRule
<1>9. Settled(h)'
  <2>1. Deleting(h)' /\ Releasing(h)'
    BY <1>2, <1>6, Zenon DEF Deleting, Releasing
  <2>2. Mirrors(h)'
    BY <1>1, <1>5, <2>1, Zenon DEF Mirrors
  <2> QED
    BY <1>1, <1>3, <2>1, <2>2, Zenon DEF Settled, Vanishes, HandedOnce
<1> QED
  BY <1>1, <1>2, <1>5, <1>6, <1>7, <1>8, <1>9, OneStep, Zenon

=============================================================================
