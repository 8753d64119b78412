---------------------------- MODULE CustodyLedger ----------------------------
(***************************************************************************)
(* The custody ledger (crates/evo/src/custody.rs), the router verbs that   *)
(* drive it (router.rs), the warden's state reports, and the custodies and *)
(* custody_state tables behind it (persistence.rs), for one warden.        *)
(*                                                                         *)
(* A verb or report is a task that stops at every await: the warden call   *)
(* under the entry's write lock, each SQLite transaction, the in-memory    *)
(* mirror after it, and the happening.  A report on the wire runs inside   *)
(* the connection's reader loop, which delivers the replies to verbs too.  *)
(* Timestamps are left out; a snapshot is the number of its report.        *)
(***************************************************************************)
EXTENDS Integers, FiniteSets

CONSTANTS
    Handles,      \* custody handles of the warden
    NoHandle,     \* where an idle task is
    Verbs,        \* tasks that run router verbs
    Reporters,    \* tasks that run report: the reader loop alone when Wire
    Wire,         \* the warden is out of process
    EarlyUse,     \* consumers use a handle they only saw in the ledger
    FailureMode,  \* "aborted" (Abort, or none declared) or "degraded" (PartialOk)
    CourseVerbs,  \* correction types the manifest declares
    FastVerbs,    \* correction types declared for the Fast Path
    StoreFails,   \* SQLite transactions may fail
    MaxReports,
    MaxBoots

ASSUME CustodyAssumption ==
    /\ Wire \in BOOLEAN /\ EarlyUse \in BOOLEAN /\ StoreFails \in BOOLEAN
    /\ FailureMode \in {"aborted", "degraded"}
    /\ FastVerbs \subseteq CourseVerbs
    /\ MaxReports \in Nat /\ MaxBoots \in Nat
    /\ Verbs \cap Reporters = {}
    /\ NoHandle \notin Handles

VARIABLES
    entries,  \* the in-memory mirror
    rows,     \* the custodies table
    snaps,    \* the custody_state table
    pc,       \* per task: the step it is at
    op,       \* per task: the verb it runs, or its report
    on,       \* per task: the handle it works on
    img,      \* per task: the row record_custody or record_state is about to write
    num,      \* per task: the number of its report
    phase,    \* the warden's side of each handle
    handed,   \* handles whose take_custody returned to its caller
    reports,  \* number of state reports so far
    boots,
    failed,   \* ghost: a transaction has failed
    cut       \* ghost: handles the steward died over, released but not yet deleted

taskVars == <<pc, op, on, img, num>>
ledgerVars == <<entries, rows, snaps>>
custodyVars == <<ledgerVars, taskVars, phase, handed, reports, boots, failed, cut>>

Kinds == {"active", "aborted", "degraded"}
NoSnap == 0
NoRec == [named |-> FALSE, state |-> "none", last |-> NoSnap]
NoRow == [named |-> FALSE, state |-> "none"]
Row == [named : BOOLEAN, state : Kinds]
\* named: shelf and custody_type are filled in, which record_custody does.
CustodyRecord == [named : BOOLEAN, state : Kinds, last : 0..MaxReports]
Fresh(named, last) == [named |-> named, state |-> "active", last |-> last]

Tasks == Verbs \cup Reporters
On(h) == {t \in Tasks : on[t] = h}
At(t, step) == pc[t] = step
Goto(t, step) == pc' = [pc EXCEPT ![t] = step] /\ UNCHANGED <<op, on, img, num>>
Done(t) ==
    /\ pc' = [pc EXCEPT ![t] = "idle"]
    /\ op' = [op EXCEPT ![t] = "none"]
    /\ on' = [on EXCEPT ![t] = NoHandle]
    /\ img' = [img EXCEPT ![t] = NoRow]
    /\ num' = [num EXCEPT ![t] = 0]
\* The steward dies with every task.
AllDone ==
    /\ pc' = [t \in Tasks |-> "idle"]
    /\ op' = [t \in Tasks |-> "none"]
    /\ on' = [t \in Tasks |-> NoHandle]
    /\ img' = [t \in Tasks |-> NoRow]
    /\ num' = [t \in Tasks |-> 0]

\* The entry's write lock is held across the warden call and no longer.
LockFree == \A v \in Verbs : ~At(v, "call")
\* Mutant: replies overtake the reports before them.
ReplyUnordered == TRUE
\* A reply reaches the verb only when the reader loop is between frames.
ReplyRead == Wire => \A r \in Reporters : At(r, "idle")
Known(h) == h \in handed \/ (EarlyUse /\ entries[h] # NoRec)

CustodyInit ==
    /\ entries = [h \in Handles |-> NoRec]
    /\ rows = [h \in Handles |-> NoRow]
    /\ snaps = [h \in Handles |-> NoSnap]
    /\ pc = [t \in Tasks |-> "idle"]
    /\ op = [t \in Tasks |-> "none"]
    /\ on = [t \in Tasks |-> NoHandle]
    /\ img = [t \in Tasks |-> NoRow]
    /\ num = [t \in Tasks |-> 0]
    /\ phase = [h \in Handles |-> "new"]
    /\ handed = {}
    /\ reports = 0
    /\ boots = 1
    /\ failed = FALSE
    /\ cut = {}

-----------------------------------------------------------------------------
\* Verbs: the warden call.  The warden picks a new handle when it accepts.
Call(v, verb, h) ==
    /\ At(v, "idle")
    /\ LockFree
    /\ pc' = [pc EXCEPT ![v] = "call"]
    /\ op' = [op EXCEPT ![v] = verb]
    /\ on' = [on EXCEPT ![v] = h]
    /\ UNCHANGED <<img, num>>

take_custody(v, h) ==
    /\ phase[h] = "new"
    /\ Call(v, "take", h)
    /\ phase' = [phase EXCEPT ![h] = "held"]
    /\ UNCHANGED <<ledgerVars, handed, reports, boots, failed, cut>>

\* Its answer: the handle, or a refusal, after which nothing more is recorded.
TakeReturns(v) ==
    /\ At(v, "call") /\ op[v] = "take"
    /\ ReplyRead
    /\ \/ Goto(v, "read") /\ UNCHANGED phase
       \/ Done(v) /\ phase' = [phase EXCEPT ![on[v]] = "lost"]
    /\ UNCHANGED <<ledgerVars, handed, reports, boots, failed, cut>>

course_correct(v, h) ==
    /\ Known(h)
    /\ \E correction_type \in CourseVerbs : Call(v, "correct", h)
    /\ UNCHANGED <<ledgerVars, phase, handed, reports, boots, failed, cut>>

course_correct_fast(v, h) ==
    /\ Known(h)
    /\ \E correction_type \in FastVerbs \cap CourseVerbs : Call(v, "correct", h)
    /\ UNCHANGED <<ledgerVars, phase, handed, reports, boots, failed, cut>>

\* The warden answers, or errs, or the budget runs out: only a failure is recorded.
dispatch_correction_to_warden(v) ==
    /\ At(v, "call") /\ op[v] = "correct"
    /\ \/ ReplyRead /\ Done(v)
       \/ Goto(v, "row")
    /\ UNCHANGED <<ledgerVars, phase, handed, reports, boots, failed, cut>>

release_custody(v, h) ==
    /\ Known(h)
    /\ Call(v, "release", h)
    /\ UNCHANGED <<ledgerVars, phase, handed, reports, boots, failed, cut>>

\* The warden releases what it holds; or it errs, as it does for what it does not hold,
\* and the verb ends there.
ReleaseReturns(v) ==
    /\ At(v, "call") /\ op[v] = "release"
    /\ \/ /\ ReplyRead
          /\ phase[on[v]] = "held"
          /\ Goto(v, "row") /\ phase' = [phase EXCEPT ![on[v]] = "released"]
       \/ Done(v) /\ UNCHANGED phase
    /\ UNCHANGED <<ledgerVars, handed, reports, boots, failed, cut>>

-----------------------------------------------------------------------------
\* What record_custody and record_state copy from the mirror before they write.
Seen(h) ==
    IF entries[h] = NoRec THEN [named |-> FALSE, state |-> "active"]
    ELSE [named |-> entries[h].named, state |-> entries[h].state]

\* record_custody: read the state kind under the read lock.
ReadForCustody(v) ==
    /\ At(v, "read")
    /\ pc' = [pc EXCEPT ![v] = "row"]
    /\ img' = [img EXCEPT ![v] = [named |-> TRUE, state |-> Seen(on[v]).state]]
    /\ UNCHANGED <<op, on, num, entries, rows, snaps, phase, handed, reports, boots, failed, cut>>

\* LedgerCustodyStateReporter::report, up to record_state's first await.
report(r, h) ==
    /\ At(r, "idle")
    /\ phase[h] = "held"
    /\ reports < MaxReports
    /\ reports' = reports + 1
    /\ pc' = [pc EXCEPT ![r] = "row"]
    /\ op' = [op EXCEPT ![r] = "report"]
    /\ on' = [on EXCEPT ![r] = h]
    /\ img' = [img EXCEPT ![r] = Seen(h)]
    /\ num' = [num EXCEPT ![r] = reports + 1]
    /\ UNCHANGED <<ledgerVars, phase, handed, boots, failed, cut>>

\* INSERT, or keep the columns COALESCE keeps and overwrite the state.
upsert_custody(t) ==
    LET h == on[t]
        new == img[t]
    IN  /\ At(t, "row") /\ op[t] \in {"take", "report"}
        /\ rows' = [rows EXCEPT ![h] =
             IF @ = NoRow THEN new ELSE [named |-> new.named \/ @.named, state |-> new.state]]
        /\ Goto(t, IF op[t] = "take" THEN "mirror" ELSE "snap")
        /\ UNCHANGED <<entries, snaps, phase, handed, reports, boots, failed, cut>>

\* The foreign key refuses a snapshot whose custody row is gone.
upsert_custody_state(r) ==
    LET h == on[r] IN
    /\ At(r, "snap")
    /\ IF rows[h] = NoRow
       THEN Done(r) /\ UNCHANGED snaps
       ELSE Goto(r, "mirror") /\ snaps' = [snaps EXCEPT ![h] = num[r]]
    /\ UNCHANGED <<entries, rows, phase, handed, reports, boots, failed, cut>>

mark_custody_state(v) ==
    LET h == on[v] IN
    /\ At(v, "row") /\ op[v] = "correct"
    /\ rows' = [rows EXCEPT ![h] = IF @ = NoRow THEN @ ELSE [@ EXCEPT !.state = FailureMode]]
    /\ Goto(v, "mirror")
    /\ UNCHANGED <<entries, snaps, phase, handed, reports, boots, failed, cut>>

\* Mutant: the snapshot outlives the custody.
DeleteKeepsSnap(v) ==
    /\ At(v, "row") /\ op[v] = "release"
    /\ rows' = [rows EXCEPT ![on[v]] = NoRow]
    /\ Goto(v, "mirror")
    /\ UNCHANGED <<entries, snaps, phase, handed, reports, boots, failed, cut>>

\* Mutant: the release reaches the mirror only.
DeleteForgotten(v) ==
    /\ At(v, "row") /\ op[v] = "release"
    /\ Goto(v, "mirror")
    /\ UNCHANGED <<ledgerVars, phase, handed, reports, boots, failed, cut>>

\* The custody_state row goes with its parent.
delete_custody(v) ==
    LET h == on[v] IN
    /\ At(v, "row") /\ op[v] = "release"
    /\ rows' = [rows EXCEPT ![h] = NoRow]
    /\ snaps' = [snaps EXCEPT ![h] = NoSnap]
    /\ Goto(v, "mirror")
    /\ UNCHANGED <<entries, phase, handed, reports, boots, failed, cut>>

\* Mutant: an error from the store is only logged.
StoreFailureIgnored(t) ==
    /\ StoreFails
    /\ \/ (At(t, "row") \/ At(t, "snap")) /\ Goto(t, "mirror")
       \/ At(t, "emit") /\ Done(t)
    /\ failed' = TRUE
    /\ UNCHANGED <<ledgerVars, phase, handed, reports, boots, cut>>

\* Mutant: a store error skips the mirror and announces all the same.
StoreFailureAnnounced(t) ==
    /\ StoreFails
    /\ \/ (At(t, "row") \/ At(t, "snap")) /\ Goto(t, "emit")
       \/ At(t, "emit") /\ Done(t)
    /\ failed' = TRUE
    /\ UNCHANGED <<ledgerVars, phase, handed, reports, boots, cut>>

\* An error from the store ends the verb or report where it is: before the mirror,
\* or at the happening, after it.
StoreFailure(t) ==
    /\ StoreFails
    /\ At(t, "row") \/ At(t, "snap") \/ At(t, "emit")
    /\ Done(t)
    /\ failed' = TRUE
    /\ UNCHANGED <<ledgerVars, phase, handed, reports, boots, cut>>

\* The write to the in-memory map, by whatever the map holds by then.
Mirrored(t, rec) ==
    LET new == rec = NoRec IN
    CASE op[t] = "take" ->
           IF new THEN Fresh(TRUE, NoSnap) ELSE [rec EXCEPT !.named = TRUE]
      [] op[t] = "report" ->
           IF new THEN Fresh(FALSE, num[t]) ELSE [rec EXCEPT !.last = num[t]]
      [] op[t] = "correct" ->
           IF new THEN NoRec ELSE [rec EXCEPT !.state = FailureMode]
      [] op[t] = "release" -> NoRec

Mirror(t) ==
    /\ At(t, "mirror")
    /\ entries' = [entries EXCEPT ![on[t]] = Mirrored(t, @)]
    /\ Goto(t, "emit")
    /\ UNCHANGED <<rows, snaps, phase, handed, reports, boots, failed, cut>>

\* The happening, which is the last thing before the verb returns.
EmitHappening(t) ==
    /\ At(t, "emit")
    /\ Done(t)
    /\ handed' = IF op[t] = "take" THEN handed \cup {on[t]} ELSE handed
    /\ UNCHANGED <<ledgerVars, phase, reports, boots, failed, cut>>

\* Over a steward's death the warden keeps what it holds, or any part of it.
WardenKeeps ==
    \E kept \in SUBSET Handles :
        phase' = [h \in Handles |-> IF phase[h] = "held" /\ h \notin kept THEN "lost" ELSE phase[h]]
\* A release the steward dies in after the warden has answered: the row stays.
Cut == {h \in Handles : \E v \in Verbs : on[v] = h /\ op[v] = "release" /\ At(v, "row")}

\* Mutant: boots without the snapshots.
RehydrateNoSnaps ==
    /\ boots < MaxBoots
    /\ boots' = boots + 1
    /\ entries' = [h \in Handles |->
         IF rows[h] = NoRow THEN NoRec
         ELSE [named |-> rows[h].named, state |-> rows[h].state, last |-> NoSnap]]
    /\ AllDone
    /\ WardenKeeps
    /\ cut' = cut \cup Cut
    /\ UNCHANGED <<rows, snaps, handed, reports, failed>>

\* The steward dies, anywhere, and boots.
rehydrate_from ==
    /\ boots < MaxBoots
    /\ boots' = boots + 1
    /\ entries' = [h \in Handles |->
         IF rows[h] = NoRow THEN NoRec
         ELSE [named |-> rows[h].named, state |-> rows[h].state, last |-> snaps[h]]]
    /\ AllDone
    /\ WardenKeeps
    /\ cut' = cut \cup Cut
    /\ UNCHANGED <<rows, snaps, handed, reports, failed>>

CustodyNext ==
    \/ \E v \in Verbs, h \in Handles :
         take_custody(v, h) \/ course_correct(v, h) \/ course_correct_fast(v, h)
           \/ release_custody(v, h)
    \/ \E v \in Verbs :
         TakeReturns(v) \/ ReleaseReturns(v) \/ dispatch_correction_to_warden(v)
           \/ ReadForCustody(v) \/ mark_custody_state(v) \/ delete_custody(v)
    \/ \E r \in Reporters, h \in Handles : report(r, h)
    \/ \E r \in Reporters : upsert_custody_state(r)
    \/ \E t \in Tasks :
         upsert_custody(t) \/ StoreFailure(t) \/ Mirror(t) \/ EmitHappening(t)
    \/ rehydrate_from

CustodySpec == CustodyInit /\ [][CustodyNext]_custodyVars

\* The ledger as list_active shows it.  A custody is gone for good once the warden has
\* let it go and neither the mirror nor the table has it.
Shown(h) ==
    LET over == rows[h] = NoRow /\ phase[h] \in {"released", "lost"}
    IN  IF entries[h] = NoRec THEN [stage |-> IF over THEN "gone" ELSE "absent", last |-> NoSnap]
        ELSE [stage |-> IF entries[h].named THEN "taken" ELSE "reported", last |-> entries[h].last]

View == INSTANCE CustodyView WITH view <- [h \in Handles |-> Shown(h)]

-----------------------------------------------------------------------------

\* Happenings are emitted after the ledger write they describe: at the emission of
\* CustodyTaken the record is there with its shelf and type, at the emission of a
\* state report the record shows that report or a later one, and at the emission
\* of a failure the record is not active.
HappeningsMatchLedger ==
    [][\A t \in Tasks : EmitHappening(t) =>
         LET rec == entries[on[t]] IN
         CASE op[t] = "take" -> rec # NoRec /\ rec.named
           [] op[t] = "report" -> rec # NoRec /\ rec.last >= num[t]
           [] op[t] = "correct" -> rec = NoRec \/ rec.state = FailureMode
           [] op[t] = "release" -> TRUE]_custodyVars

\* At the emission of CustodyReleased the record is gone.
ReleasedIsGone ==
    [][\A t \in Tasks : EmitHappening(t) /\ op[t] = "release" =>
         entries[on[t]] = NoRec]_custodyVars

\* A released custody leaves no record and no row behind once its tasks are done, and no
\* boot brings one back, unless a transaction failed or the steward died between the
\* warden's answer and delete_custody.
NoZombie ==
    ~failed => \A h \in Handles \ cut : phase[h] = "released" /\ On(h) = {} =>
        entries[h] = NoRec /\ rows[h] = NoRow /\ snaps[h] = NoSnap

\* What the mirror shows was written through: whatever fails on the way, a record at
\* rest has its row, its names and its snapshot on disk.
MemoryNotAhead ==
    \A h \in Handles : On(h) = {} /\ entries[h] # NoRec =>
        /\ rows[h] # NoRow
        /\ entries[h].named => rows[h].named
        /\ entries[h].last = snaps[h]

\* While no transaction has failed, the disk holds nothing the mirror lacks either.
DiskNotAhead ==
    ~failed => \A h \in Handles : On(h) = {} /\ rows[h] # NoRow =>
        entries[h] # NoRec /\ rows[h].named = entries[h].named

\* Every step of the verbs, the reports, the failures and the boot shows the consumers
\* of the ledger a step of CustodyView or none: records move forward only.
ImplementsView == View!ViewSpec
=============================================================================
