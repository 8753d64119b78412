----------------------------- MODULE CustodyView -----------------------------
(***************************************************************************)
(* What the custody ledger promises whoever lists it (list_active,         *)
(* CUSTODY.md): the record of a custody moves forward only.  It may appear *)
(* with the warden's first report, gets its shelf and type with the take,  *)
(* shows reports in their order and, once gone, is gone, whatever tasks    *)
(* interleave and whenever the steward dies.                               *)
(***************************************************************************)
EXTENDS Integers

CONSTANTS Handles, MaxReports

VARIABLE view   \* per handle: the stage of its record and the last report shown

ViewRecord == [stage : {"absent", "reported", "taken"}, last : 0..MaxReports]
Absent == [stage |-> "absent", last |-> 0]
Gone == [stage |-> "gone", last |-> 0]

ViewInit == view = [h \in Handles |-> Absent]

Becomes(h, new) == view' = [view EXCEPT ![h] = new]

\* The record shows a newer report.
ShowReport(h) ==
    \E n \in 1..MaxReports :
        /\ view[h] # Gone /\ view[h].last < n
        /\ Becomes(h, [stage |-> IF view[h].stage = "taken" THEN "taken" ELSE "reported",
                       last |-> n])

\* The record gets its shelf and type.
ShowTake(h) ==
    /\ view[h].stage \in {"absent", "reported"}
    /\ Becomes(h, [view[h] EXCEPT !.stage = "taken"])

\* Released, refused or lost with the steward.
Leave(h) == view[h] # Gone /\ Becomes(h, Gone)

Forward(old, new) ==
    \/ new = Gone
    \/ /\ old # Gone /\ new \in ViewRecord
       /\ old.last <= new.last
       /\ old.stage = "reported" => new.stage # "absent"
       /\ old.stage = "taken" => new.stage = "taken"

\* A boot shows what was on disk and not shown yet, for any number of records.
Boot ==
    /\ view' = [h \in Handles |-> view'[h]]
    /\ \A h \in Handles : Forward(view[h], view'[h])

ViewNext == Boot \/ \E h \in Handles : ShowReport(h) \/ ShowTake(h) \/ Leave(h)

ViewSpec == ViewInit /\ [][ViewNext]_view
=============================================================================
