--------------------------- MODULE MCWiringSerial ---------------------------
(***************************************************************************)
(* Instance of IdentityWiring with one handler at a time, bounded by the   *)
(* mix of handlers: while there is no relation, the subject handlers with  *)
(* a restart; or announce, retract and the relation handlers on two        *)
(* subjects of one type in a longer sequence without one.                  *)
(***************************************************************************)
EXTENDS MCIdentityWiring

CONSTANTS SubjectCalls, RelationCalls   \* bounds on the calls of a mix

Doing(op) == \E t \in Tasks : At(t, op)
Seen == {a \in Addressings : addressings[a] # NoId \/ d_addressings[a] # NoRow}

SubjectMix ==
    /\ calls <= SubjectCalls
    /\ relations = {} /\ d_relations = {}
    /\ ~Doing("resolve_target")
RelationMix ==
    /\ calls <= RelationCalls
    /\ boots = 1 /\ minted <= 2 /\ Cardinality(Seen) <= 2
    /\ \A i \in Ids : states[i] = NoState /\ subject_type[i] # "u"

\* States outside both mixes are checked and not extended.
InMix == SubjectMix' \/ RelationMix'
=============================================================================
