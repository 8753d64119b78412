----------------------------- MODULE MCIdentity -----------------------------
(***************************************************************************)
(* Instance of the subject registry and of the relation graph, each by     *)
(* itself: a behaviour is of one of them, its focus.                       *)
(***************************************************************************)
EXTENDS SubjectRegistry, RelationGraph, TLC

CONSTANTS MaxRelations, MaxMarks

VARIABLE focus

identityVars == <<regVars, graphVars, focus>>

IdentityInit == focus \in {"subjects", "relations"} /\ RegInit /\ GraphInit

\* Steps that change nothing are tried on small states only: they add no state.
SubjectPart ==
    /\ focus = "subjects" /\ UNCHANGED <<focus, graphVars>>
    /\ RegNext /\ (minted <= 1 \/ regVars' # regVars)
RelationPart ==
    /\ focus = "relations" /\ UNCHANGED <<focus, regVars>>
    /\ GraphNext /\ (Cardinality(relations) <= 1 \/ graphVars' # graphVars)

IdentitySpec == IdentityInit /\ [][SubjectPart \/ RelationPart]_identityVars

\* Graphs of more than MaxRelations edges, or more than MaxMarks claims and suppressions
\* on them, are checked and not extended.
Marks == {<<k, p>> \in relations \X Claimants : p \in claims[k]}
           \cup {<<k, "suppressed">> : k \in relations \ Visible}
SmallGraph == Cardinality(relations) <= MaxRelations /\ Cardinality(Marks) <= MaxMarks

\* The instances name nodes after addressings and claimants after plugins.
IdentitySymmetry == Permutations(Plugins) \cup Permutations(Addressings) \cup Permutations(Reasons)
=============================================================================
