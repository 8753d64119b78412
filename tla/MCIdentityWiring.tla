-------------------------- MODULE MCIdentityWiring --------------------------
\* Instances of IdentityWiring for TLC.
EXTENDS IdentityWiring, TLC

CONSTANT MaxRelations

\* Graphs of more than MaxRelations edges are checked and not extended.
SmallGraph == Cardinality(relations) <= MaxRelations

WiringSymmetry ==
    Permutations(Plugins) \cup Permutations(Addressings) \cup Permutations(Tasks)
=============================================================================
