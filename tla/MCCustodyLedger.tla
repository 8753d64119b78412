-------------------------- MODULE MCCustodyLedger --------------------------
\* Instances of CustodyLedger for TLC.
EXTENDS CustodyLedger, TLC

CustodySymmetry == Permutations(Handles) \cup Permutations(Verbs) \cup Permutations(Reporters)
=============================================================================
