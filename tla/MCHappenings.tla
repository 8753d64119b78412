---------------------------- MODULE MCHappenings ----------------------------
\* Instances of HappeningSubscription for TLC.
EXTENDS HappeningSubscription, TLC

AcceptAll == [s \in Subscribers |-> Kinds]

EmitterSymmetry == Permutations(Emitters)

\* The happenings of all boots, the ones on their way included.
Minted == Observed \cup UNION {Range(emitter[e].batch) : e \in Tasks}
Legacy == {q \in Minted : ~q.durable}

\* Bounds over all boots: MaxSeq happenings, one of them by the legacy emit and one of the
\* kind no coalescer labels.
FewHappenings ==
    /\ Cardinality(Minted) <= MaxSeq
    /\ Cardinality(Legacy) <= 1 /\ \A q \in Legacy : q.kind = "a"
    /\ Cardinality({q \in Minted : q.kind = "t"}) <= 1
=============================================================================
