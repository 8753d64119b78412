--------------------------- MODULE IdentityProofs ---------------------------
(***************************************************************************)
(* Theorems about the subject registry and the relation graph, for every   *)
(* set of plugins, addressings, types and states, of nodes, predicates,    *)
(* claimants and reasons, and every bound.                                 *)
(***************************************************************************)
EXTENDS SubjectRegistry, RelationGraph, FiniteSetTheorems, TLAPS

\* The four facts are preserved together: an index entry is right only because an
\* absent triple carries no marker, and a collapse keeps a claimant only because
\* every record that reaches it had one.
GraphInv == GraphTypeOK /\ IndicesExact /\ ClaimedOrGone /\ MarkersOnRelations

\* No marker that suppress writes can be read as "not suppressed".
LEMMA MarkerIsNotNone == \A m \in Marker : m # NoMarker
  BY GraphAssumption DEF Marker, NoMarker

\* Substituting a node in a key yields a key without the old node.
LEMMA SubstituteKey ==
  ASSUME NEW k \in Key, NEW x \in Nodes, NEW y \in Nodes, x # y
  PROVE  Substitute(k, x, y) \in Key /\ ~Mentions(Substitute(k, x, y), x)
  BY DEF Key, Substitute, Mentions

\* Dropping any set of relations keeps the invariant (retract, forget cascade).
LEMMA DropInv ==
  ASSUME NEW keys, GraphInv, Drop(keys)
  PROVE  GraphInv'
  <1>1. GraphTypeOK'
    BY DEF GraphInv, GraphTypeOK, Drop
  <1>2. IndicesExact'
    BY DEF GraphInv, GraphTypeOK, IndicesExact, Visible, Drop
  <1>3. ClaimedOrGone'
    BY DEF GraphInv, GraphTypeOK, ClaimedOrGone, Drop
  <1>4. MarkersOnRelations'
    BY DEF GraphInv, GraphTypeOK, MarkersOnRelations, Drop
  <1>5. QED
    BY <1>1, <1>2, <1>3, <1>4 DEF GraphInv

\* assert, on a new or on an existing triple, keeps the invariant.
LEMMA AssertInv ==
  ASSUME NEW k \in Key, NEW p \in Claimants, GraphInv, assert(k, p)
  PROVE  GraphInv'
  <1>1. GraphTypeOK'
    BY DEF GraphInv, GraphTypeOK, assert
  <1>2. IndicesExact'
    BY DEF GraphInv, GraphTypeOK, IndicesExact, Visible, MarkersOnRelations, assert
  <1>3. ClaimedOrGone'
    BY DEF GraphInv, GraphTypeOK, ClaimedOrGone, assert
  <1>4. MarkersOnRelations'
    BY DEF GraphInv, GraphTypeOK, MarkersOnRelations, assert
  <1>5. QED
    BY <1>1, <1>2, <1>3, <1>4 DEF GraphInv

\* Removing one claimant, the last one included, keeps the invariant.
LEMMA RemoveClaimantInv ==
  ASSUME NEW k \in Key, NEW p \in Claimants, GraphInv, RemoveClaimant(k, p)
  PROVE  GraphInv'
  <1>1. CASE claims[k] = {p}
    BY <1>1, DropInv DEF RemoveClaimant
  <1>2. CASE claims[k] # {p}
    <2>1. /\ claims' = [claims EXCEPT ![k] = @ \ {p}]
          /\ UNCHANGED <<relations, suppression, forward, inverse>>
          /\ k \in relations /\ p \in claims[k]
      BY <1>2 DEF RemoveClaimant
    <2>2. GraphTypeOK'
      BY <2>1 DEF GraphInv, GraphTypeOK
    <2>3. IndicesExact'
      BY <2>1 DEF GraphInv, IndicesExact, Visible
    <2>4. claims[k] \ {p} # {}
      BY <1>2, <2>1
    <2>5. ClaimedOrGone'
      BY <2>1, <2>4 DEF GraphInv, GraphTypeOK, ClaimedOrGone
    <2>6. MarkersOnRelations'
      BY <2>1 DEF GraphInv, MarkersOnRelations
    <2>7. QED
      BY <2>2, <2>3, <2>5, <2>6 DEF GraphInv
  <1>3. QED
    BY <1>1, <1>2

\* suppress, first or repeated, keeps the invariant.
LEMMA SuppressInv ==
  ASSUME NEW k \in Key, NEW p \in Claimants, NEW why \in Reasons,
         GraphInv, suppress(k, p, why)
  PROVE  GraphInv'
  <1> DEFINE m == [admin |-> p, reason |-> why]
  <1>0. /\ k \in relations
        /\ UNCHANGED <<relations, claims>>
        /\ GraphTypeOK
    BY DEF suppress, GraphInv
  <1>1. ClaimedOrGone'
    BY <1>0 DEF GraphInv, ClaimedOrGone
  <1>2. CASE suppression[k] = NoMarker
    <2>1. /\ suppression' = [suppression EXCEPT ![k] = m]
          /\ forward' = forward \ {k}
          /\ inverse' = inverse \ {k}
      BY <1>2 DEF suppress
    <2>2. m \in Marker /\ m # NoMarker
      BY MarkerIsNotNone DEF Marker
    <2>3. GraphTypeOK'
      BY <1>0, <2>1, <2>2 DEF GraphTypeOK
    <2>4. IndicesExact'
      BY <1>0, <2>1, <2>2 DEF GraphInv, GraphTypeOK, IndicesExact, Visible
    <2>5. MarkersOnRelations'
      BY <1>0, <2>1 DEF GraphInv, GraphTypeOK, MarkersOnRelations
    <2>6. QED
      BY <1>1, <2>3, <2>4, <2>5 DEF GraphInv
  <1>3. CASE suppression[k] # NoMarker
    <2>1. /\ suppression' = [suppression EXCEPT ![k].reason = why]
          /\ UNCHANGED <<forward, inverse>>
      BY <1>3 DEF suppress
    <2>2. suppression[k] \in Marker
      BY <1>0, <1>3 DEF GraphTypeOK
    <2> DEFINE n == [suppression[k] EXCEPT !.reason = why]
    <2>3. n \in Marker
      BY <2>2 DEF Marker
    <2>4. n # NoMarker
      BY <2>3, MarkerIsNotNone
    <2>5. suppression' = [suppression EXCEPT ![k] = n]
      BY <2>1
    <2> HIDE DEF n
    <2>6. GraphTypeOK'
      BY <1>0, <2>1, <2>3, <2>5 DEF GraphTypeOK
    <2>7. IndicesExact'
      BY <1>0, <1>3, <2>1, <2>4, <2>5 DEF GraphInv, GraphTypeOK, IndicesExact, Visible
    <2>8. MarkersOnRelations'
      BY <1>0, <2>5 DEF GraphInv, GraphTypeOK, MarkersOnRelations
    <2>9. QED
      BY <1>1, <2>6, <2>7, <2>8 DEF GraphInv
  <1>4. QED
    BY <1>2, <1>3

\* unsuppress restores both index entries.
LEMMA UnsuppressInv ==
  ASSUME NEW k \in Key, GraphInv, unsuppress(k)
  PROVE  GraphInv'
  <1>1. GraphTypeOK'
    BY DEF GraphInv, GraphTypeOK, unsuppress
  <1>2. IndicesExact'
    BY DEF GraphInv, GraphTypeOK, IndicesExact, Visible, unsuppress
  <1>3. ClaimedOrGone'
    BY DEF GraphInv, ClaimedOrGone, unsuppress
  <1>4. MarkersOnRelations'
    BY DEF GraphInv, GraphTypeOK, MarkersOnRelations, unsuppress
  <1>5. QED
    BY <1>1, <1>2, <1>3, <1>4 DEF GraphInv

\* The redistribution both cascades are made of keeps the invariant, whatever
\* records meet on a key and whichever of them came first.
LEMMA RedistributeInv ==
  ASSUME NEW old \in SUBSET relations, NEW dest \in [old -> SUBSET Key],
         \A k \in old : dest[k] \cap old = {},
         GraphInv, Redistribute(old, dest)
  PROVE  GraphInv'
  <1> DEFINE kept == relations \ old
             new == UNION {dest[k] : k \in old}
             From(n) == {k \in old : n \in dest[k]}
             Marks(first) == [n \in Key |->
                  IF n \in kept THEN suppression[n]
                  ELSE IF n \in new THEN suppression[first[n]] ELSE NoMarker]
             shown == {n \in new \ kept : suppression'[n] = NoMarker}
  <1>1. /\ relations' = kept \cup new
        /\ claims' = [n \in Key |->
             (IF n \in kept THEN claims[n] ELSE {}) \cup UNION {claims[k] : k \in From(n)}]
        /\ forward' = (forward \ old) \cup shown
        /\ inverse' = (inverse \ old) \cup shown
    BY DEF Redistribute
  <1>2. PICK first \in [new -> old] : /\ \A n \in new : n \in dest[first[n]]
                                      /\ suppression' = Marks(first)
    BY Zenon DEF Redistribute
  <1>3. /\ GraphTypeOK /\ IndicesExact /\ ClaimedOrGone /\ MarkersOnRelations
        /\ old \subseteq Key
        /\ new \subseteq Key
        /\ new \cap old = {}
    BY DEF GraphInv, GraphTypeOK
  <1>4. \A n \in Key : From(n) # {} <=> n \in new
    OBVIOUS
  <1>5. suppression' \in [Key -> Marker \cup {NoMarker}]
    <2>1. \A n \in new : first[n] \in Key
      BY <1>2, <1>3
    <2>2. QED
      BY <1>2, <1>3, <2>1 DEF GraphTypeOK
  <1>6. claims' \in [Key -> SUBSET Claimants]
    BY <1>1, <1>3 DEF GraphTypeOK
  <1>7. GraphTypeOK'
    BY <1>1, <1>3, <1>5, <1>6 DEF GraphTypeOK
  <1>8. MarkersOnRelations'
    BY <1>1, <1>2 DEF MarkersOnRelations
  <1>9. Visible' = (Visible \ old) \cup shown
    <2>1. \A n \in kept : n \in Key /\ suppression'[n] = suppression[n]
      BY <1>2, <1>3 DEF GraphTypeOK
    <2>2. Visible' = {n \in kept \cup new : suppression'[n] = NoMarker}
      BY <1>1 DEF Visible
    <2> HIDE DEF new
    <2>3. QED
      BY <2>1, <2>2 DEF Visible
  <1>10. IndicesExact'
    BY <1>1, <1>3, <1>9 DEF IndicesExact
  <1>11. ClaimedOrGone'
    <2> SUFFICES ASSUME NEW n \in Key
                 PROVE  n \in relations' <=> claims'[n] # {}
      BY DEF ClaimedOrGone
    <2>1. \A k \in old : claims[k] # {}
      BY <1>3 DEF ClaimedOrGone
    <2>2. UNION {claims[k] : k \in From(n)} # {} <=> n \in new
      BY <1>4, <2>1
    <2>3. n \in kept => claims[n] # {}
      BY <1>3 DEF ClaimedOrGone
    <2>4. claims'[n] = (IF n \in kept THEN claims[n] ELSE {})
                          \cup UNION {claims[k] : k \in From(n)}
      BY <1>1
    <2> HIDE DEF new, From, kept
    <2>5. QED
      BY <1>1, <2>2, <2>3, <2>4
  <1>12. QED
    BY <1>7, <1>8, <1>10, <1>11 DEF GraphInv

-----------------------------------------------------------------------------
\* The merge cascade keeps the invariant.
LEMMA RewriteInv ==
  ASSUME NEW x \in Nodes, NEW y \in Nodes, GraphInv, rewrite_subject_to(x, y)
  PROVE  GraphInv'
  <1>1. CASE x = y
    BY <1>1 DEF rewrite_subject_to, graphVars, GraphInv, GraphTypeOK, IndicesExact,
                Visible, ClaimedOrGone, MarkersOnRelations
  <1>2. CASE x # y
    <2> DEFINE dest == [k \in Touching(x) |-> {Substitute(k, x, y)}]
    <2>1. Touching(x) \in SUBSET relations /\ relations \subseteq Key
      BY DEF Touching, GraphInv, GraphTypeOK
    <2>2. \A k \in Touching(x) : Substitute(k, x, y) \in Key /\ ~Mentions(Substitute(k, x, y), x)
      BY <1>2, <2>1, SubstituteKey
    <2>3. dest \in [Touching(x) -> SUBSET Key]
      BY <2>2
    <2>4. \A k \in Touching(x) : dest[k] \cap Touching(x) = {}
      BY <2>2 DEF Touching
    <2>5. Redistribute(Touching(x), dest)
      BY <1>2 DEF rewrite_subject_to
    <2> HIDE DEF dest
    <2>6. QED
      BY <2>1, <2>3, <2>4, <2>5, RedistributeInv
  <1>3. QED
    BY <1>1, <1>2

\* The split cascade keeps the invariant under every strategy.
LEMMA SplitInv ==
  ASSUME NEW x \in Nodes, NEW new_ids \in SUBSET (Nodes \ {x}), NEW first, NEW strategy,
         NEW explicit, GraphInv,
         \A k \in Touching(x) :
            Assigned(strategy, explicit, new_ids, first, k) \subseteq Nodes \ {x},
         split_relations(x, new_ids, first, strategy, explicit)
  PROVE  GraphInv'
  <1> DEFINE A(k) == Assigned(strategy, explicit, new_ids, first, k)
             dest == [k \in Touching(x) |-> {Substitute(k, x, n) : n \in A(k)}]
  <1>1. Touching(x) \in SUBSET relations /\ relations \subseteq Key
    BY DEF Touching, GraphInv, GraphTypeOK
  <1>2. \A k \in Touching(x) : \A n \in A(k) :
          Substitute(k, x, n) \in Key /\ ~Mentions(Substitute(k, x, n), x)
    BY <1>1, SubstituteKey
  <1>3. dest \in [Touching(x) -> SUBSET Key]
    <2> HIDE DEF A
    <2> QED BY <1>2
  <1>4. \A k \in Touching(x) : dest[k] \cap Touching(x) = {}
    <2> HIDE DEF A
    <2> QED BY <1>2 DEF Touching
  <1>5. Redistribute(Touching(x), dest)
    BY DEF split_relations
  <1> HIDE DEF dest
  <1>6. QED
    BY <1>1, <1>3, <1>4, <1>5, RedistributeInv

\* Every step of the graph keeps the invariant.
LEMMA NextInv ==
  ASSUME GraphInv, [GraphNext]_graphVars
  PROVE  GraphInv'
  <1>0. relations \subseteq Key
    BY DEF GraphInv, GraphTypeOK
  <1>1. ASSUME NEW k \in Key, NEW p \in Claimants, assert(k, p) PROVE GraphInv'
    BY <1>1, AssertInv
  <1>2. ASSUME NEW k \in relations, NEW p \in Claimants,
               retract_claim(k, p) \/ forced_retract_claim(k, p)
        PROVE GraphInv'
    BY <1>0, <1>2, RemoveClaimantInv DEF retract_claim, forced_retract_claim
  <1>3. ASSUME NEW k \in relations, NEW p \in Claimants, NEW why \in Reasons, suppress(k, p, why)
        PROVE GraphInv'
    BY <1>0, <1>3, SuppressInv
  <1>4. ASSUME NEW k \in relations, unsuppress(k) PROVE GraphInv'
    BY <1>0, <1>4, UnsuppressInv
  <1>5. ASSUME NEW x \in Nodes, forget_all_touching(x) PROVE GraphInv'
    BY <1>5, DropInv DEF forget_all_touching
  <1>6. ASSUME NEW x \in Nodes, NEW y \in Nodes, rewrite_subject_to(x, y) PROVE GraphInv'
    BY <1>6, RewriteInv
  <1>7. CASE Splits
    <2>0. PICK x \in Nodes : \E new_ids \in SUBSET (Nodes \ {x}) :
             \/ \E first \in new_ids : split_relations(x, new_ids, first, "to_first", <<>>)
             \/ \E some \in SUBSET Touching(x) : \E explicit \in [some -> new_ids] :
                  split_relations(x, new_ids, x, "explicit", explicit)
             \/ split_relations(x, new_ids, x, "to_both", <<>>)
      BY <1>7, Zenon DEF Splits
    <2>1. PICK new_ids \in SUBSET (Nodes \ {x}) :
             \/ \E first \in new_ids : split_relations(x, new_ids, first, "to_first", <<>>)
             \/ \E some \in SUBSET Touching(x) : \E explicit \in [some -> new_ids] :
                  split_relations(x, new_ids, x, "explicit", explicit)
             \/ split_relations(x, new_ids, x, "to_both", <<>>)
      BY <2>0
    <2>2. ASSUME NEW first \in new_ids, split_relations(x, new_ids, first, "to_first", <<>>)
          PROVE  GraphInv'
      <3>1. \A k \in Touching(x) : Assigned("to_first", <<>>, new_ids, first, k) \subseteq Nodes \ {x}
        BY DEF Assigned
      <3>2. QED
        BY <2>2, <3>1, SplitInv
    <2>3. ASSUME NEW some \in SUBSET Touching(x), NEW explicit \in [some -> new_ids],
                 split_relations(x, new_ids, x, "explicit", explicit)
          PROVE  GraphInv'
      <3>1. \A k \in Touching(x) : Assigned("explicit", explicit, new_ids, x, k) \subseteq Nodes \ {x}
        BY DEF Assigned
      <3>2. QED
        BY <2>3, <3>1, SplitInv
    <2>4. ASSUME split_relations(x, new_ids, x, "to_both", <<>>)
          PROVE  GraphInv'
      <3>1. \A k \in Touching(x) : Assigned("to_both", <<>>, new_ids, x, k) \subseteq Nodes \ {x}
        BY DEF Assigned
      <3>2. QED
        BY <2>4, <3>1, SplitInv
    <2>5. QED
      BY <2>1, <2>2, <2>3, <2>4
  <1>8. CASE UNCHANGED graphVars
    BY <1>8 DEF graphVars, GraphInv, GraphTypeOK, IndicesExact, Visible, ClaimedOrGone,
                MarkersOnRelations
  <1>9. QED
    BY <1>1, <1>2, <1>3, <1>4, <1>5, <1>6, <1>7, <1>8 DEF GraphNext

\* The empty graph satisfies the invariant.
LEMMA InitInv == GraphInit => GraphInv
  BY DEF GraphInit, GraphInv, GraphTypeOK, IndicesExact, Visible, ClaimedOrGone, MarkersOnRelations

\* The graph's invariant holds forever.
THEOREM GraphInvariant == GraphSpec => []GraphInv
  BY InitInv, NextInv, PTL DEF GraphSpec

\* neighbours and the counts, which read the two indices, see exactly the
\* unsuppressed relations, in both directions, in every reachable graph.
THEOREM GraphIndicesExact == GraphSpec => []IndicesExact
  <1>1. GraphInv => IndicesExact
    BY DEF GraphInv
  <1>2. QED
    BY <1>1, GraphInvariant, PTL

\* No relation outlives its last claimant, and none is claimed that is not there.
THEOREM GraphClaimedOrGone == GraphSpec => []ClaimedOrGone
  <1>1. GraphInv => ClaimedOrGone
    BY DEF GraphInv
  <1>2. QED
    BY <1>1, GraphInvariant, PTL


\* The redistribution behind a merge removes every edge on the retired id and
\* carries each edge's claimants to its image.
LEMMA RewriteCarries ==
  ASSUME NEW x \in Nodes, NEW y \in Nodes, x # y, GraphInv, rewrite_subject_to(x, y)
  PROVE  /\ \A k \in relations' : ~Mentions(k, x)
         /\ \A k \in relations : claims[k] \subseteq claims'[Substitute(k, x, y)]
  <1> DEFINE old == Touching(x)
             dest == [k \in old |-> {Substitute(k, x, y)}]
             kept == relations \ old
             new == UNION {dest[k] : k \in old}
             From(n) == {k \in old : n \in dest[k]}
  <1>1. /\ relations' = kept \cup new
        /\ claims' = [n \in Key |->
             (IF n \in kept THEN claims[n] ELSE {}) \cup UNION {claims[k] : k \in From(n)}]
    BY Zenon DEF rewrite_subject_to, Redistribute
  <1>2. old \subseteq relations /\ relations \subseteq Key /\ claims \in [Key -> SUBSET Claimants]
    BY DEF Touching, GraphInv, GraphTypeOK
  <1>3. \A k \in Key : Substitute(k, x, y) \in Key /\ ~Mentions(Substitute(k, x, y), x)
    BY SubstituteKey
  <1>4. \A k \in new : ~Mentions(k, x)
    BY <1>2, <1>3
  <1>5. \A k \in kept : ~Mentions(k, x)
    BY DEF Touching
  <1>6. ASSUME NEW k \in relations
        PROVE  claims[k] \subseteq claims'[Substitute(k, x, y)]
    <2>1. CASE k \in old
      <3>1. k \in From(Substitute(k, x, y))
        BY <2>1
      <3>2. QED
        BY <1>1, <1>2, <1>3, <3>1
    <2>2. CASE k \in kept
      <3>1. Substitute(k, x, y) = k
        BY <1>2, <1>5, <2>2 DEF Substitute, Mentions, Key
      <3>2. QED
        BY <1>1, <1>2, <2>2, <3>1
    <2>3. QED
      BY <2>1, <2>2
  <1>7. QED
    BY <1>1, <1>4, <1>5, <1>6, Zenon

\* rewrite_subject_to, on any graph the operations can build, leaves nothing on
\* the retired id and loses no claimant.
THEOREM GraphMergeCarriesClaims == GraphSpec => MergeCarriesClaims
  <1>1. GraphInv /\ [GraphNext]_graphVars =>
          [\A x, y \in Nodes : x # y /\ rewrite_subject_to(x, y) =>
             /\ \A k \in relations' : ~Mentions(k, x)
             /\ \A k \in relations : claims[k] \subseteq claims'[Substitute(k, x, y)]]_graphVars
    BY RewriteCarries
  <1>2. QED
    BY <1>1, GraphInvariant, PTL DEF GraphSpec, MergeCarriesClaims

-----------------------------------------------------------------------------
\* What holds of the ids whatever the announcements are: an id is live, or retired with an
\* alias entry, or not yet minted, and an alias entry names younger minted ids.
IdRule ==
    /\ live \subseteq Ids /\ minted \in Nat /\ minted <= MaxIds
    /\ aliases \in [Ids -> [kind : {"none", "tombstone", "merged", "split"}, to : SUBSET Ids]]
    /\ \A i \in Ids : /\ i \in live => aliases[i] = NoAlias
                      /\ i \in live \/ aliases[i] # NoAlias <=> i <= minted
    /\ AliasChainsEnd

\* Every addressing is listed at most once, by the subject the index names.
ListRule ==
    /\ subject_type \in [Ids -> Types \cup {NoType}]
    /\ addressings \in [Addressings -> Ids \cup {NoId}]
    /\ records \subseteq [subject : Ids, addressing : Addressings, claimant : Plugins, copy : {1}]
    /\ IndexAgrees
    /\ \A i \in live : \E a \in Addressings : addressings[a] = i

Row(i, a, p) == [subject |-> i, addressing |-> a, claimant |-> p, copy |-> 1]

\* The step of ProvenanceKept.
Provenance ==
    \A a \in Addressings :
      (addressings[a] # NoId /\ addressings'[a] # NoId) =>
          /\ Owner(records', a) = Owner(records, a)
          /\ TypeOf(a)' = TypeOf(a)

-----------------------------------------------------------------------------
\* What a step does to the ids: it keeps them, mints and retires some, or forgets one.
LEMMA IdsKept ==
    ASSUME IdRule, UNCHANGED <<live, aliases, minted>>
    PROVE  IdRule'
  BY DEF IdRule, AliasChainsEnd

LEMMA IdForgotten ==
    ASSUME IdRule, NEW i \in live, live' = live \ {i}, minted' = minted,
           aliases' = IF aliases[i] = NoAlias
                      THEN [aliases EXCEPT ![i] = Alias("tombstone", {})] ELSE aliases
    PROVE  IdRule'
<1>1. /\ aliases[i] = NoAlias /\ i \in Ids /\ i <= minted
      /\ aliases' = [aliases EXCEPT ![i] = Alias("tombstone", {})]
  BY DEF IdRule
<1>2. Alias("tombstone", {}) # NoAlias /\ Alias("tombstone", {}).to = {}
  BY DEF Alias, NoAlias
<1>3. aliases' \in [Ids -> [kind : {"none", "tombstone", "merged", "split"}, to : SUBSET Ids]]
  BY <1>1 DEF IdRule, Alias
<1>4. /\ aliases'[i] # NoAlias /\ aliases'[i].to = {}
      /\ \A j \in Ids : j # i => aliases'[j] = aliases[j]
  BY <1>1, <1>2 DEF IdRule
<1> QED
  BY <1>1, <1>3, <1>4 DEF IdRule, AliasChainsEnd

\* The old ids are retired in favour of n fresh ones; old may be empty.
LEMMA IdsReplaced ==
    ASSUME IdRule, NEW old \in SUBSET live, NEW n \in Nat, minted + n <= MaxIds,
           NEW kind \in {"merged", "split"},
           live' = (live \ old) \cup ((minted + 1)..(minted + n)), minted' = minted + n,
           aliases' = [j \in Ids |->
             IF j \in old THEN Alias(kind, (minted + 1)..(minted + n)) ELSE aliases[j]]
    PROVE  IdRule'
<1> DEFINE fresh == (minted + 1)..(minted + n)
<1>1. fresh \subseteq Ids /\ minted \in Nat /\ \A j \in fresh : j \in Nat /\ j > minted /\ j <= minted'
  BY RegistryAssumption DEF IdRule, Ids
<1>2. \A j \in live : j \in Ids /\ j \in Nat /\ j <= minted /\ j \notin fresh
  BY <1>1, RegistryAssumption DEF IdRule, Ids
<1>3. Alias(kind, fresh) # NoAlias /\ Alias(kind, fresh).to = fresh
  BY DEF Alias, NoAlias
<1>4. Alias(kind, fresh) \in [kind : {"none", "tombstone", "merged", "split"}, to : SUBSET Ids]
  BY <1>1 DEF Alias
<1>5. aliases' \in [Ids -> [kind : {"none", "tombstone", "merged", "split"}, to : SUBSET Ids]]
  BY <1>4 DEF IdRule
<1>6. live' \subseteq Ids /\ minted' \in Nat /\ minted' <= MaxIds
  BY <1>1, <1>2
<1>7. ASSUME NEW j \in Ids
      PROVE  /\ j \in live' => aliases'[j] = NoAlias
             /\ j \in live' \/ aliases'[j] # NoAlias <=> j <= minted'
             /\ \A k \in aliases'[j].to : j < k /\ k <= minted'
  <2>1. CASE j \in old
    <3>1. aliases'[j] = Alias(kind, fresh) /\ j \in live /\ j \notin live'
      BY <1>2, <2>1
    <3> QED
      BY <1>1, <1>2, <1>3, <3>1
  <2>2. CASE j \notin old
    <3>1. /\ aliases'[j] = aliases[j] /\ (j \in live' <=> j \in live \/ j \in fresh) /\ j \in Nat
      BY <2>2, RegistryAssumption DEF Ids
    <3>2. /\ j \in live => aliases[j] = NoAlias
          /\ j \in live \/ aliases[j] # NoAlias <=> j <= minted
          /\ \A k \in aliases[j].to : j < k /\ k <= minted /\ k \in Nat
      BY RegistryAssumption DEF IdRule, AliasChainsEnd, Ids
    <3>3. j \in fresh <=> j > minted /\ j <= minted'
      BY <1>1, <3>1
    <3> QED
      BY <1>1, <3>1, <3>2, <3>3
  <2> QED
    BY <2>1, <2>2
<1> QED
  BY <1>5, <1>6, <1>7 DEF IdRule, AliasChainsEnd

\* Every operation of the registry keeps the rule of the ids.
LEMMA IdsStep ==
    ASSUME IdRule, [RegNext]_regVars
    PROVE  IdRule'
<1>1. ASSUME NEW p \in Plugins, NEW ann \in Announcements, announce(p, ann) PROVE IdRule'
  <2>1. CASE AnnounceCreates(p, ann)
    <3>1. /\ live' = live \cup {minted + 1} /\ minted' = minted + 1 /\ minted < MaxIds
          /\ aliases' = aliases /\ minted \in Nat
      BY <2>1 DEF AnnounceCreates, IdRule
    <3>2. /\ live' = (live \ {}) \cup ((minted + 1)..(minted + 1))
          /\ minted + 1 <= MaxIds
      BY <3>1, RegistryAssumption
    <3>3. aliases' = [j \in Ids |->
             IF j \in {} THEN Alias("merged", (minted + 1)..(minted + 1)) ELSE aliases[j]]
      BY <3>1 DEF IdRule
    <3>4. PICK n \in Nat, old \in SUBSET live, kind \in {"merged", "split"} :
            n = 1 /\ old = {} /\ kind = "merged"
      BY Zenon
    <3> QED
      BY <3>1, <3>2, <3>3, <3>4, IdsReplaced, Zenon
  <2>2. CASE \E i \in Ids : AnnounceAdds(p, ann, i)
    BY <2>2, IdsKept DEF AnnounceAdds
  <2>3. CASE AnnounceKeeps(ann)
    BY <2>3, IdsKept DEF AnnounceKeeps, regVars
  <2> QED
    BY <1>1, <2>1, <2>2, <2>3 DEF announce
<1>2. ASSUME NEW p \in Plugins, NEW a \in Addressings, RemoveClaim(a, p) PROVE IdRule'
  <2> DEFINE i == addressings[a]
             row == CHOOSE r \in ClaimRows(i, a, p) : \A q \in ClaimRows(i, a, p) : q.copy <= r.copy
             forget == \A r \in records \ {row} : r.subject # i
  <2>1. /\ i \in live /\ minted' = minted
        /\ live' = IF forget THEN live \ {i} ELSE live
        /\ aliases' = IF forget /\ aliases[i] = NoAlias
                      THEN [aliases EXCEPT ![i] = Alias("tombstone", {})] ELSE aliases
    BY <1>2 DEF RemoveClaim
  <2> HIDE DEF i, forget
  <2>2. CASE forget
    BY <2>1, <2>2, IdForgotten
  <2>3. CASE ~forget
    BY <2>1, <2>3, IdsKept
  <2> QED
    BY <2>2, <2>3
<1>3. ASSUME NEW x \in Ids, NEW y \in Ids, merge_aliases(x, y) PROVE IdRule'
  <2>1. /\ {x, y} \subseteq live /\ minted < MaxIds /\ minted' = minted + 1 /\ minted \in Nat
        /\ live' = (live \ {x, y}) \cup {minted + 1}
        /\ aliases' = [j \in Ids |-> IF j \in {x, y} THEN Alias("merged", {minted + 1}) ELSE aliases[j]]
    BY <1>3, Zenon DEF merge_aliases, IdRule
  <2>2. {minted + 1} = (minted + 1)..(minted + 1) /\ minted + 1 <= MaxIds
    BY <2>1, RegistryAssumption
  <2>3. PICK n \in Nat, old \in SUBSET live, kind \in {"merged", "split"} :
          n = 1 /\ old = {x, y} /\ kind = "merged"
    BY <2>1, Zenon
  <2> QED
    BY <2>1, <2>2, <2>3, IdsReplaced, Zenon
<1>4. ASSUME NEW x \in Ids, NEW n \in 2..MaxGroups, NEW group \in Groupings(x, n),
             split_subject(x, n, group)
      PROVE  IdRule'
  <2>1. /\ x \in live /\ minted + n <= MaxIds /\ minted' = minted + n
        /\ live' = (live \ {x}) \cup ((minted + 1)..(minted + n))
        /\ aliases' = [aliases EXCEPT ![x] = Alias("split", (minted + 1)..(minted + n))]
    BY <1>4, Zenon DEF split_subject
  <2>2. aliases' = [j \in Ids |->
          IF j \in {x} THEN Alias("split", (minted + 1)..(minted + n)) ELSE aliases[j]]
    BY <2>1, Zenon DEF IdRule
  <2>3. n \in Nat
    BY RegistryAssumption
  <2>4. PICK old \in SUBSET live, kind \in {"merged", "split"} : old = {x} /\ kind = "split"
    BY <2>1, Zenon
  <2> QED
    BY <2>1, <2>2, <2>3, <2>4, IdsReplaced, ZenonT(60)
<1>5. ASSUME NEW x \in Ids, NEW st \in States \cup {NoState}, update_state(x, st) PROVE IdRule'
  BY <1>5, IdsKept DEF update_state
<1>6. CASE UNCHANGED regVars
  BY <1>6, IdsKept DEF regVars
<1> QED
  BY <1>1, <1>2, <1>3, <1>4, <1>5, <1>6 DEF RegNext, retract, forced_retract_addressing

\* Nothing is minted at first.
LEMMA IdsInit == RegInit => IdRule
<1> SUFFICES ASSUME RegInit PROVE IdRule
  BY Zenon
<1>1. NoAlias = [kind |-> "none", to |-> {}]
  BY DEF NoAlias
<1>2. live = {} /\ minted = 0 /\ aliases = [i \in Ids |-> NoAlias]
  BY Zenon DEF RegInit
<1>3. MaxIds \in Nat /\ \A i \in Ids : ~(i <= 0)
  BY RegistryAssumption DEF Ids
<1>4. aliases \in [Ids -> [kind : {"none", "tombstone", "merged", "split"}, to : SUBSET Ids]]
  BY <1>1, <1>2
<1>5. AliasChainsEnd
  BY <1>1, <1>2 DEF AliasChainsEnd
<1> QED
  BY <1>2, <1>3, <1>4, <1>5 DEF IdRule

\* An alias leads to younger ids that exist, whatever plugins announce: following aliases from
\* any id ends (aliases_try_insert, merge_aliases, split_subject, forget_subject).
THEOREM RegistryAliasChainsEnd == RegSpec => []AliasChainsEnd
<1>1. RegInit => IdRule
  BY IdsInit
<1>2. IdRule => AliasChainsEnd
  BY DEF IdRule
<1> QED
  BY <1>1, <1>2, IdsStep, PTL DEF RegSpec

-----------------------------------------------------------------------------
LEMMA LiveIsMinted ==
    ASSUME IdRule
    PROVE  \A j \in live : j \in Ids /\ j \in Nat /\ j # NoId /\ j <= minted
  BY RegistryAssumption DEF IdRule, Ids, NoId

LEMMA RowRenamed ==
    ASSUME NEW i, NEW r \in [subject : Ids, addressing : Addressings, claimant : Plugins, copy : {1}]
    PROVE  [r EXCEPT !.subject = i, !.copy = 1] = Row(i, r.addressing, r.claimant)
<1>1. r = [subject |-> r.subject, addressing |-> r.addressing, claimant |-> r.claimant, copy |-> 1]
  OBVIOUS
<1>2. PICK j, a, p : j = r.subject /\ a = r.addressing /\ p = r.claimant
  OBVIOUS
<1>3. r = [subject |-> j, addressing |-> a, claimant |-> p, copy |-> 1]
  BY <1>1, <1>2
<1>4. [r EXCEPT !.subject = i] = [subject |-> i, addressing |-> a, claimant |-> p, copy |-> 1]
  BY <1>3
<1>5. [[r EXCEPT !.subject = i] EXCEPT !.copy = 1] = Row(i, a, p)
  BY <1>4, Zenon DEF Row
<1> QED
  BY <1>2, <1>5

\* No subject but the one the index names lists an addressing.
LEMMA RowsElsewhere ==
    ASSUME ListRule, NEW i, NEW a \in Addressings, NEW p, addressings[a] # i
    PROVE  ClaimRows(i, a, p) = {} /\ Cardinality(ClaimRows(i, a, p)) = 0
<1>1. ClaimRows(i, a, p) = {}
  BY DEF ListRule, IndexAgrees, ClaimRows, RowsOf
<1> QED
  BY <1>1, FS_EmptySet

\* An announcement that names every addressing once adds one row for each.
LEMMA RowsOfAnnouncement ==
    ASSUME MaxCopies = 1, ListRule, NEW i \in Ids, NEW p \in Plugins, NEW ann \in Announcements,
           NEW as \in SUBSET DOMAIN ann.copies, \A a \in as : addressings[a] = NoId
    PROVE  /\ NewRows(i, p, as, ann.copies) = {Row(i, a, p) : a \in as}
           /\ as \subseteq Addressings
<1>1. PICK named \in SUBSET Addressings : ann.copies \in [named -> 1..1]
  BY DEF Announcements
<1>2. as \subseteq named
  BY <1>1, Zenon
<1>3. ASSUME NEW a \in as PROVE 1..ann.copies[a] = {1}
  <2>0. ann.copies[a] \in 1..1
    BY <1>1, <1>2, Zenon
  <2>1. ann.copies[a] = 1
    BY <2>0
  <2> QED
    BY <2>1
<1>4. i # NoId
  BY RegistryAssumption DEF Ids, NoId
<1>5. ASSUME NEW a \in as PROVE Cardinality(ClaimRows(i, a, p)) = 0
  <2>1. a \in Addressings /\ addressings[a] # i
    BY <1>1, <1>2, <1>4, Zenon
  <2> QED
    BY <2>1, RowsElsewhere
<1> DEFINE rows(a) == {[subject |-> i, addressing |-> a, claimant |-> p,
                        copy |-> Cardinality(ClaimRows(i, a, p)) + k] : k \in 1..ann.copies[a]}
<1>6. ASSUME NEW a \in as PROVE rows(a) = {Row(i, a, p)}
  <2>1. 0 + 1 = 1
    OBVIOUS
  <2> QED
    BY <1>3, <1>5, <2>1, Zenon DEF Row
<1>7. NewRows(i, p, as, ann.copies) = UNION {rows(a) : a \in as}
  BY DEF NewRows
<1> HIDE DEF rows
<1>8. NewRows(i, p, as, ann.copies) = {Row(i, a, p) : a \in as}
  <2>1. \A x : x \in UNION {rows(a) : a \in as} <=> \E a \in as : x \in rows(a)
    BY Zenon
  <2>2. \A x : (\E a \in as : x \in rows(a)) <=> \E a \in as : x = Row(i, a, p)
    BY <1>6, Zenon
  <2>3. \A x : x \in NewRows(i, p, as, ann.copies) <=> x \in {Row(i, a, p) : a \in as}
    BY <1>7, <2>1, <2>2, Zenon
  <2> QED
    BY <2>3, Zenon
<1> QED
  BY <1>1, <1>2, <1>8, Zenon

\* A plugin's announcement adds addressings nobody had.
LEMMA RowsAdded ==
    ASSUME IdRule, ListRule, NEW i \in Ids, NEW p \in Plugins, NEW as \in SUBSET Addressings, as # {},
           \A a \in as : addressings[a] = NoId,
           records' = records \cup {Row(i, a, p) : a \in as},
           addressings' = [a \in Addressings |-> IF a \in as THEN i ELSE addressings[a]],
           live' = live \cup {i},
           subject_type' \in [Ids -> Types \cup {NoType}],
           \A j \in live : subject_type'[j] = subject_type[j]
    PROVE  ListRule' /\ Provenance
<1>1. \A a \in as : Row(i, a, p).subject = i /\ Row(i, a, p).addressing = a
  BY DEF Row
<1>t. \A a \in as : Row(i, a, p) \in [subject : Ids, addressing : Addressings,
                                      claimant : Plugins, copy : {1}]
  BY Zenon DEF Row
<1>2. \A r \in records : /\ r.subject \in live /\ r.addressing \in Addressings \ as
                         /\ addressings[r.addressing] = r.subject
  <2>1. \A j \in live : j # NoId
    BY RegistryAssumption DEF IdRule, Ids, NoId
  <2>2. \A r \in records : r.subject \in live /\ addressings[r.addressing] = r.subject
    BY DEF ListRule, IndexAgrees
  <2>3. \A r \in records : r.addressing \in Addressings
    BY DEF ListRule
  <2> QED
    BY <2>1, <2>2, <2>3, ZenonT(60)
<1>r. \A r : r \in records' <=> r \in records \/ \E a \in as : r = Row(i, a, p)
  BY Zenon
<1>3. /\ addressings' \in [Addressings -> Ids \cup {NoId}]
      /\ \A a \in as : addressings'[a] = i
      /\ \A a \in Addressings \ as : addressings'[a] = addressings[a]
  BY Zenon DEF ListRule
<1>4. records' \subseteq [subject : Ids, addressing : Addressings, claimant : Plugins, copy : {1}]
  <2>1. records \subseteq [subject : Ids, addressing : Addressings, claimant : Plugins, copy : {1}]
    BY DEF ListRule
  <2> QED
    BY <1>t, <1>r, <2>1, Zenon
<1>5. ASSUME NEW r \in records' PROVE r.subject \in live' /\ addressings'[r.addressing] = r.subject
  <2>1. CASE r \in records
    BY <1>2, <1>3, <2>1, Zenon
  <2>2. ASSUME NEW a \in as, r = Row(i, a, p) PROVE r.subject \in live' /\ addressings'[r.addressing] = r.subject
    <3>1. r.subject = i /\ r.addressing = a
      BY <1>1, <2>2, Zenon
    <3> QED
      BY <1>3, <3>1, Zenon
  <2> QED
    BY <1>r, <2>1, <2>2, Zenon
<1>6. ASSUME NEW a \in Addressings, addressings'[a] # NoId PROVE \E r \in records' : r.addressing = a
  <2>1. CASE a \in as
    BY <1>1, <2>1, Zenon
  <2>2. CASE a \notin as
    BY <1>3, <1>6, <2>2, Zenon DEF ListRule, IndexAgrees
  <2> QED
    BY <2>1, <2>2, Zenon
<1>7. ASSUME NEW r \in records', NEW q \in records', r.addressing = q.addressing PROVE r = q
  <2>1. CASE r \in records
    <3>1. q \in records
      <4>1. q.addressing \notin as
        BY <1>2, <1>7, <2>1, Zenon
      <4>2. \A a \in as : q # Row(i, a, p)
        BY <1>1, <4>1, Zenon
      <4> QED
        BY <1>r, <4>2, Zenon
    <3> QED
      BY <1>7, <2>1, <3>1 DEF ListRule, IndexAgrees
  <2>2. CASE r \notin records
    <3>1. PICK a \in as : r = Row(i, a, p)
      BY <2>2, Zenon
    <3>2. q \notin records
      BY <1>1, <1>2, <1>7, <3>1, Zenon
    <3>3. PICK b \in as : q = Row(i, b, p)
      BY <3>2, Zenon
    <3> QED
      BY <1>1, <1>7, <3>1, <3>3, Zenon
  <2> QED
    BY <2>1, <2>2
<1>8. ASSUME NEW j \in live' PROVE \E a \in Addressings : addressings'[a] = j
  <2>1. CASE j = i
    BY <1>3, <2>1, Zenon
  <2>2. CASE j # i
    <3>1. PICK a \in Addressings : addressings[a] = j
      BY <2>2 DEF ListRule
    <3>2. j # NoId
      BY <2>2, RegistryAssumption DEF IdRule, Ids, NoId
    <3> QED
      BY <1>3, <3>1, <3>2, Zenon
  <2> QED
    BY <2>1, <2>2, Zenon
<1>9. ListRule'
  BY <1>3, <1>4, <1>5, <1>6, <1>7, <1>8, Zenon DEF ListRule, IndexAgrees
<1>10. ASSUME NEW a \in Addressings, addressings[a] # NoId
       PROVE  Owner(records', a) = Owner(records, a) /\ TypeOf(a)' = TypeOf(a)
  <2>1. a \notin as /\ addressings'[a] = addressings[a]
    BY <1>3, <1>10, Zenon
  <2>2. {r \in records' : r.addressing = a} = {r \in records : r.addressing = a}
    <3>1. ASSUME NEW r, r.addressing = a PROVE r \in records' <=> r \in records
      <4>1. \A b \in as : r # Row(i, b, p)
        BY <1>1, <2>1, <3>1, Zenon
      <4> QED
        BY <1>r, <4>1, Zenon
    <3> QED
      BY <3>1, Zenon
  <2>3. addressings[a] \in live
    BY <1>10 DEF ListRule, IndexAgrees
  <2>4. Owner(records', a) = Owner(records, a)
    BY <2>2, Zenon DEF Owner
  <2> QED
    BY <2>1, <2>3, <2>4 DEF TypeOf
<1> QED
  BY <1>9, <1>10, Zenon DEF Provenance

\* The rows of the old subjects are handed to the fresh ones, addressing by addressing.
Moves(old, fresh, to, moved) ==
    /\ old \subseteq live /\ fresh \subseteq Ids /\ fresh \cap live = {}
    /\ moved = {r \in records : r.subject \in old}
    /\ \A r \in moved : to[r.addressing] \in fresh
    /\ \A j \in fresh : \E r \in moved : to[r.addressing] = j
    /\ records' = (records \ moved) \cup {Row(to[r.addressing], r.addressing, r.claimant) : r \in moved}
    /\ addressings' = [a \in Addressings |->
         IF \E r \in moved : r.addressing = a THEN to[a] ELSE addressings[a]]
    /\ live' = (live \ old) \cup fresh
    /\ subject_type' \in [Ids -> Types \cup {NoType}]
    /\ \A j \in live \ old : subject_type'[j] = subject_type[j]
    /\ \A j \in old, k \in fresh : subject_type'[k] = subject_type[j]

LEMMA RowsMoved ==
    ASSUME IdRule, ListRule, NEW old, NEW fresh, NEW to, NEW moved, Moves(old, fresh, to, moved)
    PROVE  ListRule' /\ Provenance
<1>a. /\ old \subseteq live /\ fresh \subseteq Ids /\ fresh \cap live = {}
      /\ \A r \in moved : r \in records
      /\ \A r \in records : r \in moved <=> r.subject \in old
  BY DEF Moves
<1>b. /\ \A r \in moved : to[r.addressing] \in fresh
      /\ \A j \in fresh : \E r \in moved : to[r.addressing] = j
  BY Zenon DEF Moves
<1>c. /\ addressings' = [a \in Addressings |->
           IF \E r \in moved : r.addressing = a THEN to[a] ELSE addressings[a]]
      /\ live' = (live \ old) \cup fresh
  BY Zenon DEF Moves
<1>d. /\ subject_type' \in [Ids -> Types \cup {NoType}]
      /\ \A j \in live \ old : subject_type'[j] = subject_type[j]
      /\ \A j \in old, k \in fresh : subject_type'[k] = subject_type[j]
  BY Zenon DEF Moves
<1> DEFINE New(r) == Row(to[r.addressing], r.addressing, r.claimant)
<1>1. \A r \in records : /\ r.subject \in live /\ r.addressing \in Addressings /\ r.claimant \in Plugins
                         /\ addressings[r.addressing] = r.subject
  BY DEF ListRule, IndexAgrees
<1>2. \A r, q \in records : r.addressing = q.addressing => r = q
  BY DEF ListRule, IndexAgrees
<1>3. \A r \in moved : r \in records /\ r.subject \in old
  BY <1>a, Zenon
<1>4. \A r \in moved : /\ New(r).subject = to[r.addressing] /\ New(r).addressing = r.addressing
                       /\ New(r).claimant = r.claimant
  BY Zenon DEF Row
<1>5. \A r \in moved : New(r) \in [subject : Ids, addressing : Addressings, claimant : Plugins, copy : {1}]
  BY <1>1, <1>3, <1>a, <1>b, Zenon DEF Row
<1>6. /\ \A r \in moved : addressings'[r.addressing] = to[r.addressing]
      /\ \A r \in records \ moved : addressings'[r.addressing] = addressings[r.addressing]
      /\ \A a \in Addressings : (\A r \in moved : r.addressing # a) => addressings'[a] = addressings[a]
  BY <1>1, <1>2, <1>3, <1>c
<1>r. \A q : q \in records' <=> q \in records \ moved \/ \E r \in moved : q = New(r)
  BY DEF Moves
<1> HIDE DEF New
<1>7. records' \subseteq [subject : Ids, addressing : Addressings, claimant : Plugins, copy : {1}]
  <2>1. records \subseteq [subject : Ids, addressing : Addressings, claimant : Plugins, copy : {1}]
    BY DEF ListRule
  <2> QED
    BY <1>5, <1>r, <2>1
<1>8. addressings' \in [Addressings -> Ids \cup {NoId}]
  <2>1. ASSUME NEW a \in Addressings, NEW r \in moved, r.addressing = a PROVE to[a] \in Ids
    BY <1>a, <1>b, <2>1
  <2> QED
    BY <1>c, <2>1 DEF ListRule
<1>9. ASSUME NEW q \in records' PROVE q.subject \in live' /\ addressings'[q.addressing] = q.subject
  <2>1. CASE q \in records \ moved
    <3>1. q.subject \in live /\ q.subject \notin old
      BY <1>1, <1>a, <2>1, Zenon
    <3> QED
      BY <1>1, <1>6, <1>c, <2>1, <3>1
  <2>2. ASSUME NEW r \in moved, q = New(r) PROVE q.subject \in live' /\ addressings'[q.addressing] = q.subject
    <3>1. q.subject = to[r.addressing] /\ q.addressing = r.addressing /\ to[r.addressing] \in fresh
      BY <1>4, <1>b, <2>2, Zenon
    <3> QED
      BY <1>6, <1>c, <2>2, <3>1
  <2> QED
    BY <1>r, <2>1, <2>2, Zenon
<1>10. ASSUME NEW a \in Addressings, addressings'[a] # NoId PROVE \E q \in records' : q.addressing = a
  <2>1. ASSUME NEW r \in moved, r.addressing = a PROVE \E q \in records' : q.addressing = a
    BY <1>4, <1>r, <2>1, Zenon
  <2>2. CASE \A r \in moved : r.addressing # a
    <3>1. addressings[a] # NoId
      BY <1>6, <1>10, <2>2
    <3>2. PICK q \in records : q.addressing = a
      BY <3>1 DEF ListRule, IndexAgrees
    <3> QED
      BY <1>r, <2>2, <3>2, Zenon
  <2> QED
    BY <2>1, <2>2, Zenon
<1>11. ASSUME NEW q \in records' PROVE \E r \in records : /\ r.addressing = q.addressing
                                                          /\ r.claimant = q.claimant
                                                          /\ q = IF r \in moved THEN New(r) ELSE r
  <2>1. CASE q \in records \ moved
    BY <2>1
  <2>2. ASSUME NEW r \in moved, q = New(r) PROVE r.addressing = q.addressing /\ r.claimant = q.claimant
    BY <1>4, <2>2, Zenon
  <2> QED
    BY <1>3, <1>r, <2>1, <2>2
<1>12. \A q1, q2 \in records' : q1.addressing = q2.addressing => q1 = q2
  BY <1>2, <1>11
<1>13. ASSUME NEW j \in live' PROVE \E a \in Addressings : addressings'[a] = j
  <2>1. CASE j \in fresh
    BY <1>1, <1>3, <1>6, <1>b, <2>1
  <2>2. CASE j \notin fresh
    <3>1. j \in live /\ j \notin old
      BY <1>13, <1>c, <2>2
    <3>2. PICK a \in Addressings : addressings[a] = j
      BY <3>1 DEF ListRule
    <3>3. \A r \in moved : r.addressing # a
      BY <1>1, <1>3, <3>1, <3>2
    <3> QED
      BY <1>6, <3>2, <3>3, Zenon
  <2> QED
    BY <2>1, <2>2
<1>14. ListRule'
  BY <1>7, <1>8, <1>9, <1>10, <1>12, <1>13, <1>d, Zenon DEF ListRule, IndexAgrees
<1>15. ASSUME NEW a \in Addressings, addressings[a] # NoId
       PROVE  Owner(records', a) = Owner(records, a) /\ TypeOf(a)' = TypeOf(a)
  <2>1. PICK r \in records : r.addressing = a
    BY <1>15 DEF ListRule, IndexAgrees
  <2>2. PICK q \in records' : q.addressing = a /\ q.claimant = r.claimant
    BY <1>4, <1>r, <2>1, Zenon
  <2>3. {b \in records : b.addressing = a} = {r}
    BY <1>2, <2>1
  <2>4. {b \in records' : b.addressing = a} = {q}
    BY <1>12, <2>2
  <2>5. Owner(records, a) = {r.claimant} /\ Owner(records', a) = {q.claimant}
    BY <2>3, <2>4 DEF Owner
  <2>6. subject_type'[addressings'[a]] = subject_type[addressings[a]]
    <3>1. CASE r \in moved
      <4>1. /\ r.subject \in old /\ addressings[a] = r.subject
            /\ addressings'[a] = to[a] /\ to[a] \in fresh
        BY <1>1, <1>3, <1>6, <1>b, <2>1, <3>1, Zenon
      <4> QED
        BY <1>d, <4>1, Zenon
    <3>2. CASE r \notin moved
      <4>1. r.subject \in live /\ r.subject \notin old /\ addressings[a] = r.subject
        BY <1>1, <1>a, <2>1, <3>2, Zenon
      <4>2. addressings'[a] = addressings[a]
        BY <1>6, <2>1, <3>2
      <4> QED
        BY <1>d, <4>1, <4>2
    <3> QED
      BY <3>1, <3>2, Zenon
  <2> QED
    BY <2>2, <2>5, <2>6 DEF TypeOf
<1> QED
  BY <1>14, <1>15, Zenon DEF Provenance

\* Nothing the records speak of changes.
LEMMA RowsKept ==
    ASSUME ListRule, UNCHANGED <<live, subject_type, records, addressings>>
    PROVE  ListRule' /\ Provenance
<1>1. ListRule'
  BY DEF ListRule, IndexAgrees
<1>2. Provenance
  BY DEF Provenance, TypeOf
<1> QED
  BY <1>1, <1>2

\* One row goes with its index entry, and the subject with its last row.
LEMMA RowRemoved ==
    ASSUME IdRule, ListRule, NEW a \in Addressings, NEW p \in Plugins, RemoveClaim(a, p)
    PROVE  ListRule' /\ Provenance
<1> DEFINE i == addressings[a]
           row == CHOOSE r \in ClaimRows(i, a, p) : \A q \in ClaimRows(i, a, p) : q.copy <= r.copy
           forget == \A r \in records \ {row} : r.subject # i
<1>1. /\ i \in live /\ ClaimRows(i, a, p) # {} /\ records' = records \ {row}
      /\ addressings' = [addressings EXCEPT ![a] = NoId]
      /\ live' = IF forget THEN live \ {i} ELSE live
      /\ subject_type' = subject_type
  BY DEF RemoveClaim
<1>2. \A r \in records : /\ r.subject \in live /\ r.addressing \in Addressings
                         /\ addressings[r.addressing] = r.subject
  BY DEF ListRule, IndexAgrees
<1>3. \A r, q \in records : r.addressing = q.addressing => r = q
  BY DEF ListRule, IndexAgrees
<1>4. row \in records /\ row.addressing = a
  <2>1. PICK r \in ClaimRows(i, a, p) : TRUE
    BY <1>1
  <2>2. \A q \in ClaimRows(i, a, p) : q \in records /\ q.addressing = a
    BY DEF ClaimRows, RowsOf
  <2>3. \A q \in ClaimRows(i, a, p) : q = r /\ q.copy = 1
    BY <1>3, <2>1, <2>2 DEF ListRule
  <2>4. \A q \in ClaimRows(i, a, p) : q.copy <= r.copy
    BY <2>1, <2>3
  <2>5. row \in ClaimRows(i, a, p)
    BY <2>4, Zenon
  <2> QED
    BY <2>2, <2>5
<1> HIDE DEF row
<1>5. \A r \in records' : r \in records /\ r.addressing # a
  BY <1>1, <1>3, <1>4
<1>6. /\ addressings' \in [Addressings -> Ids \cup {NoId}] /\ addressings'[a] = NoId
      /\ \A b \in Addressings : b # a => addressings'[b] = addressings[b]
  BY <1>1 DEF ListRule
<1>7. \A r \in records' : r.subject \in live' /\ addressings'[r.addressing] = r.subject
  <2> SUFFICES ASSUME NEW r \in records' PROVE r.subject \in live' /\ addressings'[r.addressing] = r.subject
    OBVIOUS
  <2>1. addressings'[r.addressing] = r.subject /\ r.subject \in live
    BY <1>2, <1>5, <1>6
  <2>2. forget => r.subject # i
    BY <1>1
  <2> QED
    BY <1>1, <2>1, <2>2
<1>8. ASSUME NEW b \in Addressings, addressings'[b] # NoId PROVE \E r \in records' : r.addressing = b
  <2>1. b # a /\ addressings[b] # NoId
    BY <1>6, <1>8
  <2>2. PICK r \in records : r.addressing = b
    BY <2>1 DEF ListRule, IndexAgrees
  <2> QED
    BY <1>1, <1>4, <2>1, <2>2, Zenon
<1>9. ASSUME NEW j \in live' PROVE \E b \in Addressings : addressings'[b] = j
  <2>1. CASE j = i
    <3>1. ~forget
      BY <1>1, <2>1
    <3>2. PICK r \in records' : r.subject = i
      BY <1>1, <3>1
    <3> QED
      BY <1>2, <1>5, <1>7, <2>1, <3>2
  <2>2. CASE j # i
    <3>1. j \in live
      BY <1>1
    <3>2. PICK b \in Addressings : addressings[b] = j
      BY <3>1 DEF ListRule
    <3> QED
      BY <1>6, <2>2, <3>2
  <2> QED
    BY <2>1, <2>2
<1>10. ListRule'
  <2>1. \A r, q \in records' : r.addressing = q.addressing => r = q
    BY <1>3, <1>5
  <2>2. records' \subseteq [subject : Ids, addressing : Addressings, claimant : Plugins, copy : {1}]
    BY <1>1 DEF ListRule
  <2>3. subject_type' \in [Ids -> Types \cup {NoType}]
    BY <1>1 DEF ListRule
  <2> QED
    BY <1>6, <1>7, <1>8, <1>9, <2>1, <2>2, <2>3, Zenon DEF ListRule, IndexAgrees
<1>11. ASSUME NEW b \in Addressings, addressings'[b] # NoId
       PROVE  Owner(records', b) = Owner(records, b) /\ TypeOf(b)' = TypeOf(b)
  <2>1. b # a /\ addressings'[b] = addressings[b]
    BY <1>6, <1>11
  <2>2. {r \in records' : r.addressing = b} = {r \in records : r.addressing = b}
    BY <1>1, <1>4, <2>1
  <2>3. Owner(records', b) = Owner(records, b)
    BY <2>2 DEF Owner
  <2> QED
    BY <1>1, <2>1, <2>3 DEF TypeOf
<1> QED
  BY <1>10, <1>11 DEF Provenance

LEMMA MergeMoves ==
    ASSUME IdRule, ListRule, NEW x \in Ids, NEW y \in Ids, merge_aliases(x, y)
    PROVE  ListRule' /\ Provenance
<1> DEFINE i == minted + 1
           old == {x, y}
           moved == {r \in records : r.subject \in old}
           new(r) == [r EXCEPT !.subject = i,
                               !.copy = IF r.subject = x THEN @
                                        ELSE @ + Cardinality(ClaimRows(x, r.addressing, r.claimant))]
           to == [a \in Addressings |-> i]
<1>1. /\ x # y /\ old \subseteq live /\ subject_type[x] = subject_type[y] /\ minted < MaxIds
      /\ live' = (live \ old) \cup {i}
      /\ subject_type' = [subject_type EXCEPT ![i] = subject_type[x]]
      /\ records' = (records \ moved) \cup {new(r) : r \in moved}
      /\ addressings' = [a \in Addressings |->
             IF \E r \in moved : r.addressing = a THEN i ELSE addressings[a]]
  BY Zenon DEF merge_aliases
<1>a. minted < MaxIds
  BY Zenon DEF merge_aliases
<1>2. i \in Ids /\ i \notin live /\ \A j \in live : j # i
  <2>0. minted \in Nat
    BY DEF IdRule
  <2>1. i \in Ids
    BY <1>a, <2>0, RegistryAssumption DEF Ids
  <2> QED
    BY <2>1, LiveIsMinted DEF IdRule
<1>3. ASSUME NEW r \in moved
      PROVE  new(r) = Row(to[r.addressing], r.addressing, r.claimant) /\ r.addressing \in Addressings
  <2>1. /\ r \in [subject : Ids, addressing : Addressings, claimant : Plugins, copy : {1}]
        /\ r \in records /\ r.subject \in old
    BY DEF ListRule
  <2>2. addressings[r.addressing] = r.subject
    BY <2>1 DEF ListRule, IndexAgrees
  <2>3. r.subject # x => Cardinality(ClaimRows(x, r.addressing, r.claimant)) = 0
    BY <2>1, <2>2, RowsElsewhere
  <2>4. new(r) = [r EXCEPT !.subject = i, !.copy = 1]
    <3>1. CASE r.subject = x
      BY <2>1, <3>1, Zenon
    <3>2. CASE r.subject # x
      <4>1. r.copy + 0 = 1
        BY <2>1
      <4> QED
        BY <2>3, <3>2, <4>1, Zenon
    <3> QED
      BY <3>1, <3>2
  <2>5. to[r.addressing] = i
    BY <2>1
  <2>6. [r EXCEPT !.subject = i, !.copy = 1] = Row(i, r.addressing, r.claimant)
    BY <2>1, RowRenamed, Zenon
  <2> HIDE DEF new, i, to
  <2> QED
    BY <2>1, <2>4, <2>5, <2>6
<1>4. {new(r) : r \in moved} = {Row(to[r.addressing], r.addressing, r.claimant) : r \in moved}
  <2> HIDE DEF new, moved, to
  <2> QED
    BY <1>3
<1>5. \A a \in Addressings : to[a] = i
  OBVIOUS
<1>6. \A r \in records : r.addressing \in Addressings
  BY DEF ListRule
<1>7. \E r \in moved : to[r.addressing] = i
  <2>1. PICK a \in Addressings : addressings[a] = x
    BY <1>1, Zenon DEF ListRule
  <2>2. x # NoId
    BY RegistryAssumption DEF Ids, NoId
  <2>3. PICK r \in records : r.addressing = a
    BY <2>1, <2>2 DEF ListRule, IndexAgrees
  <2>4. r.subject = x
    BY <2>1, <2>3 DEF ListRule, IndexAgrees
  <2> QED
    BY <1>5, <1>6, <2>3, <2>4
<1>8. addressings' = [a \in Addressings |->
             IF \E r \in moved : r.addressing = a THEN to[a] ELSE addressings[a]]
  BY <1>1, <1>5, Zenon
<1>9. /\ subject_type' \in [Ids -> Types \cup {NoType}]
      /\ \A j \in live \ old : subject_type'[j] = subject_type[j]
      /\ \A j \in old, k \in {i} : subject_type'[k] = subject_type[j]
  BY <1>1, <1>2, Zenon DEF ListRule, IdRule
<1> HIDE DEF new
<1>10. PICK rest, from, fresh, dest : rest = moved /\ from = old /\ fresh = {i} /\ dest = to
  BY Zenon
<1>11. /\ from \in SUBSET live /\ fresh \in SUBSET Ids /\ fresh \cap live = {}
       /\ rest = {r \in records : r.subject \in from}
       /\ \A r \in rest : dest[r.addressing] \in fresh
       /\ \A j \in fresh : \E r \in rest : dest[r.addressing] = j
       /\ records' = (records \ rest) \cup {Row(dest[r.addressing], r.addressing, r.claimant) : r \in rest}
       /\ live' = (live \ from) \cup fresh
  BY <1>1, <1>2, <1>4, <1>5, <1>6, <1>7, <1>10, Zenon
<1>12. addressings' = [a \in Addressings |->
             IF \E r \in rest : r.addressing = a THEN dest[a] ELSE addressings[a]]
  BY <1>8, <1>10
<1>13. /\ \A j \in live \ from : subject_type'[j] = subject_type[j]
       /\ \A j \in from, k \in fresh : subject_type'[k] = subject_type[j]
  BY <1>9, <1>10
<1> HIDE DEF moved, old, to, i
<1>14. Moves(from, fresh, dest, rest)
  BY <1>9, <1>11, <1>12, <1>13, Zenon DEF Moves
<1> QED
  BY <1>14, RowsMoved

LEMMA SplitMoves ==
    ASSUME IdRule, ListRule, NEW x \in Ids, NEW n \in 2..MaxGroups, NEW group \in Groupings(x, n),
           split_subject(x, n, group)
    PROVE  ListRule' /\ Provenance
<1> DEFINE fresh == (minted + 1)..(minted + n)
           kept == {CHOOSE r \in RowsOf(x) : r.addressing = a : a \in DOMAIN group}
           new(r) == [r EXCEPT !.subject = minted + group[r.addressing], !.copy = 1]
           to == [a \in DOMAIN group |-> minted + group[a]]
<1>1. /\ x \in live /\ DOMAIN group = {r.addressing : r \in RowsOf(x)}
      /\ live' = (live \ {x}) \cup fresh
      /\ records' = (records \ RowsOf(x)) \cup {new(r) : r \in kept}
      /\ addressings' = [a \in Addressings |->
             IF a \in DOMAIN group THEN minted + group[a] ELSE addressings[a]]
      /\ subject_type' = [j \in Ids |-> IF j \in fresh THEN subject_type[x] ELSE subject_type[j]]
  BY Zenon DEF split_subject
<1>2. minted + n <= MaxIds /\ \A k \in 1..n : \E a \in DOMAIN group : group[a] = k
  BY Zenon DEF split_subject
<1>3. minted \in Nat /\ n \in Nat /\ MaxIds \in Nat
  BY RegistryAssumption DEF IdRule
<1>4. fresh \subseteq Ids /\ fresh \cap live = {}
  <2>1. fresh \subseteq Ids
    BY <1>2, <1>3 DEF Ids
  <2> QED
    BY <1>3, <2>1, LiveIsMinted
<1>5. RowsOf(x) = {r \in records : r.subject \in {x}}
  BY DEF RowsOf
<1>6. \A r \in RowsOf(x) : /\ r \in records /\ r.addressing \in DOMAIN group
                           /\ r \in [subject : Ids, addressing : Addressings, claimant : Plugins, copy : {1}]
  BY <1>1, <1>5, Zenon DEF ListRule
<1>7. kept = RowsOf(x)
  <2>1. \A r, q \in RowsOf(x) : r.addressing = q.addressing => r = q
    BY <1>6 DEF ListRule, IndexAgrees
  <2>2. ASSUME NEW r \in RowsOf(x) PROVE r = CHOOSE q \in RowsOf(x) : q.addressing = r.addressing
    BY <2>1
  <2>3. ASSUME NEW r \in kept PROVE r \in RowsOf(x)
    <3>1. PICK a \in DOMAIN group : r = CHOOSE q \in RowsOf(x) : q.addressing = a
      OBVIOUS
    <3>2. PICK q \in RowsOf(x) : q.addressing = a
      BY <1>1, Zenon
    <3> QED
      BY <3>1, <3>2
  <2>4. ASSUME NEW r \in RowsOf(x) PROVE r \in kept
    BY <1>6, <2>2, Zenon
  <2> HIDE DEF kept
  <2> QED
    BY <2>3, <2>4, Zenon
<1>8. ASSUME NEW r \in RowsOf(x)
      PROVE  new(r) = Row(to[r.addressing], r.addressing, r.claimant)
  <2>1. to[r.addressing] = minted + group[r.addressing]
    BY <1>6
  <2>2. PICK i : i = minted + group[r.addressing]
    OBVIOUS
  <2>3. [r EXCEPT !.subject = i, !.copy = 1] = Row(i, r.addressing, r.claimant)
    BY <1>6, RowRenamed, Zenon
  <2> QED
    BY <2>1, <2>2, <2>3, Zenon
<1>9. group \in [DOMAIN group -> 1..n]
  BY DEF Groupings
<1>10. /\ \A r \in RowsOf(x) : to[r.addressing] \in fresh
       /\ \A j \in fresh : \E r \in RowsOf(x) : to[r.addressing] = j
  <2>1. ASSUME NEW r \in RowsOf(x) PROVE to[r.addressing] \in fresh
    <3>1. group[r.addressing] \in 1..n /\ to[r.addressing] = minted + group[r.addressing]
      BY <1>6, <1>9
    <3> HIDE DEF to
    <3> QED
      BY <1>3, <3>1
  <2>2. ASSUME NEW j \in fresh PROVE \E r \in RowsOf(x) : to[r.addressing] = j
    <3>1. j - minted \in 1..n /\ minted + (j - minted) = j
      BY <1>3
    <3>2. PICK a \in DOMAIN group : group[a] = j - minted
      BY <1>2, <3>1
    <3>3. PICK r \in RowsOf(x) : r.addressing = a
      BY <1>1, Zenon
    <3> QED
      BY <3>1, <3>2, <3>3
  <2> QED
    BY <2>1, <2>2, Zenon
<1>11. addressings' = [a \in Addressings |->
             IF \E r \in RowsOf(x) : r.addressing = a THEN to[a] ELSE addressings[a]]
  <2>1. \A a \in Addressings : a \in DOMAIN group <=> \E r \in RowsOf(x) : r.addressing = a
    BY <1>1, Zenon
  <2>2. \A a \in DOMAIN group : to[a] = minted + group[a]
    OBVIOUS
  <2> HIDE DEF to
  <2> QED
    BY <1>1, <2>1, <2>2, Zenon
<1>12. /\ subject_type' \in [Ids -> Types \cup {NoType}]
       /\ \A j \in live \ {x} : subject_type'[j] = subject_type[j]
       /\ \A j \in {x}, k \in fresh : subject_type'[k] = subject_type[j]
  <2> HIDE DEF fresh
  <2> QED
    BY <1>1, <1>4, Zenon DEF ListRule, IdRule
<1>13. records' = (records \ RowsOf(x))
                    \cup {Row(to[r.addressing], r.addressing, r.claimant) : r \in RowsOf(x)}
  <2> HIDE DEF new, to, kept
  <2>1. {new(r) : r \in RowsOf(x)} = {Row(to[r.addressing], r.addressing, r.claimant) : r \in RowsOf(x)}
    BY <1>8, Zenon
  <2> QED
    BY <1>1, <1>7, <2>1, Zenon
<1> HIDE DEF fresh, to, kept, new
<1>14. PICK rest, young, dest, from : rest = RowsOf(x) /\ young = fresh /\ dest = to /\ from = {x}
  BY Zenon
<1>15. /\ from \subseteq live /\ young \subseteq Ids /\ young \cap live = {}
       /\ rest = {r \in records : r.subject \in from}
       /\ \A r \in rest : dest[r.addressing] \in young
       /\ \A j \in young : \E r \in rest : dest[r.addressing] = j
  BY <1>1, <1>4, <1>5, <1>10, <1>14, Zenon
<1>16. /\ records' = (records \ rest) \cup {Row(dest[r.addressing], r.addressing, r.claimant) : r \in rest}
       /\ addressings' = [a \in Addressings |->
            IF \E r \in rest : r.addressing = a THEN dest[a] ELSE addressings[a]]
  BY <1>11, <1>13, <1>14, Zenon
<1>17. /\ live' = (live \ from) \cup young
       /\ subject_type' \in [Ids -> Types \cup {NoType}]
       /\ \A j \in live \ from : subject_type'[j] = subject_type[j]
       /\ \A j \in from, k \in young : subject_type'[k] = subject_type[j]
  BY <1>1, <1>12, <1>14, Zenon
<1>18. Moves(from, young, dest, rest)
  BY <1>15, <1>16, <1>17, Zenon DEF Moves
<1> QED
  BY <1>18, RowsMoved

\* Every operation of the registry keeps the index right and the provenance of an addressing.
LEMMA RowsStep ==
    ASSUME MaxCopies = 1, IdRule, ListRule, [RegNext]_regVars
    PROVE  ListRule' /\ Provenance
<1>1. ASSUME NEW p \in Plugins, NEW ann \in Announcements, announce(p, ann)
      PROVE  ListRule' /\ Provenance
  <2>0. DOMAIN ann.copies \subseteq Addressings /\ DOMAIN ann.copies # {} /\ ann.type \in Types
    <3>1. ann.type \in Types
      BY DEF Announcements
    <3>2. ann.copies \in UNION {[as -> 1..MaxCopies] : as \in (SUBSET Addressings) \ {{}}}
      BY DEF Announcements
    <3>3. PICK as \in (SUBSET Addressings) \ {{}} : ann.copies \in [as -> 1..MaxCopies]
      BY <3>2, Zenon
    <3>4. DOMAIN ann.copies = as
      BY <3>3, Zenon
    <3>5. as \subseteq Addressings /\ as # {}
      BY Zenon
    <3> QED
      BY <3>1, <3>4, <3>5, Zenon
  <2>1. CASE AnnounceCreates(p, ann)
    <3>1. PICK i : i = minted + 1
      OBVIOUS
    <3>2. /\ Resolved(ann) = {} /\ minted < MaxIds /\ live' = live \cup {i}
          /\ subject_type' = [subject_type EXCEPT ![i] = ann.type]
          /\ records' = records \cup NewRows(i, p, DOMAIN ann.copies, ann.copies)
          /\ addressings' = [a \in Addressings |->
               IF a \in DOMAIN ann.copies THEN i ELSE addressings[a]]
      BY <2>1, <3>1, Zenon DEF AnnounceCreates
    <3>3. i \in Ids /\ \A j \in live : j # i
      <4>1. minted \in Nat /\ minted < MaxIds
        BY <3>2, Zenon DEF IdRule
      <4> QED
        BY <3>1, <4>1, LiveIsMinted, RegistryAssumption DEF Ids
    <3>4. \A a \in DOMAIN ann.copies : addressings[a] = NoId
      BY <3>2, Zenon DEF Resolved
    <3>5. NewRows(i, p, DOMAIN ann.copies, ann.copies) = {Row(i, a, p) : a \in DOMAIN ann.copies}
      BY <3>3, <3>4, RowsOfAnnouncement, ZenonT(60)
    <3>6. /\ subject_type' \in [Ids -> Types \cup {NoType}]
          /\ \A j \in live : subject_type'[j] = subject_type[j]
      BY <2>0, <3>2, <3>3, Zenon DEF ListRule, IdRule
    <3>7. PICK as \in SUBSET Addressings : as = DOMAIN ann.copies
      BY <2>0
    <3>8. /\ as # {} /\ \A a \in as : addressings[a] = NoId
          /\ records' = records \cup {Row(i, a, p) : a \in as}
          /\ addressings' = [a \in Addressings |-> IF a \in as THEN i ELSE addressings[a]]
      BY <2>0, <3>2, <3>4, <3>5, <3>7, Zenon
    <3> QED
      BY <3>2, <3>3, <3>6, <3>8, RowsAdded, Zenon
  <2>2. ASSUME NEW i \in Ids, AnnounceAdds(p, ann, i) PROVE ListRule' /\ Provenance
    <3>1. /\ Resolved(ann) = {i} /\ Unresolved(ann) # {}
          /\ records' = records \cup NewRows(i, p, Unresolved(ann), ann.copies)
          /\ addressings' = [a \in Addressings |->
               IF a \in Unresolved(ann) THEN i ELSE addressings[a]]
          /\ UNCHANGED <<live, subject_type>>
      BY <2>2 DEF AnnounceAdds
    <3>2. Unresolved(ann) \subseteq DOMAIN ann.copies /\ \A a \in Unresolved(ann) : addressings[a] = NoId
      BY DEF Unresolved
    <3>3. NewRows(i, p, Unresolved(ann), ann.copies) = {Row(i, a, p) : a \in Unresolved(ann)}
      BY <3>2, RowsOfAnnouncement, ZenonT(60)
    <3>4. live' = live \cup {i}
      <4>1. PICK a \in DOMAIN ann.copies : addressings[a] = i /\ i # NoId
        BY <3>1, Zenon DEF Resolved
      <4>2. i \in live
        BY <2>0, <4>1 DEF ListRule, IndexAgrees
      <4> QED
        BY <3>1, <4>2
    <3>5. /\ subject_type' \in [Ids -> Types \cup {NoType}]
          /\ \A j \in live : subject_type'[j] = subject_type[j]
      BY <3>1 DEF ListRule
    <3> QED
      BY <2>0, <3>1, <3>2, <3>3, <3>4, <3>5, RowsAdded, Zenon
  <2>3. CASE AnnounceKeeps(ann)
    BY <2>3, RowsKept DEF AnnounceKeeps, regVars
  <2> QED
    BY <1>1, <2>1, <2>2, <2>3 DEF announce
<1>2. ASSUME NEW x \in Ids, NEW st \in States \cup {NoState}, update_state(x, st)
      PROVE  ListRule' /\ Provenance
  BY <1>2, RowsKept DEF update_state
<1>3. CASE UNCHANGED regVars
  BY <1>3, RowsKept DEF regVars
<1> QED
  BY <1>1, <1>2, <1>3, RowRemoved, MergeMoves, SplitMoves
     DEF RegNext, retract, forced_retract_addressing

\* The two rules hold together when announcements name an addressing once.
LEMMA RegistryInvariant ==
    ASSUME MaxCopies = 1
    PROVE  RegSpec => [](IdRule /\ ListRule)
<1>1. RegInit => IdRule /\ ListRule
  <2> SUFFICES ASSUME RegInit PROVE IdRule /\ ListRule
    OBVIOUS
  <2>1. IdRule
    BY IdsInit, Zenon
  <2> QED
    BY <2>1 DEF RegInit, ListRule, IndexAgrees
<1>2. IdRule /\ ListRule /\ [RegNext]_regVars => (IdRule /\ ListRule)'
  BY IdsStep, RowsStep
<1> QED
  BY <1>1, <1>2, PTL DEF RegSpec

\* When announcements name an addressing once, the index and the records agree after any
\* sequence of operations (announce, retract, merge_aliases, split_subject): every addressing is
\* listed once, by the subject it resolves to.
THEOREM RegistryIndexAgrees ==
    ASSUME MaxCopies = 1
    PROVE  RegSpec => []IndexAgrees
<1>1. ListRule => IndexAgrees
  BY DEF ListRule
<1> QED
  BY <1>1, RegistryInvariant, PTL

\* Then also every minted id is live or retired, never both, and every live one is reached by
\* some addressing: merge and split never meet an alias they would overwrite.
THEOREM RegistryIdsAccountedFor ==
    ASSUME MaxCopies = 1
    PROVE  RegSpec => []IdsAccountedFor
<1>1. IdRule /\ ListRule => IdsAccountedFor
  BY DEF IdRule, ListRule, IdsAccountedFor
<1> QED
  BY <1>1, RegistryInvariant, PTL

\* And no operation hands a registered addressing to another plugin or to another type.
THEOREM RegistryProvenanceKept ==
    ASSUME MaxCopies = 1
    PROVE  RegSpec => ProvenanceKept
<1>1. IdRule /\ ListRule /\ [RegNext]_regVars => [Provenance]_regVars
  BY RowsStep
<1>2. RegSpec => [][Provenance]_regVars
  BY <1>1, RegistryInvariant, PTL DEF RegSpec
<1> QED
  BY <1>2 DEF ProvenanceKept, Provenance
=============================================================================
