---------------------------- MODULE RelationGraph ----------------------------
(***************************************************************************)
(* The in-memory relation graph (crates/evo/src/relations.rs).  Every      *)
(* operation runs under one mutex, so each is one step.                    *)
(*                                                                         *)
(* The forward and inverse maps are the sets of keys they let a query      *)
(* find.  A claim is its claimant; a suppression marker keeps who set it   *)
(* and why.                                                                *)
(***************************************************************************)
EXTENDS Integers, FiniteSets

CONSTANTS
    Nodes,       \* canonical subject ids
    Predicates,
    Claimants,   \* plugins that assert, and admin plugins
    Reasons      \* suppression reasons

ASSUME GraphAssumption == "none" \notin Claimants

VARIABLES
    relations,    \* the keys of GraphInner.relations
    claims,       \* RelationRecord.claims
    suppression,  \* RelationRecord.suppression
    forward,      \* GraphInner.forward
    inverse       \* GraphInner.inverse

graphVars == <<relations, claims, suppression, forward, inverse>>

Key == [source : Nodes, predicate : Predicates, target : Nodes]
NoMarker == [admin |-> "none", reason |-> "none"]
Marker == [admin : Claimants, reason : Reasons]

Mentions(k, x) == k.source = x \/ k.target = x
Touching(x) == {k \in relations : Mentions(k, x)}
Substitute(k, x, y) ==
    [source |-> IF k.source = x THEN y ELSE k.source,
     predicate |-> k.predicate,
     target |-> IF k.target = x THEN y ELSE k.target]

-----------------------------------------------------------------------------
GraphInit ==
    /\ relations = {}
    /\ claims = [k \in Key |-> {}]
    /\ suppression = [k \in Key |-> NoMarker]
    /\ forward = {}
    /\ inverse = {}

\* A new triple is indexed; a claimant joins an existing one, suppressed or not.
assert(k, p) ==
    /\ k \in Key
    /\ p \notin claims[k]
    /\ relations' = relations \cup {k}
    /\ claims' = [claims EXCEPT ![k] = @ \cup {p}]
    /\ forward' = IF k \in relations THEN forward ELSE forward \cup {k}
    /\ inverse' = IF k \in relations THEN inverse ELSE inverse \cup {k}
    /\ UNCHANGED suppression

\* Remove these keys with their claims, markers and index entries.
Drop(keys) ==
    /\ relations' = relations \ keys
    /\ claims' = [k \in Key |-> IF k \in keys THEN {} ELSE claims[k]]
    /\ suppression' = [k \in Key |-> IF k \in keys THEN NoMarker ELSE suppression[k]]
    /\ forward' = forward \ keys
    /\ inverse' = inverse \ keys

\* Mutant: a relation may lose its last claimant and stay.
RemoveClaimantOnly(k, p) ==
    /\ k \in relations
    /\ p \in claims[k]
    /\ claims' = [claims EXCEPT ![k] = @ \ {p}]
    /\ UNCHANGED <<relations, suppression, forward, inverse>>

\* The last claimant's departure forgets the relation.
RemoveClaimant(k, p) ==
    /\ k \in relations
    /\ p \in claims[k]
    /\ IF claims[k] = {p}
       THEN Drop({k})
       ELSE /\ claims' = [claims EXCEPT ![k] = @ \ {p}]
            /\ UNCHANGED <<relations, suppression, forward, inverse>>

\* retract refuses with an error what forced_retract_claim answers NotFound.
retract_claim(k, p) == RemoveClaimant(k, p)
forced_retract_claim(k, target_plugin) == RemoveClaimant(k, target_plugin)

forget_all_touching(x) == Drop(Touching(x))

\* A second suppress changes the reason and keeps who suppressed first.
suppress(k, admin, why) ==
    /\ k \in relations
    /\ IF suppression[k] = NoMarker
       THEN /\ suppression' = [suppression EXCEPT ![k] = [admin |-> admin, reason |-> why]]
            /\ forward' = forward \ {k}
            /\ inverse' = inverse \ {k}
       ELSE /\ suppression[k].reason # why
            /\ suppression' = [suppression EXCEPT ![k].reason = why]
            /\ UNCHANGED <<forward, inverse>>
    /\ UNCHANGED <<relations, claims>>

\* Mutant: puts the relation back in one index only.
UnsuppressForwardOnly(k) ==
    /\ k \in relations
    /\ suppression[k] # NoMarker
    /\ suppression' = [suppression EXCEPT ![k] = NoMarker]
    /\ forward' = forward \cup {k}
    /\ UNCHANGED <<relations, claims, inverse>>

unsuppress(k) ==
    /\ k \in relations
    /\ suppression[k] # NoMarker
    /\ suppression' = [suppression EXCEPT ![k] = NoMarker]
    /\ forward' = forward \cup {k}
    /\ inverse' = inverse \cup {k}
    /\ UNCHANGED <<relations, claims>>

\* Mutant: a record that was there already keeps its own claims only.
RedistributeFirstWins(old, dest) ==
    LET kept == relations \ old
        new == UNION {dest[k] : k \in old}
    IN  \E first \in [new -> old] :
          /\ \A n \in new : n \in dest[first[n]]
          /\ relations' = kept \cup new
          /\ claims' = [n \in Key |-> IF n \in kept THEN claims[n]
                                     ELSE IF n \in new THEN claims[first[n]] ELSE {}]
          /\ suppression' = [n \in Key |->
               IF n \in kept THEN suppression[n]
               ELSE IF n \in new THEN suppression[first[n]] ELSE NoMarker]
          /\ forward' = {n \in kept \cup new : suppression'[n] = NoMarker}
          /\ inverse' = {n \in kept \cup new : suppression'[n] = NoMarker}

\* Replace every key k of old by the keys dest[k].  Records that meet on one key
\* unite their claims; the marker is the one of the record that was there first:
\* an untouched record, or whichever the hash map's iteration yields first.
Redistribute(old, dest) ==
    LET kept == relations \ old
        new == UNION {dest[k] : k \in old}
        From(n) == {k \in old : n \in dest[k]}
    IN  /\ relations' = kept \cup new
        /\ claims' = [n \in Key |->
             (IF n \in kept THEN claims[n] ELSE {}) \cup UNION {claims[k] : k \in From(n)}]
        /\ \E first \in [new -> old] :
             /\ \A n \in new : n \in dest[first[n]]
             /\ suppression' = [n \in Key |->
                  IF n \in kept THEN suppression[n]
                  ELSE IF n \in new THEN suppression[first[n]] ELSE NoMarker]
        /\ LET shown == {n \in new \ kept : suppression'[n] = NoMarker}
           IN  /\ forward' = (forward \ old) \cup shown
               /\ inverse' = (inverse \ old) \cup shown

\* The merge cascade, once per retired id.
rewrite_subject_to(old_id, new_id) ==
    IF old_id = new_id THEN UNCHANGED graphVars
    ELSE Redistribute(Touching(old_id),
                      [k \in Touching(old_id) |-> {Substitute(k, old_id, new_id)}])

\* The split cascade: each edge goes to the new ids its strategy assigns.  Under
\* Explicit an edge without an assignment goes to all of them.
Assigned(strategy, explicit, new_ids, first, k) ==
    CASE strategy = "to_both" -> new_ids
      [] strategy = "to_first" -> {first}
      [] strategy = "explicit" -> IF k \in DOMAIN explicit THEN {explicit[k]} ELSE new_ids

split_relations(x, new_ids, first, strategy, explicit) ==
    Redistribute(Touching(x),
        [k \in Touching(x) |->
           {Substitute(k, x, n) : n \in Assigned(strategy, explicit, new_ids, first, k)}])

-----------------------------------------------------------------------------
\* The subject ids a split mints are new to the graph's callers, but an edge may
\* already touch them: an assert can run between the split's two halves.
Splits ==
    \E x \in Nodes : \E new_ids \in SUBSET (Nodes \ {x}) :
        /\ Cardinality(new_ids) >= 2
        /\ \/ \E first \in new_ids : split_relations(x, new_ids, first, "to_first", <<>>)
           \/ \E some \in SUBSET Touching(x) : \E explicit \in [some -> new_ids] :
                split_relations(x, new_ids, x, "explicit", explicit)
           \/ split_relations(x, new_ids, x, "to_both", <<>>)

GraphNext ==
    \/ \E k \in Key, p \in Claimants : assert(k, p)
    \/ \E k \in relations, p \in Claimants : retract_claim(k, p)
    \/ \E k \in relations, p \in Claimants : forced_retract_claim(k, p)
    \/ \E k \in relations, p \in Claimants, why \in Reasons : suppress(k, p, why)
    \/ \E k \in relations : unsuppress(k)
    \/ \E x \in Nodes : forget_all_touching(x)
    \/ \E x, y \in Nodes : rewrite_subject_to(x, y)
    \/ Splits

GraphSpec == GraphInit /\ [][GraphNext]_graphVars

-----------------------------------------------------------------------------
GraphTypeOK ==
    /\ relations \subseteq Key
    /\ claims \in [Key -> SUBSET Claimants]
    /\ suppression \in [Key -> Marker \cup {NoMarker}]
    /\ forward \subseteq Key
    /\ inverse \subseteq Key

Visible == {k \in relations : suppression[k] = NoMarker}

\* Queries in both directions find exactly the relations that are not suppressed,
\* through every merge, split, collapse and forget.
IndicesExact == forward = Visible /\ inverse = Visible

\* A marker stays on a relation that exists, so a later assert of the same triple
\* starts visible.
MarkersOnRelations == \A k \in Key \ relations : suppression[k] = NoMarker

\* A relation exists exactly while somebody claims it.
ClaimedOrGone == \A k \in Key : k \in relations <=> claims[k] # {}

\* The merge cascade leaves no edge on the retired id and no claimant behind:
\* whoever claimed an edge claims its image.
MergeCarriesClaims ==
    [][\A x, y \in Nodes : x # y /\ rewrite_subject_to(x, y) =>
         /\ \A k \in relations' : ~Mentions(k, x)
         /\ \A k \in relations : claims[k] \subseteq claims'[Substitute(k, x, y)]]_graphVars

=============================================================================
