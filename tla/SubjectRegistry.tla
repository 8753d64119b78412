--------------------------- MODULE SubjectRegistry ---------------------------
(***************************************************************************)
(* The in-memory subject registry (crates/evo/src/subjects.rs).  Every     *)
(* operation runs under one mutex, so each is one step.                    *)
(*                                                                         *)
(* SubjectRecord.addressings of all subjects together are the relation     *)
(* records; a subject's list is its rows.  The list's order is never read, *)
(* but the same addressing may occur in it more than once: copy numbers    *)
(* the occurrences.  Canonical ids are v4 UUIDs: numbers never used before.*)
(* The claim log is provenance no operation reads, and is left out.        *)
(***************************************************************************)
EXTENDS Integers, FiniteSets

CONSTANTS
    Plugins,      \* claimants
    Addressings,  \* external addressings (scheme and value)
    Types,        \* subject types
    States,       \* non-null runtime states
    MaxCopies,    \* how often an announcement may name one addressing
    MaxGroups,    \* bound: groups of a split
    MaxIds        \* bound: canonical ids minted

ASSUME RegistryAssumption ==
    /\ MaxCopies \in Nat \ {0}
    /\ MaxGroups \in Nat
    /\ MaxIds \in Nat

VARIABLES
    live,          \* the keys of RegistryInner.subjects
    subject_type,  \* the type each id was registered with
    records,       \* the addressing records of the live subjects
    addressings,   \* RegistryInner.addressings, the reverse index
    aliases,       \* RegistryInner.aliases
    states,        \* RegistryInner.states
    minted         \* ids minted so far

regVars == <<live, subject_type, records, addressings, aliases, states, minted>>

Ids == 1..MaxIds
NoId == 0
NoState == "null"
NoType == "none"
NoAlias == [kind |-> "none", to |-> {}]
Alias(kind, to) == [kind |-> kind, to |-> to]
Record == [subject : Ids, addressing : Addressings, claimant : Plugins, copy : Nat \ {0}]

RowsOf(i) == {r \in records : r.subject = i}
ClaimRows(i, a, p) == {r \in RowsOf(i) : r.addressing = a /\ r.claimant = p}

\* An announcement names addressings, each one or more times.
Announcements ==
    [type : Types,
     copies : UNION {[as -> 1..MaxCopies] : as \in (SUBSET Addressings) \ {{}}},
     state : States \cup {NoState}]

Resolved(ann) == {addressings[a] : a \in DOMAIN ann.copies} \ {NoId}
Unresolved(ann) == {a \in DOMAIN ann.copies : addressings[a] = NoId}
NewRows(i, p, as, copies) ==
    UNION {{[subject |-> i, addressing |-> a, claimant |-> p,
             copy |-> Cardinality(ClaimRows(i, a, p)) + k] : k \in 1..copies[a]} : a \in as}

-----------------------------------------------------------------------------
RegInit ==
    /\ live = {}
    /\ subject_type = [i \in Ids |-> NoType]
    /\ records = {}
    /\ addressings = [a \in Addressings |-> NoId]
    /\ aliases = [i \in Ids |-> NoAlias]
    /\ states = [i \in Ids |-> NoState]
    /\ minted = 0

\* No addressing resolves: a new subject with every addressing of the announcement.
AnnounceCreates(p, ann) ==
    LET i == minted + 1
    IN  /\ Resolved(ann) = {}
        /\ minted < MaxIds
        /\ minted' = i
        /\ live' = live \cup {i}
        /\ subject_type' = [subject_type EXCEPT ![i] = ann.type]
        /\ records' = records \cup NewRows(i, p, DOMAIN ann.copies, ann.copies)
        /\ addressings' = [a \in Addressings |->
             IF a \in DOMAIN ann.copies THEN i ELSE addressings[a]]
        /\ states' = [states EXCEPT ![i] = ann.state]
        /\ UNCHANGED aliases

\* All resolved addressings name one subject i: the new ones are added to it.
\* The announcement's type is not compared with the subject's.
AnnounceAdds(p, ann, i) ==
    /\ Resolved(ann) = {i}
    /\ Unresolved(ann) # {}
    /\ records' = records \cup NewRows(i, p, Unresolved(ann), ann.copies)
    /\ addressings' = [a \in Addressings |->
         IF a \in Unresolved(ann) THEN i ELSE addressings[a]]
    /\ states' = [states EXCEPT ![i] = IF ann.state = NoState THEN @ ELSE ann.state]
    /\ UNCHANGED <<live, subject_type, aliases, minted>>

\* Nothing new, or a conflict between several subjects: only a claim is logged.
AnnounceKeeps(ann) ==
    /\ Resolved(ann) # {}
    /\ Unresolved(ann) = {} \/ \E i, j \in Resolved(ann) : i # j
    /\ UNCHANGED regVars

announce(p, ann) ==
    \/ AnnounceCreates(p, ann)
    \/ \E i \in Ids : AnnounceAdds(p, ann, i)
    \/ AnnounceKeeps(ann)

\* Mutant: the index entry goes only with the subject.
RemoveClaimIndexed(a, p) ==
    LET i == addressings[a]
        row == CHOOSE r \in ClaimRows(i, a, p) :
                   \A q \in ClaimRows(i, a, p) : q.copy <= r.copy
        rest == records \ {row}
        forget == \A r \in rest : r.subject # i
    IN  /\ i \in live
        /\ ClaimRows(i, a, p) # {}
        /\ records' = rest
        /\ addressings' = IF forget THEN [addressings EXCEPT ![a] = NoId] ELSE addressings
        /\ live' = IF forget THEN live \ {i} ELSE live
        /\ states' = IF forget THEN [states EXCEPT ![i] = NoState] ELSE states
        /\ aliases' = IF forget /\ aliases[i] = NoAlias
                      THEN [aliases EXCEPT ![i] = Alias("tombstone", {})] ELSE aliases
        /\ UNCHANGED <<subject_type, minted>>

\* Remove p's first record of a and the index entry; a subject left without
\* records is forgotten and leaves a tombstone.
RemoveClaim(a, p) ==
    LET i == addressings[a]
        row == CHOOSE r \in ClaimRows(i, a, p) :
                   \A q \in ClaimRows(i, a, p) : q.copy <= r.copy
        rest == records \ {row}
        forget == \A r \in rest : r.subject # i
    IN  /\ i \in live
        /\ ClaimRows(i, a, p) # {}
        /\ records' = rest
        /\ addressings' = [addressings EXCEPT ![a] = NoId]
        /\ live' = IF forget THEN live \ {i} ELSE live
        /\ states' = IF forget THEN [states EXCEPT ![i] = NoState] ELSE states
        /\ aliases' = IF forget /\ aliases[i] = NoAlias
                      THEN [aliases EXCEPT ![i] = Alias("tombstone", {})] ELSE aliases
        /\ UNCHANGED <<subject_type, minted>>

\* retract refuses with an error what forced_retract_addressing answers NotFound.
retract(a, p) == RemoveClaim(a, p)
forced_retract_addressing(a, target_plugin) == RemoveClaim(a, target_plugin)

\* Mutant: only the first source becomes an alias.
MergeOneAlias(x, y) ==
    LET i == minted + 1
        old == {x, y}
        moved == {r \in records : r.subject \in old}
    IN  /\ x # y
        /\ old \subseteq live
        /\ \A j \in old : aliases[j] = NoAlias
        /\ subject_type[x] = subject_type[y]
        /\ minted < MaxIds
        /\ minted' = i
        /\ live' = (live \ old) \cup {i}
        /\ subject_type' = [subject_type EXCEPT ![i] = subject_type[x]]
        /\ records' = (records \ moved) \cup
             {[r EXCEPT !.subject = i,
                        !.copy = IF r.subject = x THEN @
                                 ELSE @ + Cardinality(ClaimRows(x, r.addressing, r.claimant))] :
                r \in moved}
        /\ addressings' = [a \in Addressings |->
             IF \E r \in moved : r.addressing = a THEN i ELSE addressings[a]]
        /\ aliases' = [j \in Ids |-> IF j = x THEN Alias("merged", {i}) ELSE aliases[j]]
        /\ states' = [j \in Ids |-> IF j \in old THEN NoState ELSE states[j]]

\* Mutant: the aliases name the first source, not the new id.
MergeIntoFirst(x, y) ==
    LET i == minted + 1
        old == {x, y}
        moved == {r \in records : r.subject \in old}
    IN  /\ x # y
        /\ old \subseteq live
        /\ \A j \in old : aliases[j] = NoAlias
        /\ subject_type[x] = subject_type[y]
        /\ minted < MaxIds
        /\ minted' = i
        /\ live' = (live \ old) \cup {i}
        /\ subject_type' = [subject_type EXCEPT ![i] = subject_type[x]]
        /\ records' = (records \ moved) \cup
             {[r EXCEPT !.subject = i,
                        !.copy = IF r.subject = x THEN @
                                 ELSE @ + Cardinality(ClaimRows(x, r.addressing, r.claimant))] :
                r \in moved}
        /\ addressings' = [a \in Addressings |->
             IF \E r \in moved : r.addressing = a THEN i ELSE addressings[a]]
        /\ aliases' = [j \in Ids |-> IF j \in old THEN Alias("merged", {x}) ELSE aliases[j]]
        /\ states' = [j \in Ids |-> IF j \in old THEN NoState ELSE states[j]]

\* Mutant: the types are not compared.
MergeAnyTypes(x, y) ==
    LET i == minted + 1
        old == {x, y}
        moved == {r \in records : r.subject \in old}
    IN  /\ x # y
        /\ old \subseteq live
        /\ \A j \in old : aliases[j] = NoAlias
        /\ minted < MaxIds
        /\ minted' = i
        /\ live' = (live \ old) \cup {i}
        /\ subject_type' = [subject_type EXCEPT ![i] = subject_type[x]]
        /\ records' = (records \ moved) \cup
             {[r EXCEPT !.subject = i,
                        !.copy = IF r.subject = x THEN @
                                 ELSE @ + Cardinality(ClaimRows(x, r.addressing, r.claimant))] :
                r \in moved}
        /\ addressings' = [a \in Addressings |->
             IF \E r \in moved : r.addressing = a THEN i ELSE addressings[a]]
        /\ aliases' = [j \in Ids |-> IF j \in old THEN Alias("merged", {i}) ELSE aliases[j]]
        /\ states' = [j \in Ids |-> IF j \in old THEN NoState ELSE states[j]]

\* Two subjects of one type become a new one; both old ids become aliases of it.
\* Inserting a second alias for an id would panic: a source has none.
merge_aliases(x, y) ==
    LET i == minted + 1
        old == {x, y}
        moved == {r \in records : r.subject \in old}
    IN  /\ x # y
        /\ old \subseteq live
        /\ \A j \in old : aliases[j] = NoAlias
        /\ subject_type[x] = subject_type[y]
        /\ minted < MaxIds
        /\ minted' = i
        /\ live' = (live \ old) \cup {i}
        /\ subject_type' = [subject_type EXCEPT ![i] = subject_type[x]]
        /\ records' = (records \ moved) \cup
             {[r EXCEPT !.subject = i,
                        !.copy = IF r.subject = x THEN @
                                 ELSE @ + Cardinality(ClaimRows(x, r.addressing, r.claimant))] :
                r \in moved}
        /\ addressings' = [a \in Addressings |->
             IF \E r \in moved : r.addressing = a THEN i ELSE addressings[a]]
        /\ aliases' = [j \in Ids |-> IF j \in old THEN Alias("merged", {i}) ELSE aliases[j]]
        /\ states' = [j \in Ids |-> IF j \in old THEN NoState ELSE states[j]]

\* group assigns each addressing of x to one of n >= 2 non-empty groups; group k
\* becomes the new subject minted + k.  One record per addressing is kept.
split_subject(x, n, group) ==
    LET fresh == (minted + 1)..(minted + n)
        kept == {CHOOSE r \in RowsOf(x) : r.addressing = a : a \in DOMAIN group}
    IN  /\ x \in live
        /\ aliases[x] = NoAlias
        /\ n >= 2
        /\ DOMAIN group = {r.addressing : r \in RowsOf(x)}
        /\ \A k \in 1..n : \E a \in DOMAIN group : group[a] = k
        /\ minted + n <= MaxIds
        /\ minted' = minted + n
        /\ live' = (live \ {x}) \cup fresh
        /\ subject_type' = [j \in Ids |-> IF j \in fresh THEN subject_type[x] ELSE subject_type[j]]
        /\ records' = (records \ RowsOf(x)) \cup
             {[r EXCEPT !.subject = minted + group[r.addressing], !.copy = 1] : r \in kept}
        /\ addressings' = [a \in Addressings |->
             IF a \in DOMAIN group THEN minted + group[a] ELSE addressings[a]]
        /\ aliases' = [aliases EXCEPT ![x] = Alias("split", fresh)]
        /\ states' = [states EXCEPT ![x] = NoState]

\* update_state: a null state removes the entry.
update_state(x, st) ==
    /\ x \in live
    /\ states' = [states EXCEPT ![x] = st]
    /\ UNCHANGED <<live, subject_type, records, addressings, aliases, minted>>

Groupings(x, n) == [{r.addressing : r \in RowsOf(x)} -> 1..n]

RegNext ==
    \/ \E p \in Plugins, ann \in Announcements : announce(p, ann)
    \/ \E p \in Plugins, a \in Addressings : retract(a, p)
    \/ \E p \in Plugins, a \in Addressings : forced_retract_addressing(a, p)
    \/ \E x, y \in Ids : merge_aliases(x, y)
    \/ \E x \in Ids, n \in 2..MaxGroups : \E group \in Groupings(x, n) :
         split_subject(x, n, group)
    \/ \E x \in Ids, st \in States \cup {NoState} : update_state(x, st)

RegSpec == RegInit /\ [][RegNext]_regVars

-----------------------------------------------------------------------------

\* The reverse index and the records agree: an addressing resolves to a subject
\* exactly when that subject lists it, once, for one claimant; merge_aliases
\* relies on it when it concatenates without removing duplicates.
IndexAgrees ==
    /\ \A r \in records : r.subject \in live /\ addressings[r.addressing] = r.subject
    /\ \A a \in Addressings : addressings[a] # NoId => \E r \in records : r.addressing = a
    /\ \A r, q \in records : r.addressing = q.addressing => r = q

\* An id is live or retired and never both; every id ever minted can be answered
\* for by describe or describe_alias.  This is what keeps aliases_try_insert from
\* meeting an existing key, where merge and split panic.  A live id has an addressing:
\* no subject is left that no plugin's retract could reach.
IdsAccountedFor ==
    \A i \in Ids : /\ i \in live => aliases[i] = NoAlias /\ \E a \in Addressings : addressings[a] = i
                   /\ i \in live \/ aliases[i] # NoAlias <=> i <= minted

\* An alias leads only to younger ids that exist, so a chain walk ends at live
\* subjects or tombstones.
AliasChainsEnd ==
    \A i \in Ids : \A j \in aliases[i].to : i < j /\ j <= minted

\* Runtime state belongs to live subjects only.
StatesOfLive == \A i \in Ids : states[i] # NoState => i \in live

Owner(recs, a) == {r.claimant : r \in {q \in recs : q.addressing = a}}
TypeOf(a) == subject_type[addressings[a]]

\* No operation, merge and split included, hands a registered addressing to
\* another plugin or to a subject of another type.
ProvenanceKept ==
    [][\A a \in Addressings :
         (addressings[a] # NoId /\ addressings'[a] # NoId) =>
             /\ Owner(records', a) = Owner(records, a)
             /\ TypeOf(a)' = TypeOf(a)]_regVars
=============================================================================
