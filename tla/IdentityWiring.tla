--------------------------- MODULE IdentityWiring ---------------------------
(***************************************************************************)
(* The announcer and administration handlers (crates/evo/src/context.rs)   *)
(* over the subject registry, the relation graph, the conflict index and   *)
(* the SQLite store they mirror their work to (persistence.rs), with the   *)
(* boot that reloads the in-memory state from it (lib.rs).                 *)
(*                                                                         *)
(* A handler changes memory first and then awaits its transactions one by  *)
(* one: todo[t] is what task t has still to do, so another task, a failure *)
(* or a crash may come before any element of it.  Lookups that come right  *)
(* before an in-memory operation, with nothing awaited between them, are   *)
(* one step with it.  A durable happening is an await of its own that      *)
(* changes nothing here; when it fails, the handler returns as when a      *)
(* transaction fails.  The admin log and the claim log are written and     *)
(* never read back by a handler.                                           *)
(***************************************************************************)
EXTENDS SubjectRegistry, Sequences

CONSTANTS
    Predicates,
    Reasons,
    Tasks,       \* concurrent handlers
    Handlers,    \* the handlers that are called
    StoreFails,  \* whether a transaction or an emit may fail
    MaxBoots,    \* bound: starts of the steward
    MaxCalls     \* bound: handlers called

VARIABLES
    relations, claims, suppression, forward, inverse,  \* the relation graph
    conflict_index,  \* SubjectConflictIndex: the open conflicts, by their ids
    d_subjects,      \* table subjects: the type of a row, NoType for no row
    d_addressings,   \* table subject_addressings
    d_aliases,       \* table aliases: the rows of each old_id, oldest first
    d_states,        \* table subject_states
    d_relations,     \* table relations
    d_claimants,     \* table relation_claimants
    d_suppression,   \* the suppression columns of relations
    d_conflicts,     \* table pending_conflicts: the unresolved rows
    todo,            \* what each task's handler has still to do
    boots, calls     \* starts of the steward and handlers called so far

INSTANCE RelationGraph WITH Nodes <- Ids, Claimants <- Plugins

edgeVars == <<relations, claims, suppression, forward, inverse>>
subjectTables == <<d_subjects, d_addressings, d_aliases>>
relationTables == <<d_relations, d_claimants, d_suppression>>
durable == <<subjectTables, d_states, relationTables, d_conflicts>>
memory == <<regVars, edgeVars, conflict_index>>
bounds == <<boots, calls>>
wiringVars == <<memory, durable, todo, bounds>>

NoRow == [subject |-> NoId, claimant |-> "none"]
AliasRow(kind, new_id) == [kind |-> kind, new_id |-> new_id]

At(t, op) == todo[t] # <<>> /\ Head(todo[t]).op = op
Ready(t, handler) == todo[t] = <<>> /\ handler \in Handlers /\ calls < MaxCalls
Do(t, steps) == todo' = [todo EXCEPT ![t] = steps]
Begin(t, steps) == Do(t, steps) /\ calls' = calls + 1
Done(t) == Do(t, Tail(todo[t]))

-----------------------------------------------------------------------------
(* Subject handlers: the in-memory step, which sets the rest of the handler. *)

Tx(op, id) == [op |-> op, id |-> id]
WriteState(i, st) == [op |-> "subject_state", id |-> i, state |-> st]
Scan == [op |-> "list_pending_conflicts"]

\* A conflict is recorded as pending; otherwise the whole announcement is
\* written, whoever claimed the addressings before, and then its state.
AnnounceSubject(t, p, ann) ==
    LET i == IF Resolved(ann) = {} THEN minted + 1 ELSE CHOOSE j \in Resolved(ann) : TRUE
        keeps == Resolved(ann) # {} /\ Unresolved(ann) = {}
        row == [op |-> "record_subject_announce", id |-> i, type |-> ann.type,
                named |-> DOMAIN ann.copies, claimant |-> p]
    IN  /\ Ready(t, "announce")
        /\ announce(p, ann)
        /\ Begin(t, IF Cardinality(Resolved(ann)) > 1
                 THEN <<[op |-> "record_pending_conflict", ids |-> Resolved(ann)]>>
                 ELSE IF keeps \/ ann.state = NoState THEN <<row>>
                 ELSE <<row, WriteState(i, ann.state)>>)
        /\ UNCHANGED <<edgeVars, conflict_index, durable, boots>>

\* retract resolves the addressing, perhaps to nothing, for the store before it asks the
\* registry.
RetractSubject(t, p, a) ==
    /\ Ready(t, "retract")
    /\ Begin(t, <<[op |-> "retract", id |-> addressings[a], addressing |-> a, claimant |-> p]>>)
    /\ UNCHANGED <<memory, durable, boots>>

\* Mutant: the edges of a forgotten subject stay.
ForgetNoCascade(i) == <<Tx("record_subject_forget", i), WriteState(i, NoState), Scan>>
ForgetSteps(i) == <<Tx("record_subject_forget", i), WriteState(i, NoState), Tx("forget_all_touching", i), Scan>>
ForcedForgetSteps(i) == <<Tx("record_subject_forget", i), Tx("forget_all_touching", i), Scan>>
RetractRow(i, a) == [op |-> "record_subject_retract", id |-> i, addressing |-> a]

\* The registry forgets the subject it finds now; the row of a removed addressing
\* is sought under the id found before, if one was.  A claim that is gone ends the handler.
RetractClaim(t) ==
    LET s == Head(todo[t])
        i == addressings[s.addressing]
    IN  /\ At(t, "retract")
        /\ \/ /\ retract(s.addressing, s.claimant)
              /\ Do(t, IF i \notin live' THEN ForgetSteps(i)
                       ELSE IF s.id = NoId THEN <<>> ELSE <<RetractRow(s.id, s.addressing)>>)
           \/ /\ i = NoId \/ ClaimRows(i, s.addressing, s.claimant) = {}
              /\ Done(t)
              /\ UNCHANGED regVars
        /\ UNCHANGED <<edgeVars, conflict_index, durable, bounds>>

ForcedRetractAddressing(t, admin, a, target_plugin) ==
    LET i == addressings[a]
    IN  /\ Ready(t, "forced_retract_addressing")
        /\ target_plugin # admin
        /\ forced_retract_addressing(a, target_plugin)
        /\ Begin(t, IF i \in live' THEN <<RetractRow(i, a)>> ELSE ForcedForgetSteps(i))
        /\ UNCHANGED <<edgeVars, conflict_index, durable, boots>>

MergeSubjects(t, a, b) ==
    LET x == addressings[a]
        y == addressings[b]
        i == minted + 1
    IN  /\ Ready(t, "merge")
        /\ x # NoId /\ y # NoId
        /\ merge_aliases(x, y)
        /\ Begin(t, <<[op |-> "record_subject_merge", id |-> i, type |-> subject_type[x], old |-> {x, y}],
                   [op |-> "rewrite_subject_to", sources |-> <<x, y>>, id |-> i],
                   Scan>>)
        /\ UNCHANGED <<edgeVars, conflict_index, durable, boots>>

SplitSubject(t, a, n, group, strategy, explicit) ==
    LET x == addressings[a]
        placed == [b \in DOMAIN group |-> minted + group[b]]
    IN  /\ Ready(t, "split")
        /\ x # NoId
        /\ split_subject(x, n, group)
        /\ Begin(t, <<[op |-> "record_subject_split", id |-> x, type |-> subject_type[x],
                    placed |-> placed],
                   [op |-> "split_relations", id |-> x, first |-> minted + 1, placed |-> placed,
                    strategy |-> strategy, explicit |-> explicit],
                   Scan>>)
        /\ UNCHANGED <<edgeVars, conflict_index, durable, boots>>

\* update_state_volatile changes memory alone.
UpdateState(t, p, a, st, persist_durable) ==
    LET i == addressings[a]
    IN  /\ Ready(t, IF persist_durable THEN "update_state" ELSE "update_state_volatile")
        /\ i # NoId
        /\ \E r \in RowsOf(i) : r.claimant = p
        /\ update_state(i, st)
        /\ Begin(t, IF persist_durable THEN <<WriteState(i, st)>> ELSE <<>>)
        /\ UNCHANGED <<edgeVars, conflict_index, durable, boots>>

-----------------------------------------------------------------------------
(* The graph steps of the subject handlers. *)

\* The edges of a forgotten subject go, and then their rows one by one.
CascadeForget(t) ==
    LET i == Head(todo[t]).id
    IN  /\ At(t, "forget_all_touching")
        /\ forget_all_touching(i)
        /\ Do(t, IF Touching(i) = {} THEN Tail(todo[t])
                 ELSE <<[op |-> "record_relation_forget", keys |-> Touching(i)]>> \o Tail(todo[t]))
        /\ UNCHANGED <<regVars, conflict_index, durable, bounds>>

\* One call per source, with nothing awaited between them.  The relation tables
\* are left alone.
CascadeMerge(t) ==
    LET s == Head(todo[t])
        rest == [s EXCEPT !.sources = Tail(@)]
    IN  /\ At(t, "rewrite_subject_to")
        /\ rewrite_subject_to(Head(s.sources), s.id)
        /\ Do(t, IF rest.sources = <<>> THEN Tail(todo[t]) ELSE <<rest>> \o Tail(todo[t]))
        /\ UNCHANGED <<regVars, conflict_index, durable, bounds>>

CascadeSplit(t) ==
    LET s == Head(todo[t])
        new_ids == {s.placed[a] : a \in DOMAIN s.placed}
    IN  /\ At(t, "split_relations")
        /\ split_relations(s.id, new_ids, s.first, s.strategy, s.explicit)
        /\ Done(t)
        /\ UNCHANGED <<regVars, conflict_index, durable, bounds>>

-----------------------------------------------------------------------------
(* Relation handlers: two lookups, the graph's operation, its row.  A lookup *)
(* that finds nothing ends the handler.                                      *)

RelationVerbs ==
    {"assert", "retract_relation", "forced_retract_claim", "suppress", "unsuppress"}

\* p is the claimant, or for suppress the administrator.  An administrator may
\* not force out its own claim: another plugin must be the one that calls.
ResolveSource(t, verb, p, a, q, b, why) ==
    /\ verb \in RelationVerbs
    /\ Ready(t, verb)
    /\ verb = "forced_retract_claim" => \E admin \in Plugins : admin # p
    /\ addressings[a] # NoId
    /\ Begin(t, <<[op |-> "resolve_target", verb |-> verb, source |-> addressings[a],
                predicate |-> q, to |-> b, claimant |-> p, reason |-> why]>>)
    /\ UNCHANGED <<memory, durable, boots>>

\* assert also describes both ends and needs them live; predicates accept every type.
ResolveTarget(t) ==
    LET s == Head(todo[t])
        i == addressings[s.to]
        k == [source |-> s.source, predicate |-> s.predicate, target |-> i]
    IN  /\ At(t, "resolve_target")
        /\ IF i = NoId \/ (s.verb = "assert" /\ s.source \notin live)
           THEN Done(t)
           ELSE Do(t, <<[op |-> s.verb, key |-> k, claimant |-> s.claimant, reason |-> s.reason]>>)
        /\ UNCHANGED <<memory, durable, bounds>>

AssertRelation(t) ==
    LET s == Head(todo[t])
    IN  /\ At(t, "assert")
        /\ \/ /\ assert(s.key, s.claimant)
              /\ Do(t, <<[s EXCEPT !.op = "describe_relation"]>>)
           \/ /\ s.claimant \in claims[s.key]
              /\ Done(t)
              /\ UNCHANGED edgeVars
        /\ UNCHANGED <<regVars, conflict_index, durable, bounds>>

\* The row to write is read back from the graph; a relation gone by then is an error.
DescribeRelation(t) ==
    LET s == Head(todo[t])
    IN  /\ At(t, "describe_relation")
        /\ IF s.key \in relations THEN Do(t, <<[s EXCEPT !.op = "record_relation_assert"]>>)
           ELSE Done(t)
        /\ UNCHANGED <<memory, durable, bounds>>

RetractRelation(t) ==
    LET s == Head(todo[t])
        row == [op |-> "record_relation_retract", key |-> s.key, claimant |-> s.claimant,
                forgotten |-> claims[s.key] = {s.claimant}]
    IN  /\ At(t, "retract_relation") \/ At(t, "forced_retract_claim")
        /\ \/ /\ \/ At(t, "retract_relation") /\ retract_claim(s.key, s.claimant)
                 \/ At(t, "forced_retract_claim") /\ forced_retract_claim(s.key, s.claimant)
              /\ Do(t, <<row>>)
           \/ /\ s.claimant \notin claims[s.key]
              /\ Done(t)
              /\ UNCHANGED edgeVars
        /\ UNCHANGED <<regVars, conflict_index, durable, bounds>>

\* The row takes the caller as its author, whoever suppressed first.
SuppressRelation(t) ==
    LET s == Head(todo[t])
    IN  /\ At(t, "suppress")
        /\ \/ /\ suppress(s.key, s.claimant, s.reason)
              /\ Do(t, <<[s EXCEPT !.op = "record_relation_suppress"]>>)
           \/ /\ s.key \in relations => suppression[s.key].reason = s.reason
              /\ Done(t)
              /\ UNCHANGED edgeVars
        /\ UNCHANGED <<regVars, conflict_index, durable, bounds>>

UnsuppressRelation(t) ==
    LET s == Head(todo[t])
    IN  /\ At(t, "unsuppress")
        /\ \/ /\ unsuppress(s.key)
              /\ Do(t, <<[s EXCEPT !.op = "record_relation_unsuppress"]>>)
           \/ /\ s.key \notin relations \/ suppression[s.key] = NoMarker
              /\ Done(t)
              /\ UNCHANGED edgeVars
        /\ UNCHANGED <<regVars, conflict_index, durable, bounds>>

-----------------------------------------------------------------------------
(* Transactions.  Each is atomic; those of different tasks commit in any order. *)

\* DELETE FROM subjects, with the foreign key's cascade, over some addressing rows.
WithoutSubjects(gone, rows) ==
    [a \in Addressings |-> IF rows[a].subject \in gone THEN NoRow ELSE rows[a]]

\* Mutant: a re-announcement rewrites the type.
AnnounceReplaces(t) ==
    LET s == Head(todo[t])
    IN  /\ At(t, "record_subject_announce")
        /\ d_subjects' = [d_subjects EXCEPT ![s.id] = s.type]
        /\ d_addressings' = [a \in Addressings |->
             IF a \in s.named THEN [subject |-> s.id, claimant |-> s.claimant]
             ELSE d_addressings[a]]
        /\ Done(t)
        /\ UNCHANGED <<memory, d_aliases, d_states, relationTables, d_conflicts, bounds>>

record_subject_announce(t) ==
    LET s == Head(todo[t])
    IN  /\ At(t, "record_subject_announce")
        /\ d_subjects' = [d_subjects EXCEPT ![s.id] = IF @ = NoType THEN s.type ELSE @]
        /\ d_addressings' = [a \in Addressings |->
             IF a \in s.named THEN [subject |-> s.id, claimant |-> s.claimant]
             ELSE d_addressings[a]]
        /\ Done(t)
        /\ UNCHANGED <<memory, d_aliases, d_states, relationTables, d_conflicts, bounds>>

record_subject_retract(t) ==
    LET s == Head(todo[t])
    IN  /\ At(t, "record_subject_retract")
        /\ d_addressings' = [d_addressings EXCEPT ![s.addressing] =
             IF @.subject = s.id THEN NoRow ELSE @]
        /\ Done(t)
        /\ UNCHANGED <<memory, d_subjects, d_aliases, d_states, relationTables, d_conflicts, bounds>>

\* Mutant: the addressing rows stay.
ForgetNoForeignKey(t) ==
    LET i == Head(todo[t]).id
    IN  /\ At(t, "record_subject_forget")
        /\ d_subjects' = [d_subjects EXCEPT ![i] = NoType]
        /\ UNCHANGED d_addressings
        /\ d_aliases' = [d_aliases EXCEPT ![i] = Append(@, AliasRow("tombstone", NoId))]
        /\ Done(t)
        /\ UNCHANGED <<memory, d_states, relationTables, d_conflicts, bounds>>

record_subject_forget(t) ==
    LET i == Head(todo[t]).id
    IN  /\ At(t, "record_subject_forget")
        /\ d_subjects' = [d_subjects EXCEPT ![i] = NoType]
        /\ d_addressings' = WithoutSubjects({i}, d_addressings)
        /\ d_aliases' = [d_aliases EXCEPT ![i] = Append(@, AliasRow("tombstone", NoId))]
        /\ Done(t)
        /\ UNCHANGED <<memory, d_states, relationTables, d_conflicts, bounds>>

\* Mutant: the rows of the merged subjects stay.
MergeKeepsSources(t) ==
    LET s == Head(todo[t])
    IN  /\ At(t, "record_subject_merge")
        /\ d_subjects[s.id] = NoType
        /\ d_subjects' = [i \in Ids |-> IF i = s.id THEN s.type ELSE d_subjects[i]]
        /\ d_addressings' = [a \in Addressings |->
             IF d_addressings[a].subject \in s.old THEN [d_addressings[a] EXCEPT !.subject = s.id]
             ELSE d_addressings[a]]
        /\ d_aliases' = [i \in Ids |->
             IF i \in s.old THEN Append(d_aliases[i], AliasRow("merged", s.id)) ELSE d_aliases[i]]
        /\ Done(t)
        /\ UNCHANGED <<memory, d_states, relationTables, d_conflicts, bounds>>

\* A plain INSERT: an id that has a row already fails the transaction.
record_subject_merge(t) ==
    LET s == Head(todo[t])
    IN  /\ At(t, "record_subject_merge")
        /\ d_subjects[s.id] = NoType
        /\ d_subjects' = [i \in Ids |-> IF i = s.id THEN s.type
                                        ELSE IF i \in s.old THEN NoType ELSE d_subjects[i]]
        /\ d_addressings' = [a \in Addressings |->
             IF d_addressings[a].subject \in s.old THEN [d_addressings[a] EXCEPT !.subject = s.id]
             ELSE d_addressings[a]]
        /\ d_aliases' = [i \in Ids |->
             IF i \in s.old THEN Append(d_aliases[i], AliasRow("merged", s.id)) ELSE d_aliases[i]]
        /\ Done(t)
        /\ UNCHANGED <<memory, d_states, relationTables, d_conflicts, bounds>>

NewIds(s) == {s.placed[a] : a \in DOMAIN s.placed}
AliasRows(ids) == LET n == CHOOSE i \in ids : \A j \in ids : i <= j
                  IN  [k \in 1..Cardinality(ids) |-> AliasRow("split", n + k - 1)]

record_subject_split(t) ==
    LET s == Head(todo[t])
        moved == [a \in Addressings |->
                    IF a \in DOMAIN s.placed /\ d_addressings[a] # NoRow
                    THEN [d_addressings[a] EXCEPT !.subject = s.placed[a]]
                    ELSE d_addressings[a]]
    IN  /\ At(t, "record_subject_split")
        /\ \A i \in NewIds(s) : d_subjects[i] = NoType
        /\ d_subjects' = [i \in Ids |-> IF i \in NewIds(s) THEN s.type
                                        ELSE IF i = s.id THEN NoType ELSE d_subjects[i]]
        /\ d_addressings' = WithoutSubjects({s.id}, moved)
        /\ d_aliases' = [d_aliases EXCEPT ![s.id] = @ \o AliasRows(NewIds(s))]
        /\ Done(t)
        /\ UNCHANGED <<memory, d_states, relationTables, d_conflicts, bounds>>

\* The primary key is taken: the handler returns the error.
InsertRefused(t) ==
    LET s == Head(todo[t])
    IN  /\ \/ At(t, "record_subject_merge") /\ d_subjects[s.id] # NoType
           \/ At(t, "record_subject_split") /\ \E i \in NewIds(s) : d_subjects[i] # NoType
        /\ Do(t, <<>>)
        /\ UNCHANGED <<memory, durable, bounds>>

\* record_subject_state, and forget_subject_state for a null state.
record_subject_state(t) ==
    LET s == Head(todo[t])
    IN  /\ At(t, "subject_state")
        /\ d_states' = [d_states EXCEPT ![s.id] = s.state]
        /\ Done(t)
        /\ UNCHANGED <<memory, subjectTables, relationTables, d_conflicts, bounds>>

\* A new row has no suppression, whatever the graph holds.
record_relation_assert(t) ==
    LET s == Head(todo[t])
    IN  /\ At(t, "record_relation_assert")
        /\ d_relations' = d_relations \cup {s.key}
        /\ d_claimants' = [d_claimants EXCEPT ![s.key] = @ \cup {s.claimant}]
        /\ Done(t)
        /\ UNCHANGED <<memory, subjectTables, d_states, d_suppression, d_conflicts, bounds>>

DeleteRelation(k) ==
    /\ d_relations' = d_relations \ {k}
    /\ d_claimants' = [d_claimants EXCEPT ![k] = {}]
    /\ d_suppression' = [d_suppression EXCEPT ![k] = NoMarker]

\* Mutant: a relation without claimants keeps its row.
RetractClaimantOnly(t) ==
    LET s == Head(todo[t])
    IN  /\ At(t, "record_relation_retract")
        /\ d_claimants' = [d_claimants EXCEPT ![s.key] = @ \ {s.claimant}]
        /\ UNCHANGED <<d_relations, d_suppression>>
        /\ Done(t)
        /\ UNCHANGED <<memory, subjectTables, d_states, d_conflicts, bounds>>

record_relation_retract(t) ==
    LET s == Head(todo[t])
    IN  /\ At(t, "record_relation_retract")
        /\ IF s.forgotten THEN DeleteRelation(s.key)
           ELSE /\ d_claimants' = [d_claimants EXCEPT ![s.key] = @ \ {s.claimant}]
                /\ UNCHANGED <<d_relations, d_suppression>>
        /\ Done(t)
        /\ UNCHANGED <<memory, subjectTables, d_states, d_conflicts, bounds>>

record_relation_forget(t, k) ==
    LET s == Head(todo[t])
        rest == [s EXCEPT !.keys = @ \ {k}]
    IN  /\ At(t, "record_relation_forget")
        /\ k \in s.keys
        /\ DeleteRelation(k)
        /\ Do(t, IF rest.keys = {} THEN Tail(todo[t]) ELSE <<rest>> \o Tail(todo[t]))
        /\ UNCHANGED <<memory, subjectTables, d_states, d_conflicts, bounds>>

record_relation_suppress(t) ==
    LET s == Head(todo[t])
    IN  /\ At(t, "record_relation_suppress")
        /\ d_suppression' = IF s.key \in d_relations
             THEN [d_suppression EXCEPT ![s.key] = [admin |-> s.claimant, reason |-> s.reason]]
             ELSE d_suppression
        /\ Done(t)
        /\ UNCHANGED <<memory, subjectTables, d_states, d_relations, d_claimants, d_conflicts, bounds>>

record_relation_unsuppress(t) ==
    LET s == Head(todo[t])
    IN  /\ At(t, "record_relation_unsuppress")
        /\ d_suppression' = [d_suppression EXCEPT ![s.key] = NoMarker]
        /\ Done(t)
        /\ UNCHANGED <<memory, subjectTables, d_states, d_relations, d_claimants, d_conflicts, bounds>>

-----------------------------------------------------------------------------
(* Pending conflicts.  A conflict is the set of ids its announcement named. *)

record_pending_conflict(t) ==
    LET s == Head(todo[t])
    IN  /\ At(t, "record_pending_conflict")
        /\ d_conflicts' = d_conflicts \cup {s.ids}
        /\ Do(t, <<[s EXCEPT !.op = "index_conflict"]>>)
        /\ UNCHANGED <<memory, subjectTables, d_states, relationTables, bounds>>

IndexConflict(t) ==
    /\ At(t, "index_conflict")
    /\ conflict_index' = conflict_index \cup {Head(todo[t]).ids}
    /\ Done(t)
    /\ UNCHANGED <<regVars, edgeVars, durable, bounds>>

list_pending_conflicts(t) ==
    /\ At(t, "list_pending_conflicts")
    /\ Do(t, IF d_conflicts = {} THEN <<>>
             ELSE <<[op |-> "mark_conflict_resolved", rows |-> d_conflicts]>>)
    /\ UNCHANGED <<memory, durable, bounds>>

Remaining(s, c) == IF s.rows = {c} THEN <<>> ELSE <<[s EXCEPT !.rows = @ \ {c}]>>

\* Mutant: the index keeps the resolved conflict.
ResolveRowOnly(t, c) ==
    LET s == Head(todo[t])
    IN  /\ At(t, "mark_conflict_resolved")
        /\ c \in s.rows
        /\ IF Cardinality(c \cap live) <= 1
           THEN /\ d_conflicts' = d_conflicts \ {c}
                /\ UNCHANGED conflict_index
           ELSE UNCHANGED <<d_conflicts, conflict_index>>
        /\ Do(t, Remaining(s, c))
        /\ UNCHANGED <<regVars, edgeVars, subjectTables, d_states, relationTables, bounds>>

\* A conflict is over once at most one of its subjects is live.
mark_conflict_resolved(t, c) ==
    LET s == Head(todo[t])
    IN  /\ At(t, "mark_conflict_resolved")
        /\ c \in s.rows
        /\ IF Cardinality(c \cap live) <= 1
           THEN /\ d_conflicts' = d_conflicts \ {c}
                /\ conflict_index' = conflict_index \ {c}
           ELSE UNCHANGED <<d_conflicts, conflict_index>>
        /\ Do(t, Remaining(s, c))
        /\ UNCHANGED <<regVars, edgeVars, subjectTables, d_states, relationTables, bounds>>

-----------------------------------------------------------------------------
Awaits ==
    {"record_subject_announce", "record_subject_retract", "record_subject_forget",
     "record_subject_merge", "record_subject_split", "subject_state", "record_relation_assert",
     "record_relation_retract", "record_relation_forget", "record_relation_suppress",
     "record_relation_unsuppress", "record_pending_conflict", "list_pending_conflicts",
     "forget_all_touching", "split_relations"}

\* A transaction fails, or the emit before a graph step: the handler returns its
\* error and undoes nothing.  The conflict scan alone goes on with its next row.
StoreFailure(t) ==
    /\ StoreFails
    /\ todo[t] # <<>>
    /\ LET s == Head(todo[t])
       IN  \/ s.op \in Awaits /\ Do(t, <<>>)
           \/ s.op = "rewrite_subject_to" /\ Len(s.sources) = 2 /\ Do(t, <<>>)
           \/ s.op = "mark_conflict_resolved" /\ \E c \in s.rows : Do(t, Remaining(s, c))
    /\ UNCHANGED <<memory, durable, bounds>>

\* Rows of one old id are grouped; the oldest row gives the kind.
LoadAlias(rows) ==
    IF rows = <<>> THEN NoAlias
    ELSE Alias(rows[1].kind, IF rows[1].kind = "tombstone" THEN {}
                             ELSE {rows[k].new_id : k \in DOMAIN rows})

Stored == {i \in Ids : d_subjects[i] # NoType}
\* Mutant: loads the rows whose subject is gone.
LoadAllStates == d_states
\* rehydrate_states_from drops the rows whose subject is gone.
LoadStates == [i \in Ids |-> IF i \in Stored THEN d_states[i] ELSE NoState]
\* A suppressed relation is loaded without index entries.
LoadKeys == {k \in d_relations : d_suppression[k] = NoMarker}

\* The steward stops between any two steps and boots: the registry, its states and
\* the graph are reloaded; the conflict index starts empty.
Restart ==
    /\ boots < MaxBoots
    /\ boots' = boots + 1
    /\ todo' = [t \in Tasks |-> <<>>]
    /\ live' = Stored
    /\ subject_type' = d_subjects
    /\ records' = {[subject |-> d_addressings[a].subject, addressing |-> a,
                    claimant |-> d_addressings[a].claimant, copy |-> 1] :
                     a \in {b \in Addressings : d_addressings[b].subject \in Stored}}
    /\ addressings' = [a \in Addressings |->
         IF d_addressings[a].subject \in Stored THEN d_addressings[a].subject ELSE NoId]
    /\ aliases' = [i \in Ids |-> LoadAlias(d_aliases[i])]
    /\ states' = LoadStates
    /\ relations' = d_relations
    /\ claims' = d_claimants
    /\ suppression' = d_suppression
    /\ forward' = LoadKeys
    /\ inverse' = LoadKeys
    /\ conflict_index' = {}
    /\ UNCHANGED <<minted, durable, calls>>

WiringInit ==
    /\ RegInit
    /\ GraphInit
    /\ conflict_index = {}
    /\ d_subjects = [i \in Ids |-> NoType]
    /\ d_addressings = [a \in Addressings |-> NoRow]
    /\ d_aliases = [i \in Ids |-> <<>>]
    /\ d_states = [i \in Ids |-> NoState]
    /\ d_relations = {}
    /\ d_claimants = [k \in Key |-> {}]
    /\ d_suppression = [k \in Key |-> NoMarker]
    /\ d_conflicts = {}
    /\ todo = [t \in Tasks |-> <<>>]
    /\ boots = 1
    /\ calls = 0

Splitting(t) ==
    \E a \in Addressings, n \in 2..MaxGroups, strategy \in {"to_both", "to_first", "explicit"} :
        LET x == addressings[a]
        IN  /\ x # NoId
            /\ \E group \in Groupings(x, n), some \in SUBSET Touching(x) :
                 \E explicit \in [some -> (minted + 1)..(minted + n)] :
                    /\ strategy # "explicit" => some = {}
                    /\ SplitSubject(t, a, n, group, strategy, explicit)

Handle(t) ==
    \/ \E p \in Plugins, ann \in Announcements : AnnounceSubject(t, p, ann)
    \/ \E p \in Plugins, a \in Addressings : RetractSubject(t, p, a)
    \/ \E admin, p \in Plugins, a \in Addressings : ForcedRetractAddressing(t, admin, a, p)
    \/ \E a, b \in Addressings : MergeSubjects(t, a, b)
    \/ Splitting(t)
    \/ \E p \in Plugins, a \in Addressings, st \in States \cup {NoState}, persist \in BOOLEAN :
         UpdateState(t, p, a, st, persist)
    \/ \E verb \in RelationVerbs, p \in Plugins, a, b \in Addressings, q \in Predicates,
          why \in Reasons : ResolveSource(t, verb, p, a, q, b, why)

Continue(t) ==
    \/ RetractClaim(t) \/ CascadeForget(t) \/ CascadeMerge(t) \/ CascadeSplit(t)
    \/ ResolveTarget(t) \/ AssertRelation(t) \/ DescribeRelation(t) \/ RetractRelation(t)
    \/ SuppressRelation(t) \/ UnsuppressRelation(t) \/ IndexConflict(t)

Commit(t) ==
    \/ record_subject_announce(t) \/ record_subject_retract(t) \/ record_subject_forget(t)
    \/ record_subject_merge(t) \/ record_subject_split(t) \/ InsertRefused(t)
    \/ record_subject_state(t) \/ record_relation_assert(t) \/ record_relation_retract(t)
    \/ \E k \in Key : record_relation_forget(t, k)
    \/ record_relation_suppress(t) \/ record_relation_unsuppress(t)
    \/ record_pending_conflict(t) \/ list_pending_conflicts(t)
    \/ \E c \in SUBSET Ids : mark_conflict_resolved(t, c)

WiringNext ==
    \/ \E t \in Tasks : Handle(t) \/ Continue(t) \/ Commit(t) \/ StoreFailure(t)
    \/ Restart

WiringSpec == WiringInit /\ [][WiringNext]_wiringVars

-----------------------------------------------------------------------------
Quiet == \A t \in Tasks : todo[t] = <<>>

\* What the tables hold is well-formed whatever the order the transactions of
\* concurrent handlers committed in: the foreign keys hold, no row outlives the
\* relation it describes.
WiringTypeOK ==
    /\ d_subjects \in [Ids -> Types \cup {NoType}]
    /\ \A a \in Addressings : d_addressings[a] # NoRow =>
         d_addressings[a] \in [subject : Stored, claimant : Plugins]
    /\ d_states \in [Ids -> States \cup {NoState}]
    /\ \A k \in Key \ d_relations : d_claimants[k] = {} /\ d_suppression[k] = NoMarker
    /\ d_conflicts \subseteq SUBSET Ids
    /\ boots \in 1..MaxBoots
    /\ calls \in 0..MaxCalls

\* Whatever handlers interleave, fail or are cut off by a restart, the registry's index
\* agrees with its records, states belong to live subjects, and the graph's indices hold
\* the visible relations.
MemoryConsistent == IndexAgrees /\ StatesOfLive /\ IndicesExact

\* Between handlers the tables hold what the registry holds: a restart gives back
\* the same subjects, types, addressings, retired ids and states.
IdentityDurable ==
    Quiet => /\ live = Stored
             /\ \A i \in live : subject_type[i] = d_subjects[i] /\ states[i] = d_states[i]
             /\ \A a \in Addressings : addressings[a] = d_addressings[a].subject
             /\ \A i \in Ids : aliases[i] = LoadAlias(d_aliases[i])

\* Between handlers a restart gives back the same edges, claimants and suppressions.
EdgesDurable ==
    Quiet => relations = d_relations /\ claims = d_claimants /\ suppression = d_suppression

\* Until a restart, which may cut a forget off before its cascade, between handlers no
\* relation dangles: its source and its target are live.
EdgesHaveLiveEnds ==
    Quiet /\ boots = 1 => \A k \in relations : k.source \in live /\ k.target \in live

\* Until a restart, which leaves the index empty, between handlers the conflict index
\* holds the pending rows, and no conflict is still pending once a single subject of it
\* is left.
ConflictsIndexed ==
    Quiet /\ boots = 1 => /\ conflict_index = d_conflicts
                          /\ \A c \in d_conflicts : Cardinality(c \cap live) > 1

\* A retired id never comes back to life, not even over a restart.
NeverLiveAgain == \A i \in live : aliases[i] = NoAlias
=============================================================================
