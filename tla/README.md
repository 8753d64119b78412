# Verification of the evo steward

TLA+ models, TLC configurations and TLAPS proofs for the steward of evo-core
(`src/crates/evo`), the process that admits plugins, keeps the subjects and
relations they announce, calls them, and tells clients what happens.

## 1. Inventory

The steward is one multi-threaded tokio process over one SQLite file. A function
stops at every `.await`: other tasks run there, and a crash may fall there. State
behind a `std::sync::Mutex` or `RwLock` is changed without an await; a call into
the store is one transaction, and transactions of different tasks commit in any
order. Boot reloads memory from the store.

| Part | State | Operations | Talks to | What is hard |
|---|---|---|---|---|
| Happenings bus (`happenings.rs`) | `next_seq`, `emit_lock`, broadcast channel, table `happenings_log` | `emit`, `emit_durable`, `emit_durable_batch`, janitor, boot | every handler; subscriptions | order of mint, row and broadcast; retention against cursors; restart |
| Subscription (`server.rs` `run_subscription`) | cursor, receiver, dedupe boundary, coalescer | subscribe, window check, replay, live loop, lag, flush | bus, log, client | emits and janitor passes racing the replay; lag; reconnects |
| Coalescer (`coalescer.rs`) | buckets | `observe`, `flush_expired` | subscription | flush order against pass-through |
| Subject registry (`subjects.rs`) | subjects, reverse index, aliases, states | `announce`, `retract`, forced retract, merge, split, `update_state` | announcers | long sequences of merges and splits; repeated addressings |
| Relation graph (`relations.rs`) | relations, claims, suppression, two indices | `assert`, `retract`, forced retract, suppress, unsuppress, forget, rewrite, split, `walk` | announcers, projections | edges that collapse in a merge, suppressed or not |
| Announcers and administration (`context.rs`) | none of their own | the handlers of plugin and admin verbs | registry, graph, conflict index, store, bus | memory order against commit order; failure or crash between steps |
| Subject, relation and conflict tables (`persistence.rs`) | tables | one transaction per record call | handlers, boot | upserts, foreign keys, plain inserts |
| Conflict index (`projections.rs`) | open conflicts | record, resolve | announcers | restart |
| Custody ledger (`custody.rs`, `router.rs`) | mirror, tables `custodies`, `custody_state` | take, correct, release, report, mark | wardens, store, bus | reports racing release and failure marks; restart |
| Router, wire client, plugin host loop (`router.rs`, `wire_client.rs`, SDK `host.rs`) | entries by shelf, handles, pending replies, reader and writer loops, handoff queue | request, dispatch to another shelf, push, unload, disconnect | plugins | who gets which reply; unload against calls; readers waiting on readers |
| Prompts (`prompts.rs`) | entries, waiters, responder slot, table `prompts` | issue, answer, cancel, timeout, boot | plugins, consumers | timer against answer against re-issue |
| Appointments (`appointments.rs`) | ledger, runtime loop, table | schedule, cancel, fire, re-evaluate, boot | clock, router, store | loop working on a snapshot; clock adjustments; misfires |
| Watches (`watches.rs`) | ledger, evaluator state | schedule, cancel, evaluate, dispatch | bus, router | evaluation of a snapshot; lag and throttling; re-issue |
| Plans, factory, reconciliation, groups, queue, interface selection | ledgers | see `PROJECT.json` | registry, router | partial failure, rollback |
| Everything else | files, sockets, keys | parsing, transport, cryptography | host | out of a state model |

`PROJECT.json` lists every part with its sources, and every hazard at its line.

What has to be true: a cursor names one happening and a client misses nothing
silently; an addressing resolves to the one live subject that lists it; a retired
id stays retired; both graph indices answer alike; a relation lives while it is
claimed and its ends are live; a restart gives back what memory held; a released
custody is gone; every call into a plugin ends, with the reply that was meant for it;
a prompt ends the way its plugin is told; an appointment fires when it is due, and no
more often than it may; a watch keeps its cooldown and its minimum duration.

## 2. Modules

| Module | Models |
|---|---|
| `HappeningBus` | bus, log and janitor |
| `Coalescer` | the coalescer, as operators on its bucket list |
| `HappeningSubscription` | `run_subscription` and a reconnecting client; extends the two above |
| `SubjectRegistry` | the registry; one mutex, so one step per operation |
| `RelationGraph` | the graph; one mutex, so one step per operation |
| `IdentityWiring` | the announcers and administrators over registry, graph (by `INSTANCE`), conflict index and tables, with failures and boot |
| `CustodyLedger` | ledger, router verbs, reports and tables for one warden |
| `CustodyView` | what the ledger promises whoever lists it: the abstract specification `CustodyLedger` implements |
| `PluginDispatch` | calls into plugins: the router's guard, the wire client, the host loop, dispatches from one plugin to another |
| `PromptLedger` | prompts, their timers and waiters, the consumers' answers, the rows |
| `Appointments` | the ledger, the runtime loop, the table, two clocks |
| `Watches` | the ledger, the evaluator and its loop over the bus |
| `MCHappenings`, `MCIdentity`, `MCIdentityWiring`, `MCWiringSerial`, `MCCustodyLedger`, `MCWaiting` | instances for TLC: values, filters, symmetry, constraints |
| `WatchProofs`, `AppointmentProofs`, `PromptProofs`, `DispatchProofs` | proofs about the module they are named after (`DispatchProofs`: `PluginDispatch`) |
| `HappeningInvariant`, `HappeningBusProofs` | the inductive invariant of `HappeningBus`, and the proofs about it |
| `IdentityProofs` | proofs about `SubjectRegistry` and `RelationGraph` |
| `CustodyRules`, `CustodyProofs` | proofs about `CustodyLedger`, the second extending the first |

How state and actions correspond to code:

- **HappeningBus.** `emitter[e]` is where a task stands in `emit_durable[_batch]`:
  minted, persisted, broadcasting. `emit_lock` is held from `MintDurable` to the last
  `Broadcast` or to `PersistFails`. `MintTransient` and `SendTransient` are the legacy
  `emit`, which takes no lock and writes no row. `trim_happenings_log` deletes rows by
  age and by capacity, sparing sticky kinds; time is a cut-off between two rows, since
  `at_ms` grows with seq. `BusRestart` seeds the counter from the log. A happening
  carries the boot that minted it and the path it was emitted by, which are not in the
  code, so that two happenings with one seq can be told apart and the promises of the
  durable path stated; any kind may go by either path. The ghost `reseeded` says that a
  boot has set the counter at or below a row the janitor deleted.
- **HappeningSubscription.** `sub[s]` follows `run_subscription`; `client[s]` keeps its
  cursor over connections and restarts. `tx_env` is everything broadcast since boot; a
  receiver more than `ChanCap` behind gets `Lagged`. Keepalive frames and interest
  counters are left out: they change nothing the client's cursor depends on.
- **SubjectRegistry.** A subject's addressing list is the rows of `records` with its id;
  `copy` numbers repeated entries. Ids are numbers never used before, for v4 UUIDs.
  The claim log is written and never read, and left out.
- **RelationGraph.** Each index is the set of keys a query through it finds.
  `Redistribute` is the loop that `rewrite_subject_to` and `split_relations` share; the
  order of the hash map decides which marker survives when records meet.
- **IdentityWiring.** `todo[t]` is what a handler has still to do: its transactions, its
  graph cascade, its conflict scan. The in-memory step sets it; each element is one
  step; `StoreFailure` ends the handler at an await; `Restart` drops all handlers and
  reloads. Names beginning `d_` are tables. Cardinality warnings and admin-log rows
  are reports that no handler reads back.
- **CustodyLedger.** `pc[t]` is the await a verb or report stands at: the warden call
  under the entry's lock, the row, the snapshot, the mirror, the happening; `op`, `on`,
  `img` and `num` are its verb, its handle, the record it copied and its report. With
  `Wire`, reports run inside the reader loop, which delivers replies too, so a reply
  waits for the reports read before it. A warden may answer a release with an error,
  whether it holds the custody or not. `rehydrate_from` is a death anywhere and the next
  boot; the warden keeps any part of what it held. The ghost `cut` has the custodies whose
  release was answered but not yet written when the steward died.
- **CustodyView.** Per handle, the stage of its record (absent, reported, taken, gone)
  and the last report shown. `Shown` in `CustodyLedger` is the refinement mapping: a
  custody is gone when neither mirror nor table has it and the warden has let it go.
  One `Boot` may move any number of records, forward only.
- **PluginDispatch.** A token is one frame exchange: `pc[n]` is where the caller in the
  steward stands, `host[n]` where the frame and the handler it starts are, `mail[n]`
  what its oneshot holds. `pending` is the map of the wire client from correlation id
  to token; a framework call always registers under 0. A plugin's dispatch to another
  shelf keeps the reader of its own connection busy, as in the code. Frames under way
  are read in any order, since tasks race to write them.
- **PromptLedger.** An issue is one request frame, an act one consumer request.
  `complete_with_outcome` and `issue_with_waiter` take two locks one after the other
  and are two steps each; row writes are spawned and land in any order (`jobs`).
  `closed` is a ghost: how the entry of an issue was closed.
- **Appointments.** `mono` is the clock of tokio's Instants, `mono + skew` the wall
  clock. The loop takes a snapshot (`due`) and works through it with the ledger
  unlocked: dispatch, then `mark_fired`, then the row. `fired` and `missed` are ghosts,
  per schedule call.
- **Watches.** One evaluation up to its dispatch is a step, the end of the dispatch
  another; `schedule` writes the ledger and then clears the evaluator state in two.
  `clock` counts Instants, for cooldowns and the throttle; `clock + offset` is the wall
  clock, for durations, which `StepWall` may set at any time, trusted or not.
  `since` and `prior` are ghosts: since when, on both clocks, a watch has matched at every
  evaluation, and when the happenings behind its last two dispatches were taken up.

Operators commented *Mutant* are deliberate errors; no specification uses them. Each
stands before the definition it spoils and shows that the property named with it in
`PROJECT.json` notices.

## 3. Runs that pass

| Run | Question | Bounds |
|---|---|---|
| `happenings_replay` | Do seqs stay unique, broadcasts ordered and durable, and does a reconnecting client miss only what the janitor deleted? | 2 durable emitters and a legacy one, batches of 2, 3 happenings over all boots (at most 1 legacy), 2 boots, a sticky kind, log of 2 rows, channel of 2 |
| `happenings_live` | Does what waits on a live, coalescing connection arrive, itself or in a later frame of its key, and does the client never go back to an older durable happening of a key, when the legacy emit sends in the same key? | fair; 1 emitter of each path, 4 happenings (1 legacy, 1 of a kind without a key), 2 keys, channel of 2 |
| `identity` | Do index, records, aliases, types and claimants of the registry stay right in any sequence of calls, and indices, claims and merges of the graph? | registry: 2 plugins, 3 addressings, 2 types, 4 ids, an addressing named once per announcement; graph: 3 subjects, 2 claimants, 2 reasons, 3 relations with 4 claims and markers, and their successors |
| `custody_wire` | Do ledger, tables and happenings agree, with failing transactions and a restart, and does the ledger implement `CustodyView`? | 2 handles, 2 verbs, 1 reader loop, 2 reports, 2 boots |
| `wiring_serial` | With one handler at a time, do the tables follow registry, graph and conflict index, do retired ids stay retired, and have edges live ends? | 2 plugins, 3 addressings, 3 ids; either 4 calls of the subject handlers with a restart, or 5 calls of announce, retract and the relation handlers on two subjects |
| `wiring_race` | What survives two concurrent handlers, failures and a restart? | 2 tasks, 2 addressings, 3 ids, 4 calls, 2 boots |
| `waiting` | Do calls into plugins, prompts, appointments and watches end, and end right? | fair; see below |

`waiting` runs its four parts one by one (`focus`): they share no state, and one
instance holds them all. The parts' bounds, and what `Small…` in `MCWaiting` leaves
out of their combinations:

- calls: two plugins and 3 exchanges, unloads included, with at most one push and at
  most one plugin that dies or is removed; on one connection with server, client and
  framework calls, where at most two meet at the correlation id 0, or on a chain in which
  one plugin dispatches to the other; and 5 exchanges on a chain that stays up (a request,
  its dispatch, a push, two more requests), enough to fill the handoff queue of one;
- prompts: one prompt, 2 issues, 2 consumer acts and a boot, 3 of these in one
  behaviour;
- appointments: two keys with a ledger of one, a one-shot and a daily recurrence without
  `max_fires` and a periodic one with it, one miss policy each, 2 calls, 3 ticks, and at most three of calls,
  clock adjustments, losses of trust, boots and failing writes;
- watches: two keys with a ledger of one, an edge-triggered watch with a duration and
  level-triggered ones with a cooldown, 4 ticks, one setting of the wall clock forward or
  back, and five units of happenings, doubts, settings and calls, a call counting as two.

The bounds hold the smallest instance in which the interesting cases happen: a log
that overflows under a cursor, a channel that overflows, a merge of a merge (4 ids),
three nodes so that two edges collapse onto one, two handles so that one custody's
tasks run beside another's, a second request under a prompt or a watch that is still
being worked on. All runs switch deadlock checking off, because the bounds
on seqs, ids, calls and boots make every behaviour stop. `custody_wire` tells states
after a failed transaction apart with the ghost `failed`: `NoZombie` and
`DiskNotAhead` speak of what happens before one, the other properties of both. With two
reports one may be in flight at a release while another was written before it.

**Fairness.** In `happenings_live`: weak fairness of an emitter that has minted, and of
a connection's own steps, since tokio polls every woken task and its timers fire.
Nothing makes a client connect, a happening occur, the janitor run or the steward
stop. In `waiting`: weak fairness of the tasks on either side of a connection
(handlers of plugins return, or their process dies), of the prompts' tasks and timers,
of the appointments' loop, calls and boot, of time, and of a distrusted clock becoming
trusted again, as time synchronisation makes it. Nothing makes anybody call, answer,
cancel, schedule, die or restart.

## 4. Disagreements between the code and its texts

Five runs check one sentence of the repository each, quoted in `PROJECT.json`, and TLC
finds it violated by what the code does.

| Run | The code |
|---|---|
| `happenings_seq_reuse` | starts at seq 1 again when the log was emptied before a restart |
| `custody_late_report` | inserts the record again when an in-process warden's report ends after the release |
| `wiring_merge_edges` | rewrites the edges of merged subjects in memory only |
| `dispatch_cycle` | awaits a plugin's dispatch in the reader loop that must read the replies of that plugin, without a deadline, so that two plugins that dispatch to each other wait for ever |
| `appointment_count` | schedules every pending appointment anew after a clock adjustment and forgets how often it has fired |

They are also why what passes is narrowed: `SeqNeverReused` compares boots only until
one reseeds below a deleted row, a warden on the wire, no merge or split of
subjects that have edges where `EdgesDurable` is checked, one handler at a time where
tables are compared with memory, dispatches between plugins without a cycle,
`FiresBounded` before the first clock adjustment. The other narrowings, each for a
behaviour of the code that the properties as stated exclude:

- The properties of the log and of cursors are about durable happenings, and
  `OnlyTrimmedMissed` and `DeliveredInOrder` about clients that got no other: the legacy
  `emit` mints without lock and row (`happenings.rs:3208`), so that its frame may move a
  client's cursor past a durable seq that is not yet written, or leave it behind one
  already delivered, and a reconnect then misses or repeats a row. In a coalescing
  connection a bucket that holds a legacy happening may name a seq that is not its
  payload's, and frames of a key may come out of seq order; `CoalesceCovers` and
  `PerKeyInOrder` say what is left.
- Non-coalescing clients in `DeliveredInOrder`: a bucket is flushed under a smaller
  seq after a larger one was written (`coalescer.rs:198`).
- `OnlyTrimmedMissed` allows a loss of trimmed rows without a word to the client: the
  janitor may run between the window check and the replay query
  (`server.rs:28564`), and an old sticky row hides the gap above it from the check
  (`server.rs:28515`).
- `MaxCopies = 1`: an announcement that names an addressing twice leaves a record that
  no retract can reach (`subjects.rs:1372`).
- One reader loop in `custody_wire`: two reports of an in-process warden may reach the
  mirror in either order (`custody.rs:398`). `MemoryNotAhead` does not compare the
  state kind: a report that read it before a failure was marked writes it over the
  mark, on disk only (`custody.rs:367`).
- `NoZombie` excepts a steward that dies after the warden has released a custody and
  before `delete_custody` commits (`router.rs:1773`): the boot brings the record back,
  and a later release ends with the error of a warden that no longer knows the handle.
- One reason in `wiring_serial`: a second suppress with another reason replaces the
  author on disk and not in memory (`context.rs:3449`).
- `IdentityDurable` does not compare claimants: an announcement of somebody else's
  addressing takes over its row (`persistence.rs:5802`); nor state rows without a
  subject, which forced retracts leave (`context.rs:2065`) and boot drops.
- No restart beside relations in `wiring_serial`: the conflict index starts empty
  (`lib.rs:2595`), and a crash between the forget and its cascade leaves the edges'
  rows behind (`context.rs:884`).
- One task in `wiring_serial`: an announce transaction that commits after the forget
  revives a tombstoned id at the next boot (`context.rs:617`), a late state write
  overwrites a newer one (`context.rs:652`), and an assert that looked its ends up
  before one was forgotten leaves an edge without a subject (`context.rs:1463`; "A
  relation cannot dangle.", RELATIONS.md).
- `OwnReply` and `UnloadAlone` except calls that share a correlation id on their
  connection: framework dispatches all use 0 and one replaces the other in the pending
  map (`appointments.rs:1353`).
- `UnloadAlone` excepts a call aborted with the reader loop that made it: it has given up
  its guard and may still run in the plugin.
- `CallsEnd` excepts a jammed host. A request handler awaits its dispatch to another shelf;
  a push, which needs the plugin's write lock, waits for that handler
  (`host.rs:752`); the requests behind it fill the handoff queue; the reader then waits to
  hand over one more (`host.rs:982`) and cannot read the reply the handler awaits. A comment says
  that the capacity of the queue is there "to close the LAYER B reader-block deadlock
  class" (`host.rs:586`); it makes the jam rarer (32 requests, one in the instance). TLC
  reaches it with five exchanges.
- `OutcomeAgrees` compares ledger and reply for a prompt issued once, and lets a plugin be
  told of a timeout when its entry was answered: by an answer that comes before the waiter
  is registered (`prompts.rs:500`), or between the timer and its transition
  (`wire_client.rs:4261`). Rows are written in any order, so a boot may offer an
  answered prompt again (`prompts.rs:424`), and what it brings back has neither timer
  nor waiter (`prompts.rs:741`).
- `PendingDurable` speaks of appointments nobody else touches and that owe a dispatch:
  an in-flight fire deletes the row of an appointment issued again under its key
  (`appointments.rs:1411`), and a boot schedules a row it listed before the last
  dispatch deleted it (`appointments.rs:1461`).
- `max_fires` is absent or at least 1 in the models; a 0, which nothing rejects, is not
  tried.
- `DurationHeld` is stated over the evaluations that took place, on the wall clock: a
  happening lost to lag or to the throttle may have been the end of the match
  (`watches.rs:276`), and since the anchor is set and compared with `now_utc_ms` whether
  or not the clock is trusted (`watches.rs:988`), a wall clock put forward, for instance
  by the first time synchronisation, dispatches a watch early. Its second half says that
  nothing else does.
- `CooldownKept` measures from the moment a happening is taken up, as the code does, not
  from the dispatch. It and `DurationHeld` are about watches nobody re-issues or cancels:
  an evaluation under way dispatches, and marks fired, what is then under the key
  (`watches.rs:1049`).

## 5. Proofs

All theorems hold for every value of the constants that satisfies the named assumption
of the module (`GraphAssumption`, `BusAssumption`, `CustodyAssumption`,
`WatchAssumption`, `AppointmentAssumption`, `PromptAssumption`, `DispatchAssumption`) and the conditions
given here. Every one of these assumptions is evaluated by a run.

**`IdentityProofs`, the graph**, unconditionally:

- `GraphIndicesExact`: both indices hold exactly the relations that are not suppressed;
- `GraphClaimedOrGone`: a relation exists exactly while it is claimed;
- `GraphMergeCarriesClaims`: the merge cascade leaves no edge on the retired id and
  loses no claimant.

None of these is inductive by itself. The invariant is `GraphInv`: types, exact
indices, claimed relations, and markers only on relations that exist
(`MarkersOnRelations`). The last is needed because `assert` adds a key to the indices
without looking at a marker, and the indices are needed because `suppress` and
`Redistribute` change them by difference. Each operation is one lemma; merge and split
both rest on a lemma about `Redistribute`.

**`IdentityProofs`, the registry**:

- `RegistryAliasChainsEnd`: an alias names younger ids that exist, so chains end;
- `RegistryIndexAgrees`, `RegistryIdsAccountedFor`, `RegistryProvenanceKept`, for
  announcements that name an addressing once (`MaxCopies = 1`; without it a repeated
  addressing breaks the pairing of index and records, see section 4).

The first needs `IdRule` only: minted ids are live or retired, aliases point upwards.
The others also need `ListRule`: an addressing is listed at most once, by the live
subject the index gives, and every live subject lists one. Merge and split hand the
records of retired ids to fresh ones and share one lemma about that (`RowsMoved`).

**`HappeningBusProofs`**, for any number of emitters on either path:

- `BusBroadcastInOrder`, `BusPersistBeforeBroadcast`, `BusLockPinsCursor`, for durable
  happenings, whatever the legacy emit mints and sends between them;
- `BusSeqNeverReused`: within a boot no seq is given out twice, by either path; over the
  boots no two durable happenings share one until a boot sets the counter at or below a
  deleted row. Without that last condition the statement is false, as
  `happenings_seq_reuse` shows.

The invariant is `BusInv`, in `HappeningInvariant`. Its core is about the one task that
holds `emit_lock`: the part of its batch still to be sent lies above every durable
happening sent or logged by others, and below `next_seq`; every other durable emitter is
idle. Legacy emitters hold nothing but seqs of their own (`TransientsPending`,
`GivenOnce`). For the restart, the ghost `reseeded` is set unless the new counter is above
all deleted rows; it is above the retained ones because it is seeded from `MAX(seq)`,
whose existence is proved from a bound on the log's seqs, with the library's minimum of a
well-founded relation.

**`CustodyProofs`**, for a warden on the wire with its one reader loop and
consumers that wait for the handle (`OneReader`); any transaction may fail, the warden
may refuse any verb, and the steward may die anywhere:

- `CustodyMemoryNotAhead`: a record at rest in the mirror is in the tables;
- `CustodyNoZombie`: a release leaves nothing behind and no boot brings it back, unless a
  transaction failed or the steward died between the warden's release and
  `delete_custody` (`cut`);
- `CustodyImplementsView`: `CustodySpec` implements `CustodyView`.

The invariant is `CustodyInv`, defined in `CustodyRules`. That module shows that the
router's calls, the wardens' answers and reports, table writes and tasks that end early
keep it, and `CustodyProofs` does the same for the mirror, the happenings and the boot;
it then takes the refinement one action at a time. `Rules`
says what one task may be doing and beside whom: a take excludes a release because the
handle is not yet handed out, and a report excludes a released custody because the
reader loop had to finish it before it read the release's reply. `Mirrors` says that
mirror and tables agree except between the two halves of one write, when the table
leads; it is what lets a boot show at least what was shown before. Without `OneReader`
the claims are false, as `custody_late_report` shows.

**`PromptProofs`**, unconditionally: `PromptOutcomesAgree`. A plugin is told of an answer
or a cancel only after a consumer made it, of a supersession only after a later issue; for
a prompt issued once such an outcome is how its entry was closed, and a timeout it is told
of means that the entry is closed, if only by an answer the waiter did not see. The invariant is `PromptInv`. An outcome passes through
an act, the entry, the waiter's oneshot and the reply, under two locks one after the
other, so each place has its rule: `KeyRule` (the entry of an issue was closed the way
the ghost says), `ActRule` (an act between the locks has closed the entry), `AskRule`
(a oneshot holds what some consumer was told; a waiter that is gone was superseded) and
`SoleRule` (for a prompt issued once, the parked request, its entry and its oneshot
agree).

**`AppointmentProofs`**: `AppointmentsBounded`, no appointment is dispatched more than
`max_fires` times, and a one-shot once, while the clock is not adjusted and the steward not restarted (`Calm`;
after an adjustment it is false, as `appointment_count` shows). The invariant `ApptInv`
ties the ghost count to the ledger's: a pending entry counts all dispatches but the one
under way, and an entry in the loop's snapshot is still the ledger's, with its count, or
has been replaced by one that was never dispatched.

**`WatchProofs`**, unconditionally: `WatchesKeepCooldown` and `WatchesHoldDuration`. The
invariant `WatchInv` says that the evaluator's cooldown covers the last dispatch unless
that is still under way, that the ledger's anchor is the wall-clock time at which the
match began, and
that the entries of the snapshot still being walked have the anchor of the ledger, each
key once.

**`DispatchProofs`**, for any plugins, any dispatches between them, any number of
exchanges, and with unloads, deaths and calls that share a correlation id:

- `DispatchOwnReply`: a caller whose correlation id nobody shares gets the reply to its own
  request, and hears of a broken connection only when it is broken;
- `DispatchUnloadAlone`: no request runs in a plugin beside its unload, with the two
  exceptions of section 4.

The invariant is `DispatchInv`. `Indexed` says that the pending map holds only calls on
that connection, under their correlation id and without an answer yet; `Exchange` follows
one exchange through its oneshot, its frame and its end; `Guarded` and `Apart` say who may
be inside an entry's guard at once. `Counters` is needed because the correlation ids of an
instance are finite: an exchange takes one at most.

**Only model-checked.** Liveness (`LiveDelivery`, `CallsEnd`, `RequestsAnswered`,
`DueFires`) is outside the prover's reach. Beyond
that: `HappeningSubscription` (`OnlyTrimmedMissed`, `DeliveredInOrder`,
`CurrentSeqPins`, `CoalesceCovers`, `PerKeyInOrder`), the properties of
`IdentityWiring`, `PendingDurable`, and of `CustodyLedger`
`DiskNotAhead`, `HappeningsMatchLedger` and `ReleasedIsGone`; for each the inductive
invariant is still to be found.

## 6. Not modelled, and the plan

Not modelled: transports, parsers, cryptography, host and network I/O, file formats,
generated SDKs and the acceptance harness; they hold no state that the properties
above depend on. Left out of what is modelled: `end_time_ms`, quotas per creator and
the real-time-clock wake of appointments; composite conditions of watches beyond
`Not`; the in-flight cap of the host loop and the capacity of outbound channels, which
small instances do not reach; the teardown after a protocol violation; the warden and
combined host loops, which repeat the respondent's; the widget that shows a prompt.

Next, in this order:

1. `walk` and `forward`/`inverse` queries against a reachability definition; the
   projections over them.
2. Plans over appointments; an abstract life cycle that prompts, appointments and
   watches implement.
3. Admission and reload over the router, and a composition with `CustodyLedger`.
4. Factory, reconciliation, groups, queue, interface selection, grammar migration.
5. Proofs of what is only model-checked.
