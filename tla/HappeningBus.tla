---------------------------- MODULE HappeningBus ----------------------------
(***************************************************************************)
(* The steward's happenings bus (crates/evo/src/happenings.rs), its        *)
(* durable happenings_log (persistence.rs) and the retention janitor.      *)
(*                                                                         *)
(* An emitter is one task calling emit_durable, emit_durable_batch or the  *)
(* legacy emit.  Every .await of those functions is a step boundary: the   *)
(* seq is minted, the rows are committed, the envelopes are broadcast.  A  *)
(* crash may fall between any two steps; what survives it is the log.      *)
(*                                                                         *)
(* A happening is its seq, its kind, the boot that minted it and the path  *)
(* it was emitted by; boot and path are not in the code, they tell two     *)
(* happenings with the same seq apart and say which promise covers them.   *)
(* Any kind may go by either path: AudioPlaybackEnded goes by both.        *)
(***************************************************************************)
EXTENDS Integers, Sequences, FiniteSets

CONSTANTS
    Emitters,    \* tasks that emit durably
    Transients,  \* tasks that use the legacy, non-durable emit
    Kinds,       \* happening kinds
    Sticky,      \* STICKY_HAPPENING_KINDS
    LogCap,      \* retention_capacity, in rows
    Trimming,    \* does the janitor run
    MaxBatch,    \* bound: largest batch of emit_durable_batch
    MaxSeq,      \* bound: seqs minted
    MaxBoots     \* bound: steward starts

ASSUME BusAssumption ==
    /\ LogCap \in Nat \ {0}
    /\ MaxBatch \in Nat \ {0}
    /\ MaxSeq \in Nat
    /\ MaxBoots \in Nat
    /\ Sticky \subseteq Kinds
    /\ Trimming \in BOOLEAN
    /\ Emitters \cap Transients = {}

VARIABLES
    next_seq,    \* HappeningBus::next_seq
    emit_lock,   \* the holder of HappeningBus::emit_lock, or a value that is no task
    emitter,     \* per task: where it is, and the envelopes it still has to send
    tx_env,      \* every envelope broadcast since boot, in order
    log,         \* rows of happenings_log
    boot,        \* how often the steward has started
    trimmed,     \* ghost: rows the janitor deleted
    past,        \* ghost: envelopes broadcast by earlier boots
    reseeded     \* ghost: a boot has set the counter at or below a row the janitor deleted

busVars == <<next_seq, emit_lock, emitter, tx_env, log, boot, trimmed, past, reseeded>>

Tasks == Emitters \cup Transients
Free == [holder |-> "none"]
Held(e) == [holder |-> "task", task |-> e]
Envelope == [seq : Nat \ {0}, kind : Kinds, boot : Nat, durable : BOOLEAN]
Idle == [at |-> "idle", batch |-> <<>>]

SeqsOf(rows) == {r.seq : r \in rows}
\* SELECT MAX(seq) and SELECT MIN(seq), 0 on an empty table.
load_max_happening_seq(rows) ==
    IF rows = {} THEN 0
    ELSE CHOOSE m \in SeqsOf(rows) : \A r \in rows : r.seq <= m
load_oldest_happening_seq(rows) ==
    IF rows = {} THEN 0
    ELSE CHOOSE m \in SeqsOf(rows) : \A r \in rows : m <= r.seq

-----------------------------------------------------------------------------
BusInit ==
    /\ next_seq = 1
    /\ emit_lock = Free
    /\ emitter = [e \in Tasks |-> Idle]
    /\ tx_env = <<>>
    /\ log = {}
    /\ boot = 1
    /\ trimmed = {}
    /\ past = {}
    /\ reseeded = FALSE

\* Mutant: mints without taking emit_lock.
MintUnlocked(e) ==
    /\ emitter[e].at = "idle"
    /\ \E n \in 1..MaxBatch : \E kind \in [1..n -> Kinds] :
         /\ next_seq + n - 1 <= MaxSeq
         /\ emitter' = [emitter EXCEPT ![e] =
              [at |-> "minted",
               batch |-> [i \in 1..n |-> [seq |-> next_seq + i - 1,
                                         kind |-> kind[i], boot |-> boot, durable |-> TRUE]]]]
         /\ next_seq' = next_seq + n
    /\ emit_lock' = Held(e)
    /\ UNCHANGED <<tx_env, log, boot, trimmed, past, reseeded>>

\* emit_lock.lock().await, then next_seq.fetch_add(n) in the same poll.
MintDurable(e) ==
    /\ emitter[e].at = "idle"
    /\ emit_lock = Free
    /\ \E n \in 1..MaxBatch : \E kind \in [1..n -> Kinds] :
         /\ next_seq + n - 1 <= MaxSeq
         /\ emitter' = [emitter EXCEPT ![e] =
              [at |-> "minted",
               batch |-> [i \in 1..n |-> [seq |-> next_seq + i - 1,
                                         kind |-> kind[i], boot |-> boot, durable |-> TRUE]]]]
         /\ next_seq' = next_seq + n
    /\ emit_lock' = Held(e)
    /\ UNCHANGED <<tx_env, log, boot, trimmed, past, reseeded>>

\* Mutant: drops the guard when the rows are committed, before the broadcast.
PersistUnlocks(e) ==
    /\ emitter[e].at = "minted"
    /\ log' = log \cup {emitter[e].batch[i] : i \in DOMAIN emitter[e].batch}
    /\ emitter' = [emitter EXCEPT ![e].at = "persisted"]
    /\ emit_lock' = Free
    /\ UNCHANGED <<next_seq, tx_env, boot, trimmed, past, reseeded>>

\* record_happening / record_happenings_batch commits all rows in one transaction.
Persist(e) ==
    /\ emitter[e].at = "minted"
    /\ log' = log \cup {emitter[e].batch[i] : i \in DOMAIN emitter[e].batch}
    /\ emitter' = [emitter EXCEPT ![e].at = "persisted"]
    /\ UNCHANGED <<next_seq, emit_lock, tx_env, boot, trimmed, past, reseeded>>

\* Mutant: broadcasts although the persist failed.
PersistFailureIgnored(e) ==
    /\ emitter[e].at = "minted"
    /\ emitter' = [emitter EXCEPT ![e].at = "persisted"]
    /\ UNCHANGED <<next_seq, emit_lock, tx_env, log, boot, trimmed, past, reseeded>>

\* The persist fails: nothing is broadcast, the guard drops, the seqs are spent.
PersistFails(e) ==
    /\ emitter[e].at = "minted"
    /\ emitter' = [emitter EXCEPT ![e] = Idle]
    /\ emit_lock' = Free
    /\ UNCHANGED <<next_seq, tx_env, log, boot, trimmed, past, reseeded>>

\* tx_env.send of the next envelope; the guard drops after the last one.
Broadcast(e) ==
    /\ emitter[e].at = "persisted"
    /\ tx_env' = Append(tx_env, Head(emitter[e].batch))
    /\ IF Len(emitter[e].batch) = 1
       THEN emitter' = [emitter EXCEPT ![e] = Idle] /\ emit_lock' = Free
       ELSE emitter' = [emitter EXCEPT ![e].batch = Tail(@)] /\ UNCHANGED emit_lock
    /\ UNCHANGED <<next_seq, log, boot, trimmed, past, reseeded>>

\* The legacy emit: no lock, no row; the mint and the send are two steps.
MintTransient(e) ==
    /\ emitter[e].at = "idle"
    /\ next_seq <= MaxSeq
    /\ \E k \in Kinds :
         emitter' = [emitter EXCEPT ![e] =
              [at |-> "transient",
               batch |-> <<[seq |-> next_seq, kind |-> k, boot |-> boot, durable |-> FALSE]>>]]
    /\ next_seq' = next_seq + 1
    /\ UNCHANGED <<emit_lock, tx_env, log, boot, trimmed, past, reseeded>>

SendTransient(e) ==
    /\ emitter[e].at = "transient"
    /\ tx_env' = Append(tx_env, Head(emitter[e].batch))
    /\ emitter' = [emitter EXCEPT ![e] = Idle]
    /\ UNCHANGED <<next_seq, emit_lock, log, boot, trimmed, past, reseeded>>

\* One janitor pass.  at_ms grows with seq, so the wall-clock cut-off falls
\* before some row: everything below it has aged out.
trim_happenings_log(cutoff) ==
    LET max == load_max_happening_seq(log)
        gone == {r \in log : /\ r.seq < cutoff \/ r.seq <= max - LogCap
                             /\ r.kind \notin Sticky}
    IN  /\ Trimming
        /\ gone # {}
        /\ log' = log \ gone
        /\ trimmed' = trimmed \cup gone
        /\ UNCHANGED <<next_seq, emit_lock, emitter, tx_env, boot, past, reseeded>>

JanitorPass ==
    \E cutoff \in 1..(load_max_happening_seq(log) + 1) :
        trim_happenings_log(cutoff)

\* Mutant: seeds next_seq from the other end of the log.
BusRestartFromOldest ==
    /\ boot < MaxBoots
    /\ boot' = boot + 1
    /\ next_seq' = load_oldest_happening_seq(log) + 1
    /\ emit_lock' = Free
    /\ emitter' = [e \in Tasks |-> Idle]
    /\ past' = past \cup {tx_env[i] : i \in DOMAIN tx_env}
    /\ tx_env' = <<>>
    /\ reseeded' = (reseeded \/ \E r \in trimmed : next_seq' <= r.seq)
    /\ UNCHANGED <<log, trimmed>>

\* The steward stops anywhere and boots again: with_persistence seeds next_seq.
BusRestart ==
    /\ boot < MaxBoots
    /\ boot' = boot + 1
    /\ next_seq' = load_max_happening_seq(log) + 1
    /\ emit_lock' = Free
    /\ emitter' = [e \in Tasks |-> Idle]
    /\ past' = past \cup {tx_env[i] : i \in DOMAIN tx_env}
    /\ tx_env' = <<>>
    /\ reseeded' = (reseeded \/ \E r \in trimmed : next_seq' <= r.seq)
    /\ UNCHANGED <<log, trimmed>>

BusStep ==
    \/ \E e \in Emitters : MintDurable(e) \/ Persist(e) \/ PersistFails(e) \/ Broadcast(e)
    \/ \E e \in Transients : MintTransient(e) \/ SendTransient(e)
    \/ JanitorPass

BusNext == BusStep \/ BusRestart

BusSpec == BusInit /\ [][BusNext]_busVars

-----------------------------------------------------------------------------
\* Every happening anyone has been able to observe.
Logged == log \cup trimmed
Observed == Logged \cup past \cup {tx_env[i] : i \in DOMAIN tx_env}

BusTypeOK ==
    /\ next_seq \in Nat \ {0}
    /\ emit_lock \in {Free} \cup {Held(e) : e \in Emitters}
    /\ emitter \in [Tasks -> [at : {"idle", "minted", "persisted", "transient"},
                              batch : Seq(Envelope)]]
    /\ tx_env \in Seq(Envelope)
    /\ log \subseteq Envelope
    /\ trimmed \subseteq Envelope
    /\ past \subseteq Envelope
    /\ boot \in Nat \ {0}
    /\ reseeded \in BOOLEAN

\* A seq names one happening.  Within a boot no seq is given out twice, by either path.
\* Over the boots no two durable happenings share one while every boot has set the
\* counter above the rows the janitor deleted (emit_durable, with_persistence).
SeqNeverReused ==
    \A r, q \in Observed :
        r.seq = q.seq /\ (r.boot = q.boot \/ (~reseeded /\ r.durable /\ q.durable)) => r = q

\* The same without the proviso: the seq of a durable happening is never used again for
\* another one (the counter's with_persistence and the janitor's cut-off).
SeqDurable ==
    \A r, q \in Observed : r.seq = q.seq /\ r.durable /\ q.durable => r = q

\* Broadcast order is seq order among the durable happenings of a boot, whatever the
\* legacy emit sends between them (the reason emit_lock is held across the persist).
BroadcastInOrder ==
    \A i, j \in DOMAIN tx_env :
        i < j /\ tx_env[i].durable /\ tx_env[j].durable => tx_env[i].seq < tx_env[j].seq

\* A durable happening seen on the channel has its row on disk, or had it until the janitor.
PersistBeforeBroadcast ==
    \A i \in DOMAIN tx_env : tx_env[i].durable => tx_env[i] \in Logged

\* Whoever takes emit_lock next (an emitter or subscribe_with_current_seq) finds
\* no durable happening below next_seq that is still to be broadcast.
LockPinsCursor ==
    emit_lock = Free =>
        \A r \in log : r.boot = boot => \E i \in DOMAIN tx_env : tx_env[i] = r
=============================================================================
