------------------------------ MODULE Coalescer ------------------------------
(***************************************************************************)
(* The per-subscriber coalescer (crates/evo/src/coalescer.rs) as operators *)
(* on its bucket list.                                                     *)
(*                                                                         *)
(* The buckets are kept in the order they were opened.  All windows of one *)
(* coalescer have the same length, so this is the order in which they      *)
(* expire: the expired buckets are always a prefix.  A happening's kind    *)
(* stands for its coalesce key; kinds outside Labelled lack a requested    *)
(* label.                                                                  *)
(***************************************************************************)
EXTENDS Integers, Sequences, Functions

CONSTANTS
    Labelled,   \* kinds that carry every requested label
    Latest      \* selection: TRUE is Latest, FALSE is First

\* build_key: a happening that misses a requested label has no key.
HasKey(env) == env.kind \in Labelled

\* A frame carries a seq and the payload that survived under it.
AsFrame(env) == [seq |-> env.seq, payload |-> env]

BucketIndex(buckets, kind) == {i \in DOMAIN buckets : buckets[i].payload.kind = kind}

\* Mutant: keeps the seq of the happening that opened the bucket.
ObserveKeepsSeq(buckets, env) ==
    IF BucketIndex(buckets, env.kind) = {}
    THEN Append(buckets, AsFrame(env))
    ELSE [i \in DOMAIN buckets |->
            IF buckets[i].payload.kind # env.kind THEN buckets[i]
            ELSE [buckets[i] EXCEPT !.payload = IF Latest THEN env ELSE @]]

\* Coalescer::observe, for a happening that has a key.
Observe(buckets, env) ==
    IF BucketIndex(buckets, env.kind) = {}
    THEN Append(buckets, AsFrame(env))
    ELSE [i \in DOMAIN buckets |->
            IF buckets[i].payload.kind # env.kind THEN buckets[i]
            ELSE [seq |-> IF env.seq > buckets[i].seq THEN env.seq ELSE buckets[i].seq,
                  payload |-> IF Latest THEN env ELSE buckets[i].payload]]

\* Coalescer::flush_expired when the first n windows have elapsed: the frames in
\* any order, since the buckets live in a hash map.
FlushOrders(buckets, n) == Bijection(1..n, {buckets[i] : i \in 1..n})
\* Mutant: flushed buckets stay.
UnexpiredKeepsAll(buckets, n) == buckets
Unexpired(buckets, n) == SubSeq(buckets, n + 1, Len(buckets))
=============================================================================
