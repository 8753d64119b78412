------------------------- MODULE HappeningBusProofs -------------------------
(***************************************************************************)
(* Proofs about HappeningBus, for any number of emitters, kinds, seqs and  *)
(* boots, any retention capacity and any batch size, with tasks that use   *)
(* the legacy emit beside those that emit durably.                         *)
(***************************************************************************)
EXTENDS HappeningInvariant, WellFoundedInduction, TLAPS

\* The elements of a sequence over S, by position.
LEMMA SeqElements ==
    ASSUME NEW S, NEW s \in Seq(S)
    PROVE  \A i \in DOMAIN s : s[i] \in S /\ i \in 1..Len(s)
<1>1. DOMAIN s = 1..Len(s) /\ Len(s) \in Nat
    OBVIOUS
<1>2. \A i \in 1..Len(s) : s[i] \in S
    OBVIOUS
<1> QED BY <1>1, <1>2

\* What the type invariant says of the envelopes the proofs compare.
LEMMA TypeFacts ==
    ASSUME BusTypeOK
    PROVE  /\ \A k \in DOMAIN tx_env : tx_env[k] \in Envelope /\ tx_env[k].seq \in Nat
           /\ \A r \in Logged : r \in Envelope /\ r.seq \in Nat /\ r.boot \in Nat
           /\ \A e \in Tasks : /\ Batch(e) \in Seq(Envelope)
                               /\ \A i \in DOMAIN Batch(e) : /\ Batch(e)[i] \in Envelope
                                                             /\ Batch(e)[i].seq \in Nat
           /\ next_seq \in Nat \ {0} /\ boot \in Nat \ {0}
           /\ \A r : Given(r) => r \in Envelope /\ r.seq \in Nat /\ r.boot \in Nat
<1>1. \A v \in Envelope : v.seq \in Nat /\ v.boot \in Nat
    BY DEF Envelope
<1>2. \A k \in DOMAIN tx_env : tx_env[k] \in Envelope
    BY SeqElements DEF BusTypeOK
<1>3. \A r \in Logged : r \in Envelope
    BY DEF BusTypeOK, Logged
<1>4. \A e \in Tasks : Batch(e) \in Seq(Envelope)
    BY DEF BusTypeOK, Batch
<1>5. \A e \in Tasks : \A i \in DOMAIN Batch(e) : Batch(e)[i] \in Envelope
    BY <1>4, SeqElements
<1>6. \A r : Given(r) => r \in Envelope
    BY <1>2, <1>3, <1>5, Zenon DEF Given, InBatch, Observed, BusTypeOK
<1> QED BY <1>1, <1>2, <1>3, <1>4, <1>5, <1>6 DEF BusTypeOK

\* A step that gives out no seq changes nothing about those given out.
LEMMA GivenKept ==
    ASSUME BusInv, \A r : Given(r)' => Given(r),
           next_seq' \in Nat, boot' \in Nat,
           \/ boot' = boot /\ next_seq <= next_seq'
           \/ boot' = boot + 1
    PROVE  GivenBelow' /\ GivenOnce'
<1>1. \A r : Given(r) => r.boot <= boot /\ (r.boot = boot => r.seq < next_seq)
    BY Zenon DEF BusInv, GivenBelow
<1>2. GivenOnce'
    BY Zenon DEF BusInv, GivenOnce
<1>3. GivenBelow'
    <2> SUFFICES ASSUME NEW r, Given(r)
                 PROVE  r.boot <= boot' /\ (r.boot = boot' => r.seq < next_seq')
        BY DEF GivenBelow
    <2>1. r.boot <= boot /\ (r.boot = boot => r.seq < next_seq)
        BY <1>1
    <2>2. r.boot \in Nat /\ r.seq \in Nat /\ boot \in Nat /\ next_seq \in Nat
        BY TypeFacts DEF BusInv
    <2> QED BY <2>1, <2>2
<1> QED BY <1>2, <1>3

\* The lock is free exactly when every durable emitter is idle.
LEMMA FreeIdle ==
    ASSUME BusInv, emit_lock = Free
    PROVE  \A e \in Emitters : emitter[e].at = "idle"
<1>1. \A e \in Emitters : Held(e) # Free
    <2> TAKE e \in Emitters
    <2>1. Held(e).holder = "task" /\ Free.holder = "none"
        BY DEF Held, Free
    <2> QED BY <2>1
<1> QED BY <1>1 DEF BusInv, HoldersPending, Pending

\* Nobody takes emit_lock from its holder.
LEMMA HolderUnique ==
    ASSUME BusInv, NEW e \in Emitters, NEW f \in Emitters,
           emitter[e].at # "idle", emitter[f].at # "idle"
    PROVE  e = f
<1>1. emit_lock = Held(e) /\ emit_lock = Held(f)
    BY DEF BusInv, HoldersPending, Pending
<1>2. Held(e).task = e /\ Held(f).task = f
    BY DEF Held
<1> QED BY <1>1, <1>2

\* A durable emitter does nothing to the tasks that use the legacy emit.
LEMMA TransientsKept ==
    ASSUME BusInv, NEW e \in Emitters, boot' = boot,
           \A f \in Tasks \ {e} : emitter'[f] = emitter[f]
    PROVE  TransientsPending'
<1>1. \A f \in Transients : emitter'[f] = emitter[f] /\ Batch(f)' = Batch(f)
    BY BusAssumption DEF Tasks, Batch
<1> QED BY <1>1, Zenon DEF BusInv, TransientsPending

\* A step of one task that keeps or shortens its batch and puts what it drops where it
\* was seen before gives out nothing.
LEMMA GivenByTask ==
    ASSUME BusInv, NEW e \in Tasks, \A f \in Tasks \ {e} : emitter'[f] = emitter[f],
           \A i \in DOMAIN Batch(e)' : InBatch(Batch(e)'[i]),
           \A r \in Observed' : Given(r)
    PROVE  \A r : Given(r)' => Given(r)
<1> SUFFICES ASSUME NEW r, InBatch(r)'
             PROVE  InBatch(r)
    BY Zenon DEF Given
<1>1. PICK f \in Tasks : \E i \in DOMAIN Batch(f)' : Batch(f)'[i] = r
    BY Zenon DEF InBatch
<1>2. CASE f = e
    BY <1>1, <1>2, Zenon
<1>3. CASE f # e
    <2>1. Batch(f)' = Batch(f)
        BY <1>3 DEF Batch
    <2> QED BY <1>1, <2>1, Zenon DEF InBatch
<1> QED BY <1>2, <1>3

\* Seqs from next_seq on are new.
LEMMA MintGives ==
    ASSUME BusInv, NEW n \in Nat \ {0}, NEW new,
           \A i \in 1..n : new[i].seq = next_seq + i - 1 /\ new[i].boot = boot,
           next_seq' = next_seq + n, boot' = boot,
           \A r : Given(r)' => Given(r) \/ \E i \in 1..n : r = new[i]
    PROVE  GivenBelow' /\ GivenOnce'
<1>1. next_seq \in Nat /\ boot \in Nat
    BY TypeFacts DEF BusInv
<1>2. \A r : Given(r) => /\ r.boot \in Nat /\ r.seq \in Nat
                         /\ r.boot <= boot /\ (r.boot = boot => r.seq < next_seq)
    BY TypeFacts DEF BusInv, GivenBelow
<1>3. \A i \in 1..n : /\ new[i].seq >= next_seq /\ new[i].seq < next_seq + n
                       /\ new[i].boot = boot
    BY <1>1
<1>4. \A i, j \in 1..n : new[i].seq = new[j].seq => i = j
    BY <1>1
<1>5. GivenBelow'
    BY <1>1, <1>2, <1>3 DEF GivenBelow
<1>6. GivenOnce'
    <2> SUFFICES ASSUME NEW r, NEW q, Given(r)', Given(q)', r.seq = q.seq, r.boot = q.boot
                 PROVE  r = q
        BY Zenon DEF GivenOnce
    <2>1. CASE Given(r) /\ Given(q)
        BY <2>1, Zenon DEF BusInv, GivenOnce
    <2>2. \A x, i : Given(x) /\ i \in 1..n => ~(x.seq = new[i].seq /\ x.boot = new[i].boot)
        BY <1>1, <1>2, <1>3
    <2>3. CASE ~Given(r) /\ ~Given(q)
        <3>1. PICK i \in 1..n : r = new[i]
            BY <2>3, Zenon
        <3>2. PICK j \in 1..n : q = new[j]
            BY <2>3, Zenon
        <3> QED BY <3>1, <3>2, <1>4, Zenon
    <2>4. CASE Given(r) /\ ~Given(q)
        <3>1. PICK i \in 1..n : q = new[i]
            BY <2>4, Zenon
        <3> QED BY <3>1, <2>2, <2>4, Zenon
    <2>5. CASE ~Given(r) /\ Given(q)
        <3>1. PICK i \in 1..n : r = new[i]
            BY <2>5, Zenon
        <3> QED BY <3>1, <2>2, <2>5, Zenon
    <2> QED BY <2>1, <2>3, <2>4, <2>5
<1> QED BY <1>5, <1>6

\* Minting under emit_lock keeps the invariant: the new seqs are above all others.
LEMMA MintKeeps ==
    ASSUME BusInv, NEW e \in Emitters, MintDurable(e)
    PROVE  BusInv'
<1>1. PICK n \in 1..MaxBatch : \E kind \in [1..n -> Kinds] :
         /\ next_seq + n - 1 <= MaxSeq
         /\ emitter' = [emitter EXCEPT ![e] =
              [at |-> "minted",
               batch |-> [i \in 1..n |-> [seq |-> next_seq + i - 1,
                                         kind |-> kind[i], boot |-> boot, durable |-> TRUE]]]]
         /\ next_seq' = next_seq + n
    BY Zenon DEF MintDurable
<1>2. PICK kind \in [1..n -> Kinds] :
         /\ emitter' = [emitter EXCEPT ![e] =
              [at |-> "minted",
               batch |-> [i \in 1..n |-> [seq |-> next_seq + i - 1,
                                         kind |-> kind[i], boot |-> boot, durable |-> TRUE]]]]
         /\ next_seq' = next_seq + n
    BY <1>1, Zenon
<1> DEFINE new == [i \in 1..n |-> [seq |-> next_seq + i - 1, kind |-> kind[i],
                                   boot |-> boot, durable |-> TRUE]]
<1>3. /\ emit_lock = Free /\ emit_lock' = Held(e)
      /\ UNCHANGED <<tx_env, log, boot, trimmed, past, reseeded>>
    BY DEF MintDurable
<1>4. n \in Nat \ {0} /\ next_seq \in Nat \ {0} /\ boot \in Nat \ {0}
    BY BusAssumption DEF BusInv, BusTypeOK
<1>5. /\ new \in Seq(Envelope) /\ Len(new) = n /\ DOMAIN new = 1..n
      /\ \A i \in 1..n : /\ new[i].seq = next_seq + i - 1
                          /\ new[i].boot = boot /\ new[i].durable
    <2>1. \A i \in 1..n : new[i] \in Envelope
        BY <1>4 DEF Envelope
    <2> QED BY <2>1, <1>4
<1>6. /\ emitter'[e] = [at |-> "minted", batch |-> new]
      /\ \A f \in Tasks \ {e} : emitter'[f] = emitter[f]
      /\ emitter' \in [Tasks -> [at : {"idle", "minted", "persisted", "transient"},
                                 batch : Seq(Envelope)]]
    <2>1. e \in Tasks
        BY DEF Tasks
    <2> HIDE DEF new
    <2> QED BY <1>2, <1>5, <2>1 DEF BusInv, BusTypeOK, new
<1>7. Logged' = Logged
    BY <1>3 DEF Logged
<1> HIDE DEF new
<1>8. BusTypeOK'
    BY <1>2, <1>3, <1>4, <1>6 DEF BusInv, BusTypeOK
<1>9. LockHeld'
    BY <1>3, <1>6 DEF LockHeld
<1>10. \A k \in DOMAIN tx_env : tx_env[k].seq < next_seq
    BY Zenon DEF BusInv, GivenBelow, Given, Observed, SentThisBoot
<1>11. HoldersPending'
    <2> SUFFICES ASSUME NEW f \in Emitters
                 PROVE  /\ emitter'[f].at \in {"idle", "minted", "persisted"}
                        /\ emitter'[f].at # "idle" => Pending(f)'
        BY DEF HoldersPending
    <2>1. CASE f # e
        <3>1. emitter'[f] = emitter[f]
            BY <2>1, <1>6 DEF Tasks
        <3> QED BY <3>1, <1>3, FreeIdle
    <2>2. CASE f = e
        <3>1. \A k \in DOMAIN tx_env : tx_env[k].seq \in Nat
            BY TypeFacts DEF BusInv
        <3>2. \A r \in Logged : r.seq \in Nat /\ (Current(r) => r.seq < next_seq)
            BY TypeFacts DEF BusInv, LoggedBelow
        <3>3. Batch(f)' = new /\ emitter'[f].at = "minted"
            BY <1>6, <2>2 DEF Batch
        <3>4. Pending(f)'
            BY <3>1, <3>2, <3>3, <1>2, <1>3, <1>4, <1>5, <1>7, <1>10, <2>2 DEF Pending, Current
        <3> QED BY <3>3, <3>4
    <2> QED BY <2>1, <2>2
<1>12. LoggedBelow'
    BY <1>2, <1>3, <1>4, <1>7, TypeFacts DEF BusInv, LoggedBelow, Current
<1>13. NothingForgotten'
    <2> SUFFICES ASSUME NEW r \in log, r.boot = boot
                 PROVE  Sent(r)
        BY <1>3 DEF NothingForgotten, Sent
    <2> QED BY <1>3, FreeIdle DEF BusInv, NothingForgotten, InFlight
<1>14. \A r : Given(r)' => Given(r) \/ \E i \in 1..n : r = new[i]
    <2> SUFFICES ASSUME NEW r, InBatch(r)'
                 PROVE  InBatch(r) \/ \E i \in 1..n : r = new[i]
        BY <1>3, <1>7, Zenon DEF Given, Observed
    <2>1. PICK f \in Tasks : \E i \in DOMAIN Batch(f)' : Batch(f)'[i] = r
        BY Zenon DEF InBatch
    <2>2. CASE f = e
        <3>1. Batch(f)' = new
            BY <1>6, <2>2 DEF Batch
        <3> QED BY <2>1, <3>1, <1>5
    <2>3. CASE f # e
        <3>1. Batch(f)' = Batch(f)
            BY <1>6, <2>3 DEF Batch
        <3> QED BY <2>1, <3>1, Zenon DEF InBatch
    <2> QED BY <2>2, <2>3
<1>15. GivenBelow' /\ GivenOnce'
    <2>1. \A i \in 1..n : new[i].seq = next_seq + i - 1 /\ new[i].boot = boot
        BY <1>5
    <2> QED BY <1>2, <1>3, <1>4, <1>14, <2>1, MintGives, Zenon
<1>16. TransientsPending'
    BY <1>3, <1>6, TransientsKept, Zenon
<1> QED
    BY <1>3, <1>7, <1>8, <1>9, <1>11, <1>12, <1>13, <1>15, <1>16
    DEF BusInv, BroadcastInOrder, PersistBeforeBroadcast, SentThisBoot, LogBounded, UniqueRows,
        PastLogged

\* Committing the minted rows keeps the invariant: they are above every logged row.
LEMMA PersistKeeps ==
    ASSUME BusInv, NEW e \in Emitters, Persist(e)
    PROVE  BusInv'
<1> DEFINE rows == {Batch(e)[i] : i \in DOMAIN Batch(e)}
<1>1. /\ emitter[e].at = "minted"
      /\ log' = log \cup rows
      /\ emitter' = [emitter EXCEPT ![e].at = "persisted"]
      /\ UNCHANGED <<next_seq, emit_lock, tx_env, boot, trimmed, past, reseeded>>
    BY DEF Persist, Batch
<1>2. e \in Tasks /\ Pending(e)
    BY <1>1 DEF BusInv, HoldersPending, Tasks
<1>3. /\ emitter'[e].at = "persisted" /\ emitter'[e].batch = Batch(e)
      /\ \A f \in Tasks \ {e} : emitter'[f] = emitter[f]
      /\ emitter' \in [Tasks -> [at : {"idle", "minted", "persisted", "transient"},
                                 batch : Seq(Envelope)]]
    BY <1>1, <1>2, Zenon DEF BusInv, BusTypeOK, Batch
<1>4. /\ \A r \in rows : /\ r \in Envelope /\ r.seq \in Nat /\ r.seq < next_seq
                         /\ r.boot = boot
                         /\ \A q \in Logged : Current(q) => q.seq < r.seq
    BY <1>1, <1>2, TypeFacts DEF BusInv, Pending
<1>5. Logged' = Logged \cup rows
    BY <1>1 DEF Logged
<1>6. \A f \in Emitters \ {e} : emitter'[f] = emitter[f] /\ emitter[f].at = "idle"
    BY <1>1, <1>3, HolderUnique DEF Tasks
<1>7. BusTypeOK'
    BY <1>1, <1>3, <1>4 DEF BusInv, BusTypeOK
<1>8. LockHeld'
    BY <1>1, <1>2, <1>3 DEF LockHeld, Pending
<1>9. HoldersPending'
    <2> SUFFICES ASSUME NEW f \in Emitters
                 PROVE  /\ emitter'[f].at \in {"idle", "minted", "persisted"}
                        /\ emitter'[f].at # "idle" => Pending(f)'
        BY DEF HoldersPending
    <2>1. CASE f # e
        BY <2>1, <1>6
    <2>2. CASE f = e
        <3>1. Batch(f)' = Batch(e) /\ emitter'[f].at = "persisted"
            BY <1>3, <2>2 DEF Batch
        <3>2. \A i \in DOMAIN Batch(e) : Batch(e)[i] \in Logged'
            BY <1>5
        <3>3. Pending(f)'
            BY <3>1, <3>2, <1>1, <1>2, <2>2 DEF Pending
        <3> QED BY <3>1, <3>3
    <2> QED BY <2>1, <2>2
<1>10. LoggedBelow'
    BY <1>1, <1>4, <1>5, TypeFacts DEF BusInv, LoggedBelow, Current
<1>11. UniqueRows'
    <2> SUFFICES ASSUME ~reseeded
                 PROVE  \A r, q \in Logged' : r.seq = q.seq => r = q
        BY <1>1 DEF UniqueRows
    <2>1. \A i, j \in DOMAIN Batch(e) : Batch(e)[i].seq = Batch(e)[j].seq => i = j
        <3> SUFFICES ASSUME NEW i \in DOMAIN Batch(e), NEW j \in DOMAIN Batch(e), i # j
                     PROVE  Batch(e)[i].seq # Batch(e)[j].seq
            OBVIOUS
        <3>1. i \in Nat /\ j \in Nat
            BY <1>2, SeqElements, TypeFacts DEF BusInv
        <3>2. Batch(e)[i].seq \in Nat /\ Batch(e)[j].seq \in Nat
            BY <1>2, TypeFacts DEF BusInv
        <3>3. i < j \/ j < i
            BY <3>1
        <3> QED BY <1>2, <3>2, <3>3 DEF Pending
    <2>2. \A r, q \in rows : r.seq = q.seq => r = q
        BY <2>1
    <2>3. \A r \in rows, q \in Logged : r.seq # q.seq
        BY <1>4, TypeFacts DEF BusInv, Current
    <2>4. \A r, q \in Logged : r.seq = q.seq => r = q
        BY DEF BusInv, UniqueRows
    <2> QED BY <1>5, <2>2, <2>3, <2>4
<1>12. GivenBelow' /\ GivenOnce' /\ TransientsPending'
    <2>1. \A i \in DOMAIN Batch(e)' : InBatch(Batch(e)'[i])
        BY <1>2, <1>3, Zenon DEF InBatch, Batch
    <2>2. \A r \in Observed' : Given(r)
        BY <1>1, <1>2, <1>5, Zenon DEF Observed, Given, InBatch
    <2>3. \A r : Given(r)' => Given(r)
        BY <1>2, <1>3, <2>1, <2>2, GivenByTask, Zenon
    <2>4. next_seq \in Nat /\ boot \in Nat /\ next_seq <= next_seq
        BY TypeFacts DEF BusInv
    <2>5. TransientsPending'
        BY <1>1, <1>3, TransientsKept, Zenon
    <2> QED BY <1>1, <2>3, <2>4, <2>5, GivenKept, Zenon
<1>13. NothingForgotten'
    <2> SUFFICES ASSUME NEW r \in log', r.boot = boot
                 PROVE  Sent(r)' \/ InFlight(r)'
        BY <1>1 DEF NothingForgotten
    <2>1. CASE r \in rows
        BY <2>1, <1>3 DEF InFlight, Batch
    <2>2. CASE r \in log
        <3>1. ~InFlight(r)
            BY <1>1, <1>6 DEF InFlight
        <3>2. Sent(r)
            BY <2>2, <3>1 DEF BusInv, NothingForgotten
        <3> QED BY <3>2, <1>1 DEF Sent
    <2> QED BY <2>1, <2>2, <1>1
<1>14. BroadcastInOrder' /\ PersistBeforeBroadcast' /\ PastLogged' /\ SentThisBoot'
    BY <1>1, <1>5 DEF BusInv, BroadcastInOrder, PersistBeforeBroadcast, SentThisBoot, PastLogged
<1>15. LogBounded'
    <2>1. PICK b \in Nat : \A r \in log : r.seq <= b
        BY DEF BusInv, LogBounded
    <2>2. next_seq \in Nat /\ \A r \in log : r.seq \in Nat
        BY TypeFacts DEF BusInv, Logged
    <2>3. \A r \in log' : r.seq <= b + next_seq
        BY <1>1, <1>4, <2>1, <2>2
    <2> QED BY <2>2, <2>3 DEF LogBounded
<1> QED
    BY <1>7, <1>8, <1>9, <1>10, <1>11, <1>12, <1>13, <1>14, <1>15 DEF BusInv

\* A failed persist spends its seqs and gives the lock back.
LEMMA PersistFailsKeeps ==
    ASSUME BusInv, NEW e \in Emitters, PersistFails(e)
    PROVE  BusInv'
<1>1. /\ emitter[e].at = "minted"
      /\ emitter' = [emitter EXCEPT ![e] = Idle]
      /\ emit_lock' = Free
      /\ UNCHANGED <<next_seq, tx_env, log, boot, trimmed, past, reseeded>>
    BY DEF PersistFails
<1>2. e \in Tasks /\ Idle \in [at : {"idle", "minted", "persisted", "transient"},
                               batch : Seq(Envelope)]
    BY DEF Tasks, Idle
<1>3. /\ emitter' \in [Tasks -> [at : {"idle", "minted", "persisted", "transient"},
                                 batch : Seq(Envelope)]]
      /\ \A f \in Emitters : emitter'[f].at = "idle"
      /\ \A f \in Emitters : emitter[f].at # "persisted"
    BY <1>1, <1>2, HolderUnique, Zenon DEF BusInv, BusTypeOK, Tasks, Idle, HoldersPending
<1>4. Logged' = Logged
    BY <1>1 DEF Logged
<1>5. NothingForgotten'
    BY <1>1, <1>3 DEF BusInv, NothingForgotten, Sent, InFlight
<1>6. /\ \A f \in Tasks \ {e} : emitter'[f] = emitter[f]
      /\ Batch(e)' = <<>>
    BY <1>1, <1>2 DEF BusInv, BusTypeOK, Batch, Idle
<1>7. GivenBelow' /\ GivenOnce' /\ TransientsPending'
    <2>1. \A i \in DOMAIN Batch(e)' : InBatch(Batch(e)'[i])
        BY <1>6
    <2>2. \A r \in Observed' : Given(r)
        BY <1>1, <1>4, Zenon DEF Observed, Given
    <2>3. \A r : Given(r)' => Given(r)
        BY <1>2, <1>6, <2>1, <2>2, GivenByTask, Zenon
    <2>4. next_seq \in Nat /\ boot \in Nat /\ next_seq <= next_seq
        BY TypeFacts DEF BusInv
    <2>5. TransientsPending'
        BY <1>1, <1>6, TransientsKept, Zenon
    <2> QED BY <1>1, <2>3, <2>4, <2>5, GivenKept, Zenon
<1> QED
    BY <1>1, <1>3, <1>4, <1>5, <1>7, Zenon
    DEF BusInv, BusTypeOK, LockHeld, HoldersPending, BroadcastInOrder, PersistBeforeBroadcast,
        LoggedBelow, Current, SentThisBoot, LogBounded, UniqueRows, PastLogged

\* What remains of a batch after its first envelope.
LEMMA TailFacts ==
    ASSUME NEW s \in Seq(Envelope), s # <<>>, Len(s) # 1
    PROVE  /\ Tail(s) \in Seq(Envelope) /\ Tail(s) # <<>>
           /\ \A i \in DOMAIN Tail(s) : /\ i \in Nat /\ i + 1 \in DOMAIN s /\ 1 < i + 1
                                        /\ Tail(s)[i] = s[i + 1]
           /\ \A i \in DOMAIN s : i # 1 => i - 1 \in DOMAIN Tail(s)
<1>1. Len(s) \in Nat /\ Len(s) > 1 /\ DOMAIN s = 1..Len(s)
    <2>1. Len(s) \in Nat /\ DOMAIN s = 1..Len(s)
        OBVIOUS
    <2>2. Len(s) # 0
        OBVIOUS
    <2> QED BY <2>1, <2>2
<1>2. /\ Tail(s) \in Seq(Envelope) /\ Len(Tail(s)) = Len(s) - 1
      /\ DOMAIN Tail(s) = 1..(Len(s) - 1)
    BY <1>1
<1>3. \A i \in 1..(Len(s) - 1) : Tail(s)[i] = s[i + 1]
    BY <1>1
<1>4. Tail(s) # <<>>
    <2>1. Len(Tail(s)) # 0
        BY <1>1, <1>2
    <2>2. Len(<<>>) = 0
        OBVIOUS
    <2> QED BY <2>1, <2>2, Zenon
<1> QED BY <1>1, <1>2, <1>3, <1>4

\* Broadcasting the next envelope keeps the channel in seq order and the rest of the
\* batch above it.
LEMMA BroadcastKeeps ==
    ASSUME BusInv, NEW e \in Emitters, Broadcast(e)
    PROVE  BusInv'
<1> DEFINE head == Batch(e)[1]
           rest == Len(Batch(e)) # 1
<1>1. /\ emitter[e].at = "persisted"
      /\ tx_env' = Append(tx_env, Head(Batch(e)))
      /\ UNCHANGED <<next_seq, log, boot, trimmed, past, reseeded>>
    BY DEF Broadcast, Batch
<1>2. e \in Tasks /\ Pending(e)
    BY <1>1 DEF BusInv, HoldersPending, Tasks
<1>3. /\ Batch(e) \in Seq(Envelope) /\ Batch(e) # <<>>
      /\ 1 \in DOMAIN Batch(e) /\ Head(Batch(e)) = head
      /\ head \in Envelope /\ head.seq \in Nat /\ head \in Logged
    <2>1. Batch(e) \in Seq(Envelope) /\ Batch(e) # <<>>
        BY <1>2, TypeFacts DEF BusInv, Pending
    <2>2. 1 \in DOMAIN Batch(e) /\ Head(Batch(e)) = head
        BY <2>1
    <2> QED BY <1>1, <1>2, <2>1, <2>2, TypeFacts DEF BusInv, Pending
<1>4. /\ DOMAIN tx_env = 1..Len(tx_env) /\ Len(tx_env) \in Nat
      /\ DOMAIN tx_env' = 1..(Len(tx_env) + 1)
      /\ tx_env'[Len(tx_env) + 1] = head
      /\ \A k \in DOMAIN tx_env : tx_env'[k] = tx_env[k]
      /\ tx_env' \in Seq(Envelope)
    <2>1. tx_env \in Seq(Envelope)
        BY DEF BusInv, BusTypeOK
    <2> HIDE DEF head
    <2> QED BY <2>1, <1>1, <1>3
<1>5. Logged' = Logged
    BY <1>1 DEF Logged
<1>6. \A f \in Emitters \ {e} : emitter[f].at = "idle"
    BY <1>1, HolderUnique
<1>7. /\ emitter' \in [Tasks -> [at : {"idle", "minted", "persisted", "transient"},
                                 batch : Seq(Envelope)]]
      /\ \A f \in Tasks \ {e} : emitter'[f] = emitter[f]
      /\ rest => /\ emitter'[e].at = "persisted" /\ emitter'[e].batch = Tail(Batch(e))
                 /\ emit_lock' = emit_lock
      /\ ~rest => emitter'[e] = Idle /\ emit_lock' = Free
    <2>1. Tail(Batch(e)) \in Seq(Envelope) /\ <<>> \in Seq(Envelope)
        BY <1>3
    <2>2. CASE rest
        <3>1. emitter' = [emitter EXCEPT ![e].batch = Tail(@)] /\ emit_lock' = emit_lock
            BY <2>2 DEF Broadcast, Batch
        <3> QED BY <1>1, <1>2, <2>1, <2>2, <3>1, Zenon DEF BusInv, BusTypeOK, Batch
    <2>3. CASE ~rest
        <3>1. emitter' = [emitter EXCEPT ![e] = Idle] /\ emit_lock' = Free
            BY <2>3 DEF Broadcast, Batch
        <3> QED BY <1>2, <2>1, <2>3, <3>1 DEF BusInv, BusTypeOK, Idle
    <2> QED BY <2>2, <2>3
<1>8. rest => /\ \A i \in DOMAIN Tail(Batch(e)) :
                    /\ i \in Nat /\ i + 1 \in DOMAIN Batch(e) /\ 1 < i + 1
                    /\ Tail(Batch(e))[i] = Batch(e)[i + 1]
              /\ \A i \in DOMAIN Batch(e) : i # 1 => i - 1 \in DOMAIN Tail(Batch(e))
              /\ Tail(Batch(e)) # <<>>
    BY <1>3, TailFacts
<1> HIDE DEF head
<1>9. BusTypeOK'
    BY <1>1, <1>2, <1>4, <1>7 DEF BusInv, BusTypeOK
<1>10. LockHeld'
    BY <1>2, <1>7 DEF LockHeld, Pending
<1>11. HoldersPending'
    <2> SUFFICES ASSUME NEW f \in Emitters
                 PROVE  /\ emitter'[f].at \in {"idle", "minted", "persisted"}
                        /\ emitter'[f].at # "idle" => Pending(f)'
        BY DEF HoldersPending
    <2>1. CASE f # e
        BY <2>1, <1>6, <1>7, Zenon DEF Tasks
    <2>2. CASE f = e /\ ~rest
        BY <2>2, <1>7 DEF Idle
    <2>3. CASE f = e /\ rest
        <3>1. Batch(f)' = Tail(Batch(e)) /\ emitter'[f].at = "persisted" /\ emit_lock' = Held(f)
            BY <2>3, <1>2, <1>7, Zenon DEF Batch, Pending
        <3>2. \A i \in DOMAIN Batch(f)' : /\ i \in Nat /\ i + 1 \in DOMAIN Batch(e) /\ 1 < i + 1
                                          /\ Batch(f)'[i] = Batch(e)[i + 1]
            BY <2>3, <3>1, <1>8
        <3>3. \A k \in DOMAIN tx_env', i \in DOMAIN Batch(f)' :
                tx_env'[k].durable => tx_env'[k].seq < Batch(f)'[i].seq
            <4> SUFFICES ASSUME NEW k \in DOMAIN tx_env', NEW i \in DOMAIN Batch(f)',
                                tx_env'[k].durable
                         PROVE  tx_env'[k].seq < Batch(e)[i + 1].seq
                BY <3>2
            <4>1. CASE k \in DOMAIN tx_env
                BY <4>1, <3>2, <1>2, <1>4 DEF Pending
            <4>2. CASE k = Len(tx_env) + 1
                BY <4>2, <3>2, <1>2, <1>3, <1>4 DEF Pending, head
            <4> QED BY <4>1, <4>2, <1>4
        <3>4. \A i, j \in DOMAIN Batch(f)' : i < j => Batch(f)'[i].seq < Batch(f)'[j].seq
            <4>1. \A i, j \in DOMAIN Batch(e) : i < j => Batch(e)[i].seq < Batch(e)[j].seq
                BY <1>2 DEF Pending
            <4> QED BY <3>2, <4>1
        <3>5. \A i \in DOMAIN Batch(f)' : /\ Batch(f)'[i].seq < next_seq'
                                          /\ Batch(f)'[i].boot = boot' /\ Batch(f)'[i].durable
                                          /\ Batch(f)'[i] \in Logged'
            BY <3>2, <1>1, <1>2, <1>5, Zenon DEF Pending
        <3>6. Batch(f)' # <<>>
            BY <2>3, <3>1, <1>8
        <3> QED BY <3>1, <3>3, <3>4, <3>5, <3>6 DEF Pending
    <2> QED BY <2>1, <2>2, <2>3
<1>12. BroadcastInOrder'
    <2> SUFFICES ASSUME NEW i \in DOMAIN tx_env', NEW j \in DOMAIN tx_env', i < j,
                        tx_env'[i].durable, tx_env'[j].durable
                 PROVE  tx_env'[i].seq < tx_env'[j].seq
        BY DEF BroadcastInOrder
    <2>1. i \in DOMAIN tx_env
        BY <1>4
    <2>2. CASE j \in DOMAIN tx_env
        BY <2>1, <2>2, <1>4 DEF BusInv, BroadcastInOrder
    <2>3. CASE j = Len(tx_env) + 1
        BY <2>1, <2>3, <1>2, <1>3, <1>4 DEF Pending, head
    <2> QED BY <2>2, <2>3, <1>4
<1>13. PersistBeforeBroadcast'
    BY <1>3, <1>4, <1>5 DEF BusInv, PersistBeforeBroadcast
<1>14. SentThisBoot'
    <2>1. head.boot = boot /\ boot' = boot
        BY <1>1, <1>2, <1>3 DEF Pending, head
    <2>2. \A k \in DOMAIN tx_env : tx_env[k].boot = boot
        BY DEF BusInv, SentThisBoot
    <2> QED BY <2>1, <2>2, <1>4 DEF SentThisBoot
<1>15. NothingForgotten'
    <2> SUFFICES ASSUME NEW r \in log, r.boot = boot
                 PROVE  Sent(r)' \/ InFlight(r)'
        BY <1>1 DEF NothingForgotten
    <2>1. CASE Sent(r)
        BY <2>1, <1>4 DEF Sent
    <2>2. CASE InFlight(r)
        <3>1. PICK i \in DOMAIN Batch(e) : Batch(e)[i] = r
            BY <2>2, <1>6 DEF InFlight
        <3>2. CASE i = 1
            BY <3>1, <3>2, <1>4 DEF Sent, head
        <3>3. CASE i # 1
            <4>1. rest /\ i \in Nat
                BY <3>3, <1>3
            <4>2. i - 1 \in DOMAIN Tail(Batch(e)) /\ Tail(Batch(e))[i - 1] = r
                BY <3>1, <3>3, <4>1, <1>8
            <4> QED BY <4>1, <4>2, <1>7, Zenon DEF InFlight, Batch
        <3> QED BY <3>2, <3>3
    <2> QED BY <2>1, <2>2 DEF BusInv, NothingForgotten
<1>16. GivenBelow' /\ GivenOnce' /\ TransientsPending'
    <2>1. \A i \in DOMAIN Batch(e)' : InBatch(Batch(e)'[i])
        <3>1. CASE rest
            <4>1. Batch(e)' = Tail(Batch(e))
                BY <3>1, <1>7 DEF Batch
            <4> QED BY <3>1, <4>1, <1>2, <1>8, Zenon DEF InBatch
        <3>2. CASE ~rest
            BY <3>2, <1>7 DEF Batch, Idle
        <3> QED BY <3>1, <3>2
    <2>2. InBatch(head)
        BY <1>2, <1>3, Zenon DEF InBatch, head
    <2>3. \A r \in Observed' : r \in Observed \/ r = head
        BY <1>1, <1>4, <1>5 DEF Observed
    <2>4. \A r : Given(r)' => Given(r)
        BY <1>2, <1>7, <2>1, <2>2, <2>3, GivenByTask, Zenon DEF Given
    <2>5. next_seq \in Nat /\ boot \in Nat /\ next_seq <= next_seq
        BY TypeFacts DEF BusInv
    <2>6. TransientsPending'
        BY <1>1, <1>7, TransientsKept, Zenon
    <2> QED BY <1>1, <2>4, <2>5, <2>6, GivenKept, Zenon
<1> QED
    BY <1>1, <1>5, <1>9, <1>10, <1>11, <1>12, <1>13, <1>15, <1>14, <1>16
    DEF BusInv, LoggedBelow, Current, LogBounded, UniqueRows, PastLogged

NatLess == {ss \in Nat \X Nat : ss[1] < ss[2]}

\* Every set of natural numbers has a least element.
LEMMA LeastExists ==
    ASSUME NEW T \in SUBSET Nat, T # {}
    PROVE  \E x \in T : \A y \in T : x <= y
<1>1. IsWellFoundedOn(NatLess, Nat)
    BY NatLessThanWellFounded DEF OpToRel, NatLess
<1>2. PICK x \in T : \A y \in T : <<y, x>> \notin NatLess
    BY <1>1, WFMin, Zenon
<1>3. \A y \in T : <<y, x>> \in Nat \X Nat
    OBVIOUS
<1>4. \A y \in T : ~(y < x)
    BY <1>2, <1>3, Zenon DEF NatLess
<1>5. \A y \in T : x <= y
    BY <1>4
<1> QED BY <1>5

\* Every bounded set of natural numbers has a greatest element.
LEMMA GreatestExists ==
    ASSUME NEW T \in SUBSET Nat, T # {}, NEW b \in Nat, \A y \in T : y <= b
    PROVE  \E x \in T : \A y \in T : y <= x
<1> DEFINE U == {b - y : y \in T}
<1>1. \A y \in T : b - y \in Nat
    OBVIOUS
<1>2. U \in SUBSET Nat
    BY <1>1
<1>3. U # {}
    BY Zenon
<1>4. PICK u \in U : \A v \in U : u <= v
    BY <1>2, <1>3, LeastExists, Zenon
<1>5. PICK x \in T : u = b - x
    OBVIOUS
<1>6. \A y \in T : u <= b - y
    BY <1>4
<1>7. \A y \in T : y <= x
    BY <1>5, <1>6
<1> QED BY <1>7

\* load_max_happening_seq finds the seq of a row that no other row is above.
LEMMA MaxSeqFound ==
    ASSUME BusInv, log # {}
    PROVE  \E m \in log : /\ m.seq = load_max_happening_seq(log)
                          /\ m.seq \in Nat
                          /\ \A r \in log : r.seq <= m.seq
<1>1. PICK b \in Nat : \A r \in log : r.seq <= b
    BY DEF BusInv, LogBounded
<1>2. SeqsOf(log) \in SUBSET Nat /\ \A x \in SeqsOf(log) : x <= b
    BY <1>1, TypeFacts DEF BusInv, Logged, SeqsOf
<1>3. SeqsOf(log) # {}
    BY Zenon DEF SeqsOf
<1>4. PICK x \in SeqsOf(log) : \A y \in SeqsOf(log) : y <= x
    BY <1>1, <1>2, <1>3, GreatestExists, Zenon
<1>5. \A r \in log : r.seq <= x
    BY <1>4 DEF SeqsOf
<1>6. /\ load_max_happening_seq(log) \in SeqsOf(log)
      /\ \A r \in log : r.seq <= load_max_happening_seq(log)
    BY <1>5 DEF load_max_happening_seq
<1>7. PICK m \in log : m.seq = load_max_happening_seq(log)
    BY <1>6 DEF SeqsOf
<1> QED BY <1>2, <1>6, <1>7

\* What is in flight depends on neither which row was deleted nor when.
LEMMA PendingKept ==
    ASSUME UNCHANGED <<next_seq, emit_lock, emitter, tx_env, boot, reseeded>>, Logged' = Logged
    PROVE  \A e : Pending(e)' = Pending(e)
<1>1. \A e : Batch(e)' = Batch(e)
    BY DEF Batch
<1> QED BY <1>1 DEF Pending, Current

\* The janitor deletes rows, the newest one included, and remembers them as logged.
LEMMA JanitorKeeps ==
    ASSUME BusInv, JanitorPass
    PROVE  BusInv'
<1> DEFINE max == load_max_happening_seq(log)
<1>1. PICK cutoff \in 1..(max + 1) : trim_happenings_log(cutoff)
    BY DEF JanitorPass
<1> DEFINE gone == {r \in log : /\ r.seq < cutoff \/ r.seq <= max - LogCap
                                /\ r.kind \notin Sticky}
<1>2. /\ gone # {} /\ log' = log \ gone /\ trimmed' = trimmed \cup gone
      /\ UNCHANGED <<next_seq, emit_lock, emitter, tx_env, boot, past, reseeded>>
    BY <1>1 DEF trim_happenings_log
<1>3. Logged' = Logged
    BY <1>2 DEF Logged
<1>4. BusTypeOK'
    BY <1>2 DEF BusInv, BusTypeOK
<1>5. GivenBelow' /\ GivenOnce' /\ TransientsPending'
    <2>1. \A f : Batch(f)' = Batch(f)
        BY <1>2 DEF Batch
    <2>2. \A r : Given(r)' => Given(r)
        BY <1>2, <1>3, <2>1, Zenon DEF Given, InBatch, Observed
    <2>3. next_seq \in Nat /\ boot \in Nat /\ next_seq <= next_seq
        BY TypeFacts DEF BusInv
    <2>4. TransientsPending'
        BY <1>2, <2>1, Zenon DEF BusInv, TransientsPending
    <2> QED BY <1>2, <2>2, <2>3, <2>4, GivenKept, Zenon
<1>6. HoldersPending'
    <2>1. \A e : Pending(e)' = Pending(e)
        BY <1>2, <1>3, PendingKept
    <2> QED BY <1>2, <2>1 DEF BusInv, HoldersPending
<1>7. NothingForgotten'
    <2>1. log' \subseteq log
        BY <1>2
    <2>2. \A r : Sent(r)' = Sent(r) /\ InFlight(r)' = InFlight(r)
        BY <1>2 DEF Sent, InFlight, Batch
    <2> QED BY <1>2, <2>1, <2>2 DEF BusInv, NothingForgotten
<1>8. LogBounded'
    BY <1>2 DEF BusInv, LogBounded
<1> QED
    BY <1>2, <1>3, <1>4, <1>5, <1>6, <1>7, <1>8
    DEF BusInv, LockHeld, BroadcastInOrder, PersistBeforeBroadcast, LoggedBelow, Current,
        SentThisBoot, UniqueRows, PastLogged

\* A crash and a boot: the counter continues after the newest row in the log, and the ghost
\* says whether a deleted one was above it.
LEMMA RestartKeeps ==
    ASSUME BusInv, BusRestart
    PROVE  BusInv'
<1>1. /\ boot' = boot + 1
      /\ next_seq' = load_max_happening_seq(log) + 1
      /\ emit_lock' = Free
      /\ emitter' = [f \in Tasks |-> Idle]
      /\ past' = past \cup {tx_env[i] : i \in DOMAIN tx_env}
      /\ tx_env' = <<>>
      /\ reseeded' = (reseeded \/ \E r \in trimmed : next_seq' <= r.seq)
      /\ UNCHANGED <<log, trimmed>>
    BY DEF BusRestart
<1>2. Logged' = Logged
    BY <1>1 DEF Logged
<1>3. next_seq' \in Nat \ {0} /\ \A r \in log : r.seq < next_seq'
    <2>1. CASE log = {}
        BY <2>1, <1>1 DEF load_max_happening_seq
    <2>2. CASE log # {}
        BY <2>2, <1>1, MaxSeqFound, TypeFacts DEF BusInv, Logged
    <2> QED BY <2>1, <2>2
<1>4. ~reseeded' => \A r \in Logged : r.seq < next_seq'
    <2> SUFFICES ASSUME ~reseeded', NEW r \in trimmed
                 PROVE  r.seq < next_seq'
        BY <1>3 DEF Logged
    <2>1. ~(next_seq' <= r.seq)
        BY <1>1
    <2>2. r.seq \in Nat
        BY TypeFacts DEF BusInv, Logged
    <2> QED BY <2>1, <2>2, <1>3
<1>5. boot \in Nat \ {0} /\ \A r \in Logged : r.boot \in Nat /\ r.boot <= boot
    BY TypeFacts DEF BusInv, GivenBelow, Given, Observed
<1>6. BusTypeOK'
    <2>1. past' \subseteq Envelope
        BY <1>1, TypeFacts DEF BusInv, BusTypeOK
    <2> QED BY <1>1, <1>3, <1>5, <2>1 DEF BusInv, BusTypeOK, Idle
<1>7. HoldersPending' /\ LockHeld' /\ TransientsPending'
    BY <1>1 DEF HoldersPending, LockHeld, TransientsPending, Idle, Tasks
<1>8. LoggedBelow' /\ NothingForgotten'
    <2>1. \A r \in Logged : r.boot # boot + 1
        BY <1>5
    <2>2. LoggedBelow'
        BY <1>1, <1>2, <1>4, <2>1 DEF LoggedBelow, Current
    <2>3. NothingForgotten'
        BY <1>1, <2>1 DEF NothingForgotten, Logged
    <2> QED BY <2>2, <2>3
<1>9. BroadcastInOrder' /\ PersistBeforeBroadcast' /\ SentThisBoot' /\ LogBounded'
    BY <1>1 DEF BusInv, BroadcastInOrder, PersistBeforeBroadcast, SentThisBoot, LogBounded
<1>10. PastLogged'
    BY <1>1, <1>2 DEF BusInv, PastLogged, PersistBeforeBroadcast
<1>11. UniqueRows'
    BY <1>1, <1>2 DEF BusInv, UniqueRows
<1>12. GivenBelow' /\ GivenOnce'
    <2>1. \A f \in Tasks : Batch(f)' = <<>>
        BY <1>1 DEF Batch, Idle
    <2>2. \A r \in Observed' : r \in Observed
        BY <1>1, <1>2 DEF Observed
    <2>3. \A r : ~InBatch(r)'
        BY <2>1 DEF InBatch
    <2>4. \A r : Given(r)' => Given(r)
        BY <2>2, <2>3, Zenon DEF Given
    <2> QED BY <1>1, <1>3, <1>5, <2>4, GivenKept
<1> QED
    BY <1>6, <1>7, <1>8, <1>9, <1>10, <1>11, <1>12 DEF BusInv

\* The legacy emit gives out the next seq and touches nothing else.
LEMMA MintTransientKeeps ==
    ASSUME BusInv, NEW e \in Transients, MintTransient(e)
    PROVE  BusInv'
<1>1. PICK k \in Kinds :
        emitter' = [emitter EXCEPT ![e] =
              [at |-> "transient",
               batch |-> <<[seq |-> next_seq, kind |-> k, boot |-> boot, durable |-> FALSE]>>]]
    BY Zenon DEF MintTransient
<1> DEFINE v == [seq |-> next_seq, kind |-> k, boot |-> boot, durable |-> FALSE]
<1>2. /\ next_seq' = next_seq + 1
      /\ UNCHANGED <<emit_lock, tx_env, log, boot, trimmed, past, reseeded>>
    BY DEF MintTransient
<1>3. next_seq \in Nat \ {0} /\ boot \in Nat \ {0} /\ e \in Tasks /\ e \notin Emitters
    BY BusAssumption DEF BusInv, BusTypeOK, Tasks
<1>4. v \in Envelope /\ v.seq = next_seq /\ v.boot = boot /\ ~v.durable
    BY <1>3 DEF Envelope
<1> HIDE DEF v
<1>5. /\ <<v>> \in Seq(Envelope) /\ <<v>> # <<>> /\ DOMAIN <<v>> = {1} /\ <<v>>[1] = v
    BY <1>4
<1>6. /\ emitter'[e].at = "transient" /\ Batch(e)' = <<v>>
      /\ \A f \in Tasks \ {e} : emitter'[f] = emitter[f] /\ Batch(f)' = Batch(f)
      /\ emitter' \in [Tasks -> [at : {"idle", "minted", "persisted", "transient"},
                                 batch : Seq(Envelope)]]
    BY <1>1, <1>3, <1>5 DEF BusInv, BusTypeOK, Batch, v
<1>7. Logged' = Logged /\ Observed' = Observed
    BY <1>2 DEF Logged, Observed
<1>8. BusTypeOK'
    BY <1>2, <1>3, <1>6 DEF BusInv, BusTypeOK
<1>9. \A f \in Emitters : f \in Tasks \ {e} /\ emitter'[f] = emitter[f] /\ Batch(f)' = Batch(f)
    BY <1>3, <1>6 DEF Tasks
<1>10. HoldersPending'
    <2> SUFFICES ASSUME NEW f \in Emitters, emitter[f].at # "idle"
                 PROVE  Pending(f)'
        BY <1>9 DEF BusInv, HoldersPending
    <2>1. Pending(f)
        BY DEF BusInv, HoldersPending
    <2>2. \A i \in DOMAIN Batch(f) : Batch(f)[i].seq < next_seq'
        <3>1. \A i \in DOMAIN Batch(f) : Batch(f)[i].seq < next_seq /\ Batch(f)[i].seq \in Nat
            BY <2>1, <1>9, TypeFacts DEF BusInv, Pending
        <3> QED BY <3>1, <1>2, <1>3
    <2> QED BY <2>1, <2>2, <1>2, <1>7, <1>9 DEF Pending, Current
<1>11. TransientsPending'
    <2> SUFFICES ASSUME NEW f \in Transients
                 PROVE  /\ emitter'[f].at \in {"idle", "transient"}
                        /\ emitter'[f].at = "transient" =>
                             /\ Batch(f)' # <<>>
                             /\ \A i \in DOMAIN Batch(f)' : /\ Batch(f)'[i].boot = boot'
                                                            /\ ~Batch(f)'[i].durable
        BY Zenon DEF TransientsPending
    <2>1. CASE f = e
        BY <2>1, <1>2, <1>4, <1>5, <1>6
    <2>2. CASE f # e
        <3>1. emitter'[f] = emitter[f] /\ Batch(f)' = Batch(f) /\ boot' = boot
            BY <2>2, <1>2, <1>6 DEF Tasks
        <3> QED BY <3>1, Zenon DEF BusInv, TransientsPending
    <2> QED BY <2>1, <2>2
<1>12. GivenBelow' /\ GivenOnce'
    <2>1. \A r : Given(r)' => Given(r) \/ r = v
        <3> SUFFICES ASSUME NEW r, InBatch(r)'
                     PROVE  InBatch(r) \/ r = v
            BY <1>7, Zenon DEF Given
        <3>1. PICK f \in Tasks : \E i \in DOMAIN Batch(f)' : Batch(f)'[i] = r
            BY Zenon DEF InBatch
        <3>2. CASE f = e
            BY <3>1, <3>2, <1>5, <1>6
        <3>3. CASE f # e
            BY <3>1, <3>3, <1>6, Zenon DEF InBatch
        <3> QED BY <3>2, <3>3
    <2>2. \A i \in 1..1 : <<v>>[i].seq = next_seq + i - 1 /\ <<v>>[i].boot = boot
        BY <1>3, <1>4, <1>5
    <2>3. \A r : Given(r)' => Given(r) \/ \E i \in 1..1 : r = <<v>>[i]
        BY <2>1, <1>5
    <2>4. 1 \in Nat \ {0}
        OBVIOUS
    <2> QED BY <2>2, <2>3, <2>4, <1>2, MintGives, Zenon
<1>13. LoggedBelow'
    BY <1>2, <1>3, <1>7, TypeFacts DEF BusInv, LoggedBelow, Current
<1>14. NothingForgotten'
    <2>1. \A r : (Sent(r) => Sent(r)') /\ (InFlight(r) => InFlight(r)')
        BY <1>2, <1>9 DEF Sent, InFlight
    <2> QED BY <2>1, <1>2, Zenon DEF BusInv, NothingForgotten
<1>15. LockHeld'
    BY <1>2, <1>9, Zenon DEF BusInv, LockHeld
<1> QED
    BY <1>2, <1>7, <1>8, <1>10, <1>11, <1>12, <1>13, <1>14, <1>15, Zenon
    DEF BusInv, BroadcastInOrder, PersistBeforeBroadcast, PastLogged, SentThisBoot, LogBounded,
        UniqueRows

\* The legacy emit sends between the durable happenings and promises nothing about them.
LEMMA SendTransientKeeps ==
    ASSUME BusInv, NEW e \in Transients, SendTransient(e)
    PROVE  BusInv'
<1> DEFINE v == Batch(e)[1]
<1>1. /\ emitter[e].at = "transient"
      /\ tx_env' = Append(tx_env, Head(Batch(e)))
      /\ emitter' = [emitter EXCEPT ![e] = Idle]
      /\ UNCHANGED <<next_seq, emit_lock, log, boot, trimmed, past, reseeded>>
    BY DEF SendTransient, Batch
<1>2. e \in Tasks /\ e \notin Emitters
    BY BusAssumption DEF Tasks
<1>3. Batch(e) \in Seq(Envelope) /\ Batch(e) # <<>>
    BY <1>1, <1>2, TypeFacts DEF BusInv, TransientsPending
<1>4. /\ 1 \in DOMAIN Batch(e) /\ Head(Batch(e)) = v
    BY <1>3
<1>5. v \in Envelope /\ v.boot = boot /\ ~v.durable
    BY <1>1, <1>2, <1>4, TypeFacts DEF BusInv, TransientsPending
<1>6. InBatch(v)
    BY <1>2, <1>4, Zenon DEF InBatch
<1> HIDE DEF v
<1>7. /\ DOMAIN tx_env = 1..Len(tx_env) /\ Len(tx_env) \in Nat
      /\ DOMAIN tx_env' = 1..(Len(tx_env) + 1)
      /\ tx_env'[Len(tx_env) + 1] = v
      /\ \A k \in DOMAIN tx_env : tx_env'[k] = tx_env[k]
      /\ tx_env' \in Seq(Envelope)
    <2>1. tx_env \in Seq(Envelope)
        BY DEF BusInv, BusTypeOK
    <2> QED BY <2>1, <1>1, <1>4, <1>5
<1>8. /\ emitter'[e] = Idle
      /\ \A f \in Tasks \ {e} : emitter'[f] = emitter[f] /\ Batch(f)' = Batch(f)
      /\ emitter' \in [Tasks -> [at : {"idle", "minted", "persisted", "transient"},
                                 batch : Seq(Envelope)]]
    <2>1. Idle \in [at : {"idle", "minted", "persisted", "transient"}, batch : Seq(Envelope)]
        BY DEF Idle
    <2> QED BY <1>1, <1>2, <2>1, Zenon DEF BusInv, BusTypeOK, Batch
<1>9. Logged' = Logged
    BY <1>1 DEF Logged
<1>10. BusTypeOK'
    BY <1>1, <1>7, <1>8 DEF BusInv, BusTypeOK
<1>11. \A f \in Emitters : f \in Tasks \ {e} /\ emitter'[f] = emitter[f] /\ Batch(f)' = Batch(f)
    BY <1>2, <1>8 DEF Tasks
<1>12. \A k \in DOMAIN tx_env' : tx_env'[k].durable => k \in DOMAIN tx_env /\ tx_env'[k] = tx_env[k]
    BY <1>5, <1>7
<1>13. HoldersPending'
    <2> SUFFICES ASSUME NEW f \in Emitters, emitter[f].at # "idle"
                 PROVE  Pending(f)'
        BY <1>11 DEF BusInv, HoldersPending
    <2>1. Pending(f)
        BY DEF BusInv, HoldersPending
    <2>2. \A k \in DOMAIN tx_env', i \in DOMAIN Batch(f) :
            tx_env'[k].durable => tx_env'[k].seq < Batch(f)[i].seq
        BY <2>1, <1>12 DEF Pending
    <2> QED BY <2>1, <2>2, <1>1, <1>9, <1>11 DEF Pending, Current
<1>14. TransientsPending'
    <2> SUFFICES ASSUME NEW f \in Transients, f # e
                 PROVE  /\ emitter'[f].at \in {"idle", "transient"}
                        /\ emitter'[f].at = "transient" =>
                             /\ Batch(f)' # <<>>
                             /\ \A i \in DOMAIN Batch(f)' : /\ Batch(f)'[i].boot = boot'
                                                            /\ ~Batch(f)'[i].durable
        BY <1>8 DEF TransientsPending, Idle
    <2>1. emitter'[f] = emitter[f] /\ Batch(f)' = Batch(f) /\ boot' = boot
        BY <1>1, <1>8 DEF Tasks
    <2> QED BY <2>1, Zenon DEF BusInv, TransientsPending
<1>15. GivenBelow' /\ GivenOnce'
    <2>1. \A i \in DOMAIN Batch(e)' : InBatch(Batch(e)'[i])
        BY <1>8 DEF Batch, Idle
    <2>2. \A r \in Observed' : r \in Observed \/ r = v
        BY <1>1, <1>7, <1>9 DEF Observed
    <2>3. \A r : Given(r)' => Given(r)
        BY <1>2, <1>6, <1>8, <2>1, <2>2, GivenByTask, Zenon DEF Given
    <2>4. next_seq \in Nat /\ boot \in Nat /\ next_seq <= next_seq
        BY TypeFacts DEF BusInv
    <2> QED BY <1>1, <2>3, <2>4, GivenKept, Zenon
<1>16. BroadcastInOrder' /\ PersistBeforeBroadcast'
    BY <1>9, <1>12 DEF BusInv, BroadcastInOrder, PersistBeforeBroadcast
<1>17. SentThisBoot'
    <2>1. \A k \in DOMAIN tx_env : tx_env[k].boot = boot
        BY DEF BusInv, SentThisBoot
    <2> QED BY <2>1, <1>1, <1>5, <1>7 DEF SentThisBoot
<1>18. NothingForgotten'
    <2>1. \A r : (Sent(r) => Sent(r)') /\ (InFlight(r) => InFlight(r)')
        <3>1. \A k \in DOMAIN tx_env : k \in DOMAIN tx_env'
            BY <1>7
        <3> QED BY <3>1, <1>7, <1>11, Zenon DEF Sent, InFlight
    <2> QED BY <2>1, <1>1, Zenon DEF BusInv, NothingForgotten
<1>19. LockHeld'
    BY <1>1, <1>11, Zenon DEF BusInv, LockHeld
<1> QED
    BY <1>1, <1>9, <1>10, <1>13, <1>14, <1>15, <1>16, <1>17, <1>18, <1>19, Zenon
    DEF BusInv, PastLogged, LoggedBelow, Current, LogBounded, UniqueRows

-----------------------------------------------------------------------------
\* Every step of the bus keeps its invariant.
LEMMA BusInvInit ==
    ASSUME BusInit
    PROVE  BusInv
<1>1. /\ next_seq = 1 /\ emit_lock = Free /\ emitter = [e \in Tasks |-> Idle] /\ tx_env = <<>>
      /\ log = {} /\ boot = 1 /\ trimmed = {} /\ past = {} /\ reseeded = FALSE
    BY DEF BusInit
<1>2. Logged = {} /\ Observed = {} /\ \A r : ~InBatch(r)
    BY <1>1 DEF Logged, Observed, InBatch, Batch, Idle
<1>3. BusTypeOK
    <2>1. Idle \in [at : {"idle", "minted", "persisted", "transient"}, batch : Seq(Envelope)]
        BY DEF Idle
    <2>2. emitter \in [Tasks -> [at : {"idle", "minted", "persisted", "transient"},
                                 batch : Seq(Envelope)]]
        BY <1>1, <2>1, Zenon
    <2>3. /\ emit_lock \in {Free} \cup {Held(e) : e \in Emitters} /\ reseeded \in BOOLEAN
          /\ log \subseteq Envelope /\ trimmed \subseteq Envelope /\ past \subseteq Envelope
        BY <1>1, Zenon
    <2>4. next_seq \in Nat \ {0} /\ boot \in Nat \ {0} /\ tx_env \in Seq(Envelope)
        BY <1>1
    <2> QED BY <2>2, <2>3, <2>4 DEF BusTypeOK
<1>7. LockHeld /\ HoldersPending /\ TransientsPending
    BY <1>1 DEF LockHeld, HoldersPending, TransientsPending, Idle, Tasks
<1>4. GivenBelow /\ GivenOnce
    BY <1>2, Zenon DEF GivenBelow, GivenOnce, Given
<1>5. BroadcastInOrder /\ PersistBeforeBroadcast /\ SentThisBoot /\ LogBounded
    BY <1>1 DEF BroadcastInOrder, PersistBeforeBroadcast, SentThisBoot, LogBounded
<1>6. PastLogged /\ LoggedBelow /\ UniqueRows /\ NothingForgotten
    BY <1>1, <1>2, Zenon DEF PastLogged, LoggedBelow, UniqueRows, NothingForgotten
<1> QED BY <1>3, <1>4, <1>5, <1>6, <1>7 DEF BusInv

LEMMA BusInvKept ==
    ASSUME BusInv, [BusNext]_busVars
    PROVE  BusInv'
<1>1. CASE \E e \in Emitters : MintDurable(e)
    BY <1>1, MintKeeps
<1>2. CASE \E e \in Emitters : Persist(e)
    BY <1>2, PersistKeeps
<1>3. CASE \E e \in Emitters : PersistFails(e)
    BY <1>3, PersistFailsKeeps
<1>4. CASE \E e \in Emitters : Broadcast(e)
    BY <1>4, BroadcastKeeps
<1>5. CASE JanitorPass
    BY <1>5, JanitorKeeps
<1>6. CASE BusRestart
    BY <1>6, RestartKeeps
<1>7. CASE \E e \in Transients : MintTransient(e)
    BY <1>7, MintTransientKeeps
<1>8. CASE \E e \in Transients : SendTransient(e)
    BY <1>8, SendTransientKeeps
<1>9. CASE UNCHANGED busVars
    <2>1. UNCHANGED <<next_seq, emit_lock, emitter, tx_env, log, boot, trimmed, past, reseeded>>
        BY <1>9 DEF busVars
    <2>2. Logged' = Logged /\ Observed' = Observed /\ \A e : Batch(e)' = Batch(e)
        BY <2>1 DEF Logged, Observed, Batch
    <2>3. \A e : Pending(e)' = Pending(e)
        BY <2>1, <2>2, PendingKept
    <2>4. BusTypeOK' /\ LockHeld' /\ HoldersPending'
        BY <2>1, <2>3 DEF BusInv, BusTypeOK, LockHeld, HoldersPending
    <2>5. BroadcastInOrder' /\ PersistBeforeBroadcast' /\ SentThisBoot' /\ LogBounded'
        BY <2>1, <2>2 DEF BusInv, BroadcastInOrder, PersistBeforeBroadcast, SentThisBoot, LogBounded
    <2>6. LoggedBelow' /\ UniqueRows' /\ PastLogged'
        BY <2>1, <2>2 DEF BusInv, LoggedBelow, Current, UniqueRows, PastLogged
    <2>7. NothingForgotten' /\ TransientsPending'
        BY <2>1, <2>2 DEF BusInv, NothingForgotten, Sent, InFlight, TransientsPending
    <2>8. \A r : Given(r)' => Given(r)
        BY <2>2, Zenon DEF Given, InBatch
    <2>9. next_seq \in Nat /\ boot \in Nat /\ next_seq <= next_seq
        BY TypeFacts DEF BusInv
    <2>10. GivenBelow' /\ GivenOnce'
        BY <2>1, <2>8, <2>9, GivenKept, Zenon
    <2> QED BY <2>4, <2>5, <2>6, <2>7, <2>10 DEF BusInv
<1> QED BY <1>1, <1>2, <1>3, <1>4, <1>5, <1>6, <1>7, <1>8, <1>9, Zenon DEF BusNext, BusStep

\* The bus invariant: emit_durable's lock, the order mint, row, broadcast, the
\* janitor's window and the boot's reseeding work together in every interleaving,
\* with any use of the legacy emit beside them.
THEOREM BusInvariant == BusSpec => []BusInv
<1>1. BusInit => BusInv
    BY BusInvInit
<1>2. BusInv /\ [BusNext]_busVars => BusInv'
    BY BusInvKept
<1> QED BY <1>1, <1>2, PTL DEF BusSpec

\* No seq is given out twice within a boot, by either way of emitting; and over crashes,
\* failed persists and retention no two durable happenings share one, as long as every boot
\* has set the counter above the rows the janitor deleted.
THEOREM BusSeqNeverReused == BusSpec => []SeqNeverReused
<1>1. BusInv => SeqNeverReused
    <2> SUFFICES ASSUME BusInv, NEW r \in Observed, NEW q \in Observed, r.seq = q.seq,
                        r.boot = q.boot \/ (~reseeded /\ r.durable /\ q.durable)
                 PROVE  r = q
        BY Zenon DEF SeqNeverReused
    <2>1. CASE r.boot = q.boot
        BY <2>1, Zenon DEF BusInv, GivenOnce, Given
    <2>2. CASE ~reseeded /\ r.durable /\ q.durable
        <3>1. r \in Logged /\ q \in Logged
            BY <2>2 DEF BusInv, Observed, PersistBeforeBroadcast, PastLogged
        <3> QED BY <2>2, <3>1, Zenon DEF BusInv, UniqueRows
    <2> QED BY <2>1, <2>2
<1> QED BY <1>1, BusInvariant, PTL

\* Durable envelopes are broadcast in the order of their seqs.
THEOREM BusBroadcastInOrder == BusSpec => []BroadcastInOrder
<1>1. BusInv => BroadcastInOrder
    BY DEF BusInv
<1> QED BY <1>1, BusInvariant, PTL

\* Whoever takes emit_lock finds every durable happening of this boot broadcast.
THEOREM BusLockPinsCursor == BusSpec => []LockPinsCursor
<1>1. BusInv => LockPinsCursor
    BY FreeIdle DEF BusInv, LockPinsCursor, NothingForgotten, Sent, InFlight
<1> QED BY <1>1, BusInvariant, PTL

\* A durable envelope on the channel has, or had until the janitor came, its row on disk.
THEOREM BusPersistBeforeBroadcast == BusSpec => []PersistBeforeBroadcast
<1>1. BusInv => PersistBeforeBroadcast
    BY DEF BusInv
<1> QED BY <1>1, BusInvariant, PTL
=============================================================================
