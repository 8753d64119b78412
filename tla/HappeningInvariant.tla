------------------------- MODULE HappeningInvariant -------------------------
(***************************************************************************)
(* The inductive invariant of HappeningBus, and what a step of the bus may *)
(* do to it.                                                               *)
(***************************************************************************)
EXTENDS HappeningBus

Batch(e) == emitter[e].batch

\* Rows the counter is above: those of this boot, and all while no boot has reused seqs.
Current(r) == r.boot = boot \/ ~reseeded

\* A task that holds emit_lock: its envelopes are above every durable one broadcast, and
\* above everything logged until it has logged them itself.
Pending(e) ==
    /\ emit_lock = Held(e)
    /\ Batch(e) # <<>>
    /\ \A i \in DOMAIN Batch(e) : /\ Batch(e)[i].seq < next_seq
                                  /\ Batch(e)[i].boot = boot /\ Batch(e)[i].durable
    /\ \A i, j \in DOMAIN Batch(e) : i < j => Batch(e)[i].seq < Batch(e)[j].seq
    /\ \A k \in DOMAIN tx_env, i \in DOMAIN Batch(e) :
         tx_env[k].durable => tx_env[k].seq < Batch(e)[i].seq
    /\ emitter[e].at = "minted" =>
         \A r \in Logged, i \in DOMAIN Batch(e) : Current(r) => r.seq < Batch(e)[i].seq
    /\ emitter[e].at = "persisted" => \A i \in DOMAIN Batch(e) : Batch(e)[i] \in Logged

Sent(r) == \E i \in DOMAIN tx_env : tx_env[i] = r
InFlight(r) ==
    \E e \in Emitters : /\ emitter[e].at = "persisted"
                        /\ \E i \in DOMAIN Batch(e) : Batch(e)[i] = r

\* Every happening that anyone has seen or that is on its way.
InBatch(r) == \E e \in Tasks : \E i \in DOMAIN Batch(e) : Batch(e)[i] = r
Given(r) == r \in Observed \/ InBatch(r)

LockHeld == emit_lock # Free => \E e \in Emitters : emit_lock = Held(e) /\ emitter[e].at # "idle"
HoldersPending ==
    \A e \in Emitters : /\ emitter[e].at \in {"idle", "minted", "persisted"}
                        /\ emitter[e].at # "idle" => Pending(e)
\* What the legacy emit is about to send.
TransientsPending ==
    \A e \in Transients :
        /\ emitter[e].at \in {"idle", "transient"}
        /\ emitter[e].at = "transient" =>
             /\ Batch(e) # <<>>
             /\ \A i \in DOMAIN Batch(e) : Batch(e)[i].boot = boot /\ ~Batch(e)[i].durable
PastLogged == \A q \in past : q.durable => q \in Logged
GivenBelow == \A r : Given(r) => r.boot <= boot /\ (r.boot = boot => r.seq < next_seq)
GivenOnce == \A r, q : Given(r) /\ Given(q) /\ r.seq = q.seq /\ r.boot = q.boot => r = q
LoggedBelow == \A r \in Logged : Current(r) => r.seq < next_seq
SentThisBoot == \A k \in DOMAIN tx_env : tx_env[k].boot = boot
LogBounded == \E b \in Nat : \A r \in log : r.seq <= b
UniqueRows == ~reseeded => \A r, q \in Logged : r.seq = q.seq => r = q
NothingForgotten == \A r \in log : r.boot = boot => Sent(r) \/ InFlight(r)

BusInv ==
    /\ BusTypeOK
    /\ LockHeld
    /\ HoldersPending
    /\ TransientsPending
    /\ BroadcastInOrder
    /\ PersistBeforeBroadcast
    /\ PastLogged
    /\ GivenBelow
    /\ GivenOnce
    /\ LoggedBelow
    /\ SentThisBoot
    /\ LogBounded
    /\ UniqueRows
    /\ NothingForgotten
=============================================================================
