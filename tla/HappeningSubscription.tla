------------------------ MODULE HappeningSubscription ------------------------
(***************************************************************************)
(* subscribe_happenings: server.rs run_subscription over the bus, and the  *)
(* client that reconnects with the last seq it observed.                   *)
(*                                                                         *)
(* sub[s] is the server side of one connection: its program position, the  *)
(* since cursor of the request, its receiver's position on tx_env, the     *)
(* dedupe boundary, the frames it is about to write and its coalescer's    *)
(* buckets.  client[s] outlives connections and steward restarts; its      *)
(* fields are ghosts but for the cursor: base is its first cursor, told is *)
(* whether the steward reported a loss.                                    *)
(***************************************************************************)
EXTENDS HappeningBus, Coalescer

CONSTANTS
    Subscribers,
    Accepts,     \* [Subscribers -> SUBSET Kinds]: HappeningFilter::accepts
    Coalescing,  \* the subscribers that declared a coalesce config
    ChanCap,     \* capacity of the broadcast channel
    Drops        \* bound: may connections drop

ASSUME SubscriptionAssumption ==
    /\ Accepts \in [Subscribers -> SUBSET Kinds]
    /\ Coalescing \subseteq Subscribers
    /\ ChanCap \in Nat \ {0}
    /\ Drops \in BOOLEAN

VARIABLES sub, client

subVars == <<sub, client>>
vars == <<busVars, subVars>>

None == -1
Off == [at |-> "off", since |-> None, current_seq |-> 0, start |-> 0, pos |-> 0,
        boundary |-> 0, outbox |-> <<>>, buckets |-> <<>>]
NewClient == [cursor |-> None, base |-> None, got |-> <<>>, told |-> FALSE]

Accepted(s, env) == env.kind \in Accepts[s]
ToFrames(rows) == [i \in DOMAIN rows |-> AsFrame(rows[i])]
\* load_happenings_since: rows above the cursor, and the query's ORDER BY seq.
load_happenings_since(rows, cursor) == {r \in rows : r.seq > cursor}
InSeqOrder(rows) ==
    {out \in Bijection(1..Cardinality(rows), rows) :
        \A i, j \in DOMAIN out : i < j => out[i].seq < out[j].seq}

-----------------------------------------------------------------------------
SubInit ==
    /\ sub = [s \in Subscribers |-> Off]
    /\ client = [s \in Subscribers |-> NewClient]

\* Mutant: does not wait for emit_lock.
SubscribeUnlocked(s) ==
    /\ sub[s].at = "off"
    /\ sub' = [sub EXCEPT ![s] =
         [Off EXCEPT !.at = IF client[s].cursor = None THEN "ack" ELSE "window",
                     !.since = client[s].cursor,
                     !.current_seq = next_seq - 1,
                     !.start = Len(tx_env), !.pos = Len(tx_env)]]
    /\ UNCHANGED client

\* subscribe_with_current_seq: under emit_lock.  A client that has observed a seq
\* sends it as since.
Subscribe(s) ==
    /\ sub[s].at = "off"
    /\ emit_lock = Free
    /\ sub' = [sub EXCEPT ![s] =
         [Off EXCEPT !.at = IF client[s].cursor = None THEN "ack" ELSE "window",
                     !.since = client[s].cursor,
                     !.current_seq = next_seq - 1,
                     !.start = Len(tx_env), !.pos = Len(tx_env)]]
    /\ UNCHANGED client

\* The replay-window check against the oldest retained row.
WindowCheck(s) ==
    LET oldest == load_oldest_happening_seq(log)
        exceeded == oldest > 0 /\ sub[s].since < oldest
    IN  /\ sub[s].at = "window"
        /\ sub' = [sub EXCEPT ![s] = IF exceeded THEN Off ELSE [@ EXCEPT !.at = "ack"]]
        /\ client' = [client EXCEPT ![s].told = @ \/ exceeded]

\* The Subscribed frame; a client without a cursor adopts current_seq.
Ack(s) ==
    /\ sub[s].at = "ack"
    /\ sub' = [sub EXCEPT ![s].at = IF sub[s].since = None THEN "live" ELSE "replay"]
    /\ client' = [client EXCEPT ![s] =
         IF @.cursor # None THEN @
         ELSE [@ EXCEPT !.cursor = sub[s].current_seq, !.base = sub[s].current_seq]]

\* Mutant: does not remember what the replay covered.
ReplayNoDedupe(s) ==
    LET rows == load_happenings_since(log, sub[s].since)
    IN  /\ sub[s].at = "replay"
        /\ \E out \in InSeqOrder({r \in rows : Accepted(s, r)}) :
             sub' = [sub EXCEPT ![s].at = "live", ![s].outbox = ToFrames(out),
                                ![s].boundary = sub[s].since]
        /\ UNCHANGED client

\* Mutant: takes the counter, which is ahead of the log, for the boundary.
ReplayDedupeByCounter(s) ==
    LET rows == load_happenings_since(log, sub[s].since)
    IN  /\ sub[s].at = "replay"
        /\ \E out \in InSeqOrder({r \in rows : Accepted(s, r)}) :
             sub' = [sub EXCEPT ![s].at = "live", ![s].outbox = ToFrames(out),
                                ![s].boundary = next_seq - 1]
        /\ UNCHANGED client

\* The replay query; filtered rows still advance the dedupe boundary.
Replay(s) ==
    LET rows == load_happenings_since(log, sub[s].since)
    IN  /\ sub[s].at = "replay"
        /\ \E out \in InSeqOrder({r \in rows : Accepted(s, r)}) :
             sub' = [sub EXCEPT ![s].at = "live", ![s].outbox = ToFrames(out),
                                ![s].boundary = IF rows = {} THEN sub[s].since
                                                ELSE load_max_happening_seq(rows)]
        /\ UNCHANGED client

\* One frame reaches the client.
WriteFrame(s) ==
    /\ sub[s].outbox # <<>>
    /\ client' = [client EXCEPT ![s].got = Append(@, Head(sub[s].outbox)),
                                ![s].cursor = Head(sub[s].outbox).seq]
    /\ sub' = [sub EXCEPT ![s].outbox = Tail(@)]

Ready(s) == sub[s].at = "live" /\ sub[s].outbox = <<>>
Behind(s) == Len(tx_env) - sub[s].pos > ChanCap

\* rx.recv() returned an envelope.
Receive(s) ==
    LET env == tx_env[sub[s].pos + 1]
        drop == env.seq <= sub[s].boundary \/ ~Accepted(s, env)
        bucketed == s \in Coalescing /\ HasKey(env)
    IN  /\ Ready(s)
        /\ sub[s].pos < Len(tx_env)
        /\ ~Behind(s)
        /\ sub' = [sub EXCEPT ![s].pos = @ + 1,
                              ![s].outbox = IF drop \/ bucketed THEN @ ELSE <<AsFrame(env)>>,
                              ![s].buckets = IF ~drop /\ bucketed THEN Observe(@, env) ELSE @]
        /\ UNCHANGED client

\* Mutant: does not tell the client.
LaggedSilently(s) ==
    /\ Ready(s)
    /\ Behind(s)
    /\ sub' = [sub EXCEPT ![s].pos = Len(tx_env) - ChanCap]
    /\ UNCHANGED client

\* RecvError::Lagged: the oldest buffered envelope is next; the client is told.
Lagged(s) ==
    /\ Ready(s)
    /\ Behind(s)
    /\ sub' = [sub EXCEPT ![s].pos = Len(tx_env) - ChanCap]
    /\ client' = [client EXCEPT ![s].told = TRUE]

\* A coalesce deadline passed: flush_expired.
Flush(s) ==
    /\ Ready(s)
    /\ \E n \in 1..Len(sub[s].buckets) : \E frames \in FlushOrders(sub[s].buckets, n) :
         sub' = [sub EXCEPT ![s].outbox = frames, ![s].buckets = Unexpired(@, n)]
    /\ UNCHANGED client

\* The peer goes away, a write fails or the oldest-seq or replay query errs.
Disconnect(s) ==
    /\ Drops
    /\ sub[s].at # "off"
    /\ sub' = [sub EXCEPT ![s] = Off]
    /\ UNCHANGED client

Restart ==
    /\ BusRestart
    /\ sub' = [s \in Subscribers |-> Off]
    /\ UNCHANGED client

SubStep(s) ==
    Subscribe(s) \/ WindowCheck(s) \/ Ack(s) \/ Replay(s) \/ WriteFrame(s)
        \/ Receive(s) \/ Lagged(s) \/ Flush(s)

Init == BusInit /\ SubInit
Next ==
    \/ BusStep /\ UNCHANGED subVars
    \/ \E s \in Subscribers : (SubStep(s) \/ Disconnect(s)) /\ UNCHANGED busVars
    \/ Restart

Spec == Init /\ [][Next]_vars

\* The runtime polls every woken task and its timers fire; nothing makes a client
\* connect, a new happening occur, the janitor run or the steward stop.
Fairness ==
    /\ \A e \in Emitters : WF_vars((Persist(e) \/ PersistFails(e) \/ Broadcast(e)) /\ UNCHANGED subVars)
    /\ \A s \in Subscribers :
         WF_vars((WindowCheck(s) \/ Ack(s) \/ Replay(s) \/ WriteFrame(s)
                    \/ Receive(s) \/ Lagged(s) \/ Flush(s)) /\ UNCHANGED busVars)

FairSpec == Spec /\ Fairness

-----------------------------------------------------------------------------
Has(s, r) == \E i \in DOMAIN client[s].got : client[s].got[i].payload = r

\* Rows between the client's first cursor and its present one that it never got.
Missed(s) ==
    {r \in Logged : /\ Accepted(s, r)
                    /\ client[s].base < r.seq /\ r.seq <= client[s].cursor
                    /\ ~Has(s, r)}

\* A frame of the legacy emit moves the cursor to a seq that is in no order with the log.
OnlyDurable(s) == \A i \in DOMAIN client[s].got : client[s].got[i].payload.durable

\* Replay followed by the live stream loses nothing: across disconnects, restarts
\* and emits racing the replay query, a durable happening the client's cursor has
\* passed was delivered, unless the janitor deleted its row, the steward said so
\* (Lagged, replay_window_exceeded), a frame of the legacy emit moved the cursor, or
\* a boot reused seqs.
OnlyTrimmedMissed ==
    \A s \in Subscribers \ Coalescing :
        client[s].base # None /\ ~client[s].told /\ OnlyDurable(s) /\ ~reseeded
            => Missed(s) \subseteq trimmed

\* The dedupe boundary works: to a client that gets durable happenings no seq is
\* delivered twice and none out of order, on one connection or across reconnects.
DeliveredInOrder ==
    \A s \in Subscribers \ Coalescing : OnlyDurable(s) =>
        \A i, j \in DOMAIN client[s].got :
            i < j => client[s].got[i].seq < client[s].got[j].seq

\* What emit_lock gives a subscriber that observes current_seq = N: every durable
\* happening of this boot up to N is on disk and went out before it subscribed, and
\* every durable envelope it can still receive is above N.
CurrentSeqPins ==
    \A s \in Subscribers : sub[s].at # "off" =>
        /\ \A r \in Logged : r.boot = boot /\ r.seq <= sub[s].current_seq =>
             \E i \in 1..sub[s].start : tx_env[i] = r
        /\ \A i \in DOMAIN tx_env :
             i > sub[s].start /\ tx_env[i].durable => tx_env[i].seq > sub[s].current_seq

\* A happening above the dedupe boundary that waits on a live connection's receiver
\* reaches the client, itself or in a later frame of its kind, unless the client is told
\* that the receiver lagged or the connection ends.
LiveDelivery ==
    \A s \in Subscribers, q \in 1..MaxSeq, k \in Kinds :
        (/\ sub[s].at = "live"
         /\ \E i \in DOMAIN tx_env :
              /\ i > sub[s].pos /\ tx_env[i].seq = q /\ tx_env[i].kind = k
              /\ q > sub[s].boundary /\ Accepted(s, tx_env[i]))
        ~> (sub[s].at = "off" \/ client[s].told
              \/ \E i \in DOMAIN client[s].got :
                   client[s].got[i].payload.kind = k /\ client[s].got[i].seq >= q)

\* A happening a coalescing connection has received without lagging is in an open bucket of
\* its key or covered by a frame of that key whose seq is at least its own.  Under Latest
\* the surviving payload is the one the frame's seq names, unless the legacy emit sent one
\* of the two: it may send a smaller seq after a larger one, or the larger one first.
CoalesceCovers ==
    \A s \in Coalescing : sub[s].at = "live" /\ ~client[s].told =>
        LET out == Range(client[s].got) \cup Range(sub[s].outbox) \cup Range(sub[s].buckets)
            seen == (sub[s].start + 1)..sub[s].pos
        IN  /\ \A i \in seen :
                 (Accepted(s, tx_env[i]) /\ tx_env[i].seq > sub[s].boundary) =>
                     \E f \in out : f.payload.kind = tx_env[i].kind /\ f.seq >= tx_env[i].seq
            /\ Latest => \A f \in out :
                 f.payload.seq = f.seq \/ ~f.payload.durable
                     \/ \E i \in seen : tx_env[i].seq = f.seq /\ ~tx_env[i].durable

\* Within one coalesce key a connection never goes back to an older durable happening,
\* whatever the legacy emit puts between them in the same key.
PerKeyInOrder ==
    \A s \in Coalescing : LET got == client[s].got IN
        \A i, j \in DOMAIN got :
            /\ i < j /\ got[i].payload.kind = got[j].payload.kind
            /\ got[i].payload.durable /\ got[j].payload.durable
            => got[i].payload.seq < got[j].payload.seq
==============================================================================
