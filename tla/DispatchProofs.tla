--------------------------- MODULE DispatchProofs ---------------------------
(***************************************************************************)
(* Proofs about PluginDispatch, for any plugins, any handlers that call    *)
(* each other, any number of exchanges and of crashes.                     *)
(***************************************************************************)
EXTENDS PluginDispatch, FiniteSetTheorems, TLAPS

Unsent == {"new", "asked", "write"}
Early == Unsent \cup {"guard", "register"}
Dead == {"none", "over"}
Sides == Dead \cup {"out", "held", "handoff", "barrier", "spawned", "run", "asked", "nested",
                    "answered", "replied"}
Request == [to : Plugins, cid : Cids, verb : Verbs, source : {"server", "framework", "client"},
            parent : Tokens \cup {Nobody}]
Outcomes == {"none", "answered", "disconnected", "unloaded", "aborted", "refused"}

DispatchTypeOK ==
    /\ NEXT_CID \in Nat /\ cid \in [Plugins -> Nat]
    /\ handle \in [Plugins -> BOOLEAN] /\ alive \in [Plugins -> BOOLEAN]
    /\ pending \in [Plugins -> [Cids -> Tokens \cup {Nobody}]]
    /\ writer \in [Plugins -> {"writing", "stopped"}]
    /\ req \in [Tokens -> Request]
    /\ pc \in [Tokens -> Early \cup {"send", "wait", "ended"}]
    /\ mail \in [Tokens -> Tokens \cup {Nobody, Gone}]
    /\ outcome \in [Tokens -> Outcomes]
    /\ host \in [Tokens -> Sides]

\* Every exchange takes one cid at most, so no counter leaves Cids.
Unserved == {n \in Tokens : pc[n] \in Unsent}
Counters ==
    /\ NEXT_CID + Cardinality(Unserved) <= MaxTokens + 3
    /\ \A p \in Plugins : cid[p] + Cardinality(Unserved) <= MaxTokens + 3

\* What the pending map holds is a call on that connection under that cid, not yet answered.
Indexed ==
    \A p \in Plugins, c \in Cids, n \in Tokens :
      pending[p][c] = n => To(n) = p /\ req[n].cid = c /\ pc[n] \notin Early /\ mail[n] = Nobody

\* One exchange: its oneshot, its sender in the pending map, and its end.
Exchange(n) ==
    /\ pc[n] \in Early => mail[n] = Nobody /\ host[n] \in Dead
    /\ outcome[n] # "none" => pc[n] = "ended"
    /\ host[n] \notin Dead => pc[n] \in {"wait", "ended"} /\ outcome[n] # "refused"
    /\ mail[n] = n => host[n] = "over" /\ pc[n] \in {"wait", "ended"}
    /\ mail[n] \in Tokens => mail[n] = n \/ Shared(n)
    /\ mail[n] = Gone => ~alive[To(n)]
    /\ pc[n] \in {"send", "wait"} /\ mail[n] = Nobody /\ pending[To(n)][req[n].cid] # n =>
         \/ Shared(n) \/ ~alive[To(n)]
         \/ writer[To(n)] = "stopped" /\ host[n] \in Dead
    /\ outcome[n] = "answered" => mail[n] \in Tokens
    /\ outcome[n] = "disconnected" => Shared(n) \/ ~alive[To(n)] \/ writer[To(n)] = "stopped"
    /\ req[n].verb = "request" /\ host[n] \notin Dead =>
         pc[n] = "wait" \/ outcome[n] = "aborted" \/ Shared(n) \/ ~alive[To(n)]

\* A request inside the entry's read guard has a handle, an unload past the write guard
\* has taken it.
Guarded(n) ==
    /\ pc[n] \in {"new", "asked", "guard"} => req[n].verb = "request"
    /\ pc[n] = "write" => req[n].verb = "unload"
    /\ req[n].verb = "unload" => req[n].parent = Nobody
    /\ req[n].verb = "unload" /\ pc[n] # "write" => ~handle[To(n)]
    /\ req[n].verb = "request" /\ pc[n] \in {"register", "send", "wait"} => handle[To(n)]

Leaving(n) == req[n].verb = "unload" /\ (pc[n] = "send" \/ host[n] \notin Dead)
Running(m) == req[m].verb = "request" /\ host[m] \notin Dead

\* The requests a plugin still runs once its unload is on the way.
Apart ==
    \A n, m \in Tokens :
      Leaving(n) /\ Running(m) /\ To(m) = To(n) => outcome[m] = "aborted" \/ Shared(m)

DispatchInv ==
    /\ DispatchTypeOK /\ Counters /\ Indexed /\ Apart
    /\ \A n \in Tokens : Exchange(n) /\ Guarded(n)

\* What no step undoes: an exchange under way keeps its request, a connection stays down.
Onwards ==
    /\ \A m \in Tokens : pc[m] \notin Unsent =>
         /\ pc'[m] \notin Unsent /\ req'[m] = req[m]
         /\ outcome[m] # "refused" => outcome'[m] # "refused"
         /\ outcome[m] = "aborted" => outcome'[m] = "aborted"
    /\ \A p \in Plugins :
         /\ ~alive[p] => ~alive'[p]
         /\ writer[p] = "stopped" => writer'[p] = "stopped"

-----------------------------------------------------------------------------
\* What the pending map says of one of its senders.
LEMMA IndexedAt ==
    ASSUME DispatchInv, NEW p \in Plugins, NEW c \in Cids, NEW n \in Tokens, pending[p][c] = n
    PROVE  To(n) = p /\ req[n].cid = c /\ pc[n] \notin Early /\ mail[n] = Nobody
<1>1. Indexed
    BY Zenon DEF DispatchInv
<1> QED BY <1>1 DEF Indexed

\* The parts of the type invariant at one exchange.
LEMMA TokenFacts ==
    ASSUME DispatchTypeOK, NEW n \in Tokens
    PROVE  /\ To(n) \in Plugins /\ req[n].cid \in Cids /\ req[n].verb \in Verbs
           /\ req[n].parent \in Tokens \cup {Nobody}
           /\ pc[n] \in Early \cup {"send", "wait", "ended"}
           /\ mail[n] \in Tokens \cup {Nobody, Gone}
           /\ pending[To(n)][req[n].cid] \in Tokens \cup {Nobody}
           /\ n # Nobody /\ n # Gone /\ Nobody \notin Tokens /\ Gone \notin Tokens
           /\ Nobody # Gone /\ MaxTokens \in Nat
<1>1. MaxTokens \in Nat
    BY DispatchAssumption
<1>2. n # Nobody /\ n # Gone /\ Nobody \notin Tokens /\ Gone \notin Tokens /\ Nobody # Gone
    BY <1>1 DEF Tokens, Nobody, Gone
<1>3. /\ To(n) \in Plugins /\ req[n].cid \in Cids /\ req[n].verb \in Verbs
      /\ req[n].parent \in Tokens \cup {Nobody}
    BY DEF DispatchTypeOK, To, Request
<1>4. pending[To(n)][req[n].cid] \in Tokens \cup {Nobody}
    BY <1>3 DEF DispatchTypeOK
<1>5. pc[n] \in Early \cup {"send", "wait", "ended"} /\ mail[n] \in Tokens \cup {Nobody, Gone}
    BY DEF DispatchTypeOK
<1> QED BY <1>1, <1>2, <1>3, <1>4, <1>5

\* A step that changes one place of the pending map leaves the others' places alone.
OnlyPlace(p, c) ==
    \A q \in Plugins, d \in Cids : ~(q = p /\ d = c) => pending'[q][d] = pending[q][d]

LEMMA OtherPlaces ==
    ASSUME DispatchInv, NEW p, NEW c, OnlyPlace(p, c)
    PROVE  \A k \in Tokens : \/ pending'[To(k)][req[k].cid] = pending[To(k)][req[k].cid]
                             \/ To(k) = p /\ req[k].cid = c
<1> TAKE k \in Tokens
<1>1. To(k) \in Plugins /\ req[k].cid \in Cids
    BY TokenFacts, Zenon DEF DispatchInv
<1> QED BY <1>1, Zenon DEF OnlyPlace

\* A pending map that only loses senders keeps its meaning.
LEMMA IndexedKept ==
    ASSUME DispatchInv, req' = req, mail' = mail,
           \A k \in Tokens : pc[k] \notin Early => pc'[k] \notin Early,
           \A q \in Plugins, d \in Cids :
             pending'[q][d] = pending[q][d] \/ pending'[q][d] = Nobody
    PROVE  Indexed'
<1>1. SUFFICES ASSUME NEW q \in Plugins, NEW d \in Cids, NEW k \in Tokens, pending'[q][d] = k
               PROVE  To(k)' = q /\ req'[k].cid = d /\ pc'[k] \notin Early /\ mail'[k] = Nobody
    BY Zenon DEF Indexed
<1>2. k # Nobody
    BY TokenFacts, Zenon DEF DispatchInv
<1>3. pending[q][d] = k
    BY <1>1, <1>2, Zenon
<1>4. To(k) = q /\ req[k].cid = d /\ pc[k] \notin Early /\ mail[k] = Nobody
    BY <1>3, IndexedAt, Zenon
<1> QED BY <1>4, Zenon DEF To

\* The sender of one call is taken out of the map and told.
LEMMA IndexedTold ==
    ASSUME DispatchInv, req' = req, pc' = pc, NEW p \in Plugins, NEW c \in Cids,
           NEW t \in Tokens, pending[p][c] = t, pending'[p][c] = Nobody, OnlyPlace(p, c),
           \A k \in Tokens \ {t} : mail'[k] = mail[k]
    PROVE  Indexed'
<1>1. To(t) = p /\ req[t].cid = c
    BY IndexedAt
<1>2. SUFFICES ASSUME NEW q \in Plugins, NEW d \in Cids, NEW k \in Tokens, pending'[q][d] = k
               PROVE  To(k)' = q /\ req'[k].cid = d /\ pc'[k] \notin Early /\ mail'[k] = Nobody
    BY Zenon DEF Indexed
<1>3. k # Nobody
    BY TokenFacts, Zenon DEF DispatchInv
<1>4. pending[q][d] = k /\ ~(q = p /\ d = c)
    BY <1>2, <1>3 DEF OnlyPlace
<1>5. To(k) = q /\ req[k].cid = d /\ pc[k] \notin Early /\ mail[k] = Nobody
    BY <1>4, IndexedAt
<1>6. k # t
    BY <1>1, <1>4, <1>5, Zenon
<1> QED BY <1>5, <1>6, Zenon DEF To

\* The map of a connection that goes down is emptied, and its callers told.
Drained(p, k) == \E d \in Cids : pending[p][d] = k

LEMMA DrainedAt ==
    ASSUME DispatchInv, NEW p \in Plugins, NEW k \in Tokens, Drained(p, k)
    PROVE  To(k) = p /\ pc[k] \notin Early /\ mail[k] = Nobody
<1>1. PICK d \in Cids : pending[p][d] = k
    BY Zenon DEF Drained
<1> QED BY <1>1, IndexedAt

LEMMA IndexedDrained ==
    ASSUME DispatchInv, req' = req, pc' = pc, NEW p \in Plugins,
           \A d \in Cids : pending'[p][d] = Nobody,
           \A q \in Plugins \ {p} : pending'[q] = pending[q],
           \A k \in Tokens : ~Drained(p, k) => mail'[k] = mail[k]
    PROVE  Indexed'
<1>1. SUFFICES ASSUME NEW q \in Plugins, NEW d \in Cids, NEW k \in Tokens, pending'[q][d] = k
               PROVE  To(k)' = q /\ req'[k].cid = d /\ pc'[k] \notin Early /\ mail'[k] = Nobody
    BY Zenon DEF Indexed
<1>2. k # Nobody
    BY TokenFacts, Zenon DEF DispatchInv
<1>3. q # p /\ pending[q][d] = k
    BY <1>1, <1>2
<1>4. To(k) = q /\ req[k].cid = d /\ pc[k] \notin Early /\ mail[k] = Nobody
    BY <1>3, IndexedAt
<1>5. ~Drained(p, k)
    BY <1>3, <1>4, DrainedAt, Zenon
<1> QED BY <1>4, <1>5, Zenon DEF To

\* An exchange that has no cid yet is not in the map.
LEMMA IndexedStart ==
    ASSUME DispatchInv, NEW n \in Tokens, pc[n] \in Unsent, pending' = pending, mail' = mail,
           \A k \in Tokens \ {n} : pc'[k] = pc[k] /\ req'[k] = req[k]
    PROVE  Indexed'
<1>1. SUFFICES ASSUME NEW q \in Plugins, NEW d \in Cids, NEW k \in Tokens, pending'[q][d] = k
               PROVE  To(k)' = q /\ req'[k].cid = d /\ pc'[k] \notin Early /\ mail'[k] = Nobody
    BY Zenon DEF Indexed
<1>2. To(k) = q /\ req[k].cid = d /\ pc[k] \notin Early /\ mail[k] = Nobody
    BY <1>1, IndexedAt
<1>3. k # n
    BY <1>2 DEF Early
<1> QED BY <1>2, <1>3, Zenon DEF To

\* An exchange the step does not touch keeps its guard.
LEMMA GuardedOther ==
    ASSUME DispatchInv, NEW n \in Tokens, handle' = handle,
           \A k \in Tokens \ {n} : pc'[k] = pc[k] /\ req'[k] = req[k],
           NEW k \in Tokens, k # n
    PROVE  Guarded(k)'
<1>1. Guarded(k) /\ pc'[k] = pc[k] /\ req'[k] = req[k]
    BY Zenon DEF DispatchInv
<1> QED BY <1>1, Zenon DEF Guarded, To

\* Two exchanges of one connection under one cid.
LEMMA SharedThen ==
    ASSUME NEW n \in Tokens, NEW m \in Tokens, m # n, pc'[m] \notin Unsent,
           outcome'[m] # "refused", req'[m].to = req'[n].to, req'[m].cid = req'[n].cid
    PROVE  Shared(n)'
BY DEF Shared, On, To, Unsent

\* Whoever shares a cid goes on sharing it.
LEMMA SharedKept ==
    ASSUME Onwards, NEW n \in Tokens, pc[n] \notin Unsent, Shared(n)
    PROVE  Shared(n)'
<1>1. PICK m \in Tokens : /\ m # n /\ pc[m] \notin Unsent /\ outcome[m] # "refused"
                          /\ req[m].to = req[n].to /\ req[m].cid = req[n].cid
    BY DEF Shared, On, To, Unsent
<1>2. /\ pc'[m] \notin Unsent /\ outcome'[m] # "refused" /\ req'[m] = req[m]
      /\ req'[n] = req[n]
    BY <1>1 DEF Onwards
<1> QED BY <1>1, <1>2, SharedThen

\* A step that is not an exchange's own leaves its rules in force, provided a sender it
\* loses is lost to another call under its cid or with the connection.
LEMMA Bystander ==
    ASSUME DispatchTypeOK, Onwards, NEW k \in Tokens, Exchange(k),
           pc'[k] = pc[k], req'[k] = req[k], mail'[k] = mail[k], outcome'[k] = outcome[k],
           host'[k] = host[k] \/ (host[k] \notin Dead /\ host'[k] # "none"),
           \/ pending'[To(k)][req[k].cid] = pending[To(k)][req[k].cid]
           \/ pending[To(k)][req[k].cid] # k
           \/ Shared(k)' \/ ~alive'[To(k)]
           \/ writer'[To(k)] = "stopped" /\ host'[k] \in Dead
    PROVE  Exchange(k)'
<1>1. To(k) \in Plugins /\ To(k)' = To(k)
    BY TokenFacts DEF To
<1>2. /\ ~alive[To(k)] => ~alive'[To(k)]
      /\ writer[To(k)] = "stopped" => writer'[To(k)] = "stopped"
    BY <1>1 DEF Onwards
<1>3. pc[k] \notin Unsent /\ Shared(k) => Shared(k)'
    BY SharedKept
<1>4. pc[k] \in Unsent => pc[k] \in Early
    BY DEF Early
<1>5. /\ mail[k] \in Tokens => pc[k] \notin Unsent
      /\ mail[k] = Gone => pc[k] \notin Unsent
    BY <1>4, TokenFacts DEF Exchange
<1>6. outcome[k] # "none" \/ pc[k] \in {"send", "wait", "ended"} => pc[k] \notin Unsent
    BY DEF Exchange, Unsent
<1>7. host'[k] \notin Dead => host[k] \notin Dead
    BY DEF Dead
<1>8. host[k] \in Dead => host'[k] = host[k]
    OBVIOUS
<1>9. host[k] \notin Dead => pc[k] \notin Unsent
    BY <1>6 DEF Exchange
<1>10. "over" \in Dead
    BY DEF Dead
<1>11. /\ pc'[k] \in Early => mail'[k] = Nobody /\ host'[k] \in Dead
       /\ outcome'[k] # "none" => pc'[k] = "ended"
       /\ host'[k] \notin Dead => pc'[k] \in {"wait", "ended"} /\ outcome'[k] # "refused"
       /\ mail'[k] = k => host'[k] = "over" /\ pc'[k] \in {"wait", "ended"}
       /\ outcome'[k] = "answered" => mail'[k] \in Tokens
    BY <1>7, <1>8, <1>10 DEF Exchange
<1>12. mail'[k] \in Tokens => mail'[k] = k \/ Shared(k)'
    BY <1>3, <1>5 DEF Exchange
<1>13. mail'[k] = Gone => ~alive'[To(k)]
    BY <1>2 DEF Exchange
<1>14. pc'[k] \in {"send", "wait"} /\ mail'[k] = Nobody /\ pending'[To(k)][req[k].cid] # k =>
         \/ Shared(k)' \/ ~alive'[To(k)]
         \/ writer'[To(k)] = "stopped" /\ host'[k] \in Dead
    BY <1>2, <1>3, <1>6, <1>8 DEF Exchange
<1>15. outcome'[k] = "disconnected" => Shared(k)' \/ ~alive'[To(k)] \/ writer'[To(k)] = "stopped"
    BY <1>2, <1>3, <1>6 DEF Exchange
<1>16. req'[k].verb = "request" /\ host'[k] \notin Dead =>
         pc'[k] = "wait" \/ outcome'[k] = "aborted" \/ Shared(k)' \/ ~alive'[To(k)]
    BY <1>2, <1>3, <1>7, <1>9 DEF Exchange
<1> QED BY <1>1, <1>11, <1>12, <1>13, <1>14, <1>15, <1>16, Zenon DEF Exchange

\* What runs beside an unload is no more than before, when nothing new starts to run.
LEMMA ApartKept ==
    ASSUME DispatchInv, Onwards,
           \A n \in Tokens : Leaving(n)' => Leaving(n),
           \A m \in Tokens : Running(m)' => Running(m)
    PROVE  Apart'
<1>1. SUFFICES ASSUME NEW n \in Tokens, NEW m \in Tokens, Leaving(n)', Running(m)', To(m)' = To(n)'
               PROVE  outcome'[m] = "aborted" \/ Shared(m)'
    BY DEF Apart
<1>2. Leaving(n) /\ Running(m)
    BY <1>1
<1>3. pc[n] \notin Unsent /\ pc[m] \notin Unsent
    BY <1>2 DEF DispatchInv, Exchange, Leaving, Running, Unsent
<1>4. To(m) = To(n)
    BY <1>1, <1>3 DEF Onwards, To
<1>5. outcome[m] = "aborted" \/ Shared(m)
    BY <1>2, <1>4 DEF DispatchInv, Apart
<1> QED BY <1>3, <1>5, SharedKept DEF Onwards

\* A cid taken by an exchange that had none yet.
LEMMA CountersKept ==
    ASSUME DispatchInv, pc' \in [Tokens -> Early \cup {"send", "wait", "ended"}],
           \A m \in Tokens : pc'[m] \in Unsent => pc[m] \in Unsent,
           NEXT_CID' \in Nat, cid' \in [Plugins -> Nat],
           \/ NEXT_CID' = NEXT_CID /\ cid' = cid
           \/ /\ \E n \in Tokens : pc[n] \in Unsent /\ pc'[n] \notin Unsent
              /\ NEXT_CID' <= NEXT_CID + 1 /\ \A p \in Plugins : cid'[p] <= cid[p] + 1
    PROVE  Counters'
<1>1. IsFiniteSet(Unserved) /\ Cardinality(Unserved) \in Nat
    <2>1. IsFiniteSet(Tokens)
        BY DispatchAssumption, FS_Interval DEF Tokens
    <2>2. Unserved \subseteq Tokens
        BY DEF Unserved
    <2> QED BY <2>1, <2>2, FS_Subset, FS_CardinalityType
<1>2. Unserved' \subseteq Unserved
    BY DEF Unserved
<1>3. Cardinality(Unserved') <= Cardinality(Unserved) /\ Cardinality(Unserved') \in Nat
    BY <1>1, <1>2, FS_Subset, FS_CardinalityType
<1>4. MaxTokens \in Nat /\ NEXT_CID \in Nat /\ cid \in [Plugins -> Nat]
    BY DispatchAssumption DEF DispatchInv, DispatchTypeOK
<1>5. CASE NEXT_CID' = NEXT_CID /\ cid' = cid
    BY <1>1, <1>3, <1>4, <1>5 DEF DispatchInv, Counters
<1>6. CASE /\ \E n \in Tokens : pc[n] \in Unsent /\ pc'[n] \notin Unsent
           /\ NEXT_CID' <= NEXT_CID + 1 /\ \A p \in Plugins : cid'[p] <= cid[p] + 1
    <2>1. PICK n \in Tokens : pc[n] \in Unsent /\ pc'[n] \notin Unsent
        BY <1>6
    <2>2. n \in Unserved /\ n \notin Unserved'
        BY <2>1 DEF Unserved
    <2>3. Unserved' \subseteq Unserved \ {n}
        BY <1>2, <2>2
    <2>4. Cardinality(Unserved \ {n}) = Cardinality(Unserved) - 1 /\ IsFiniteSet(Unserved \ {n})
        BY <1>1, <2>2, FS_RemoveElement
    <2>5. Cardinality(Unserved') <= Cardinality(Unserved) - 1
        BY <2>3, <2>4, FS_Subset
    <2> QED BY <1>1, <1>3, <1>4, <1>6, <2>5 DEF DispatchInv, Counters
<1> QED BY <1>5, <1>6

\* The next cid of a counter lies in Cids.
LEMMA NextCid ==
    ASSUME DispatchInv, NEW n \in Tokens, pc[n] \in Unsent
    PROVE  NEXT_CID \in Cids /\ 0 \in Cids /\ \A p \in Plugins : cid[p] \in Cids
<1>1. IsFiniteSet(Unserved) /\ Cardinality(Unserved) \in Nat
    <2>1. IsFiniteSet(Tokens)
        BY DispatchAssumption, FS_Interval DEF Tokens
    <2>2. Unserved \subseteq Tokens
        BY DEF Unserved
    <2> QED BY <2>1, <2>2, FS_Subset, FS_CardinalityType
<1>2. MaxTokens \in Nat /\ NEXT_CID \in Nat /\ cid \in [Plugins -> Nat]
    BY DispatchAssumption DEF DispatchInv, DispatchTypeOK
<1> QED BY <1>1, <1>2 DEF DispatchInv, Counters, Cids

-----------------------------------------------------------------------------
LEMMA DispatchInvInit == DispatchInit => DispatchInv
<1> SUFFICES ASSUME DispatchInit
             PROVE  DispatchInv
    OBVIOUS
<1>1. MaxTokens \in Nat /\ 0 \in Cids /\ Nobody \notin Tokens /\ Gone # Nobody
    BY DispatchAssumption DEF Cids, Tokens, Nobody, Gone
<1>2. NoReq \in Request
    <2>1. (CHOOSE p \in Plugins : TRUE) \in Plugins
        BY DispatchAssumption
    <2> QED BY <1>1, <2>1 DEF NoReq, Verbs, Request
<1>3. DispatchTypeOK
    <2>1. NEXT_CID \in Nat /\ cid \in [Plugins -> Nat]
        BY DEF DispatchInit
    <2>2. handle \in [Plugins -> BOOLEAN] /\ alive \in [Plugins -> BOOLEAN]
        BY DEF DispatchInit
    <2>3. /\ pending \in [Plugins -> [Cids -> Tokens \cup {Nobody}]]
          /\ writer \in [Plugins -> {"writing", "stopped"}]
        BY DEF DispatchInit
    <2>4. /\ pc \in [Tokens -> Early \cup {"send", "wait", "ended"}]
          /\ mail \in [Tokens -> Tokens \cup {Nobody, Gone}]
          /\ outcome \in [Tokens -> Outcomes] /\ host \in [Tokens -> Sides]
        BY DEF DispatchInit, Early, Unsent, Outcomes, Sides, Dead
    <2> QED BY <1>2, <2>1, <2>2, <2>3, <2>4 DEF DispatchInit, DispatchTypeOK
<1>4. Counters
    <2>1. Unserved = 1..MaxTokens
        BY DEF DispatchInit, Unserved, Unsent, Tokens
    <2>2. Cardinality(1..MaxTokens) = MaxTokens
        BY <1>1, FS_Interval
    <2> QED BY <1>1, <2>1, <2>2 DEF DispatchInit, Counters
<1>5. Indexed
    BY <1>1 DEF DispatchInit, Indexed
<1>6. ASSUME NEW n \in Tokens
      PROVE  /\ pc[n] = "new" /\ mail[n] = Nobody /\ host[n] = "none" /\ outcome[n] = "none"
             /\ req[n].verb = "request"
    BY DEF DispatchInit, NoReq
<1>7. Apart
    BY <1>6 DEF Apart, Leaving
<1>8. ASSUME NEW n \in Tokens
      PROVE  Exchange(n) /\ Guarded(n)
    <2>1. n # Nobody
        BY <1>1
    <2>2. Exchange(n)
        BY <1>1, <1>6, <2>1 DEF Exchange, Dead
    <2>3. Guarded(n)
        BY <1>6 DEF Guarded
    <2> QED BY <2>2, <2>3
<1> QED BY <1>3, <1>4, <1>5, <1>7, <1>8 DEF DispatchInv

-----------------------------------------------------------------------------
\* A step of the plugin's side alone.
LEMMA HostMoves ==
    ASSUME DispatchInv, UNCHANGED <<NEXT_CID, cid, handle, alive, pending, writer, callVars>>,
           host' \in [Tokens -> Sides],
           \A k \in Tokens : host'[k] = host[k] \/ (host[k] \notin Dead /\ host'[k] # "none")
    PROVE  DispatchInv'
<1>1. /\ NEXT_CID' = NEXT_CID /\ cid' = cid /\ handle' = handle /\ alive' = alive
      /\ pending' = pending /\ writer' = writer /\ req' = req /\ pc' = pc /\ mail' = mail
      /\ outcome' = outcome
    BY DEF callVars
<1>2. DispatchTypeOK'
    BY <1>1 DEF DispatchInv, DispatchTypeOK
<1>3. Onwards
    BY <1>1 DEF Onwards
<1>4. Counters' /\ Indexed'
    BY <1>1 DEF DispatchInv, Counters, Unserved, Indexed, To
<1>5. \A k \in Tokens : (Leaving(k)' => Leaving(k)) /\ (Running(k)' => Running(k))
    BY <1>1 DEF Leaving, Running
<1>6. Apart'
    BY <1>3, <1>5, ApartKept
<1>7. \A k \in Tokens : Exchange(k)'
    BY <1>1, <1>3, Bystander DEF DispatchInv
<1>8. \A k \in Tokens : Guarded(k)'
    BY <1>1 DEF DispatchInv, Guarded, To
<1> QED BY <1>2, <1>4, <1>6, <1>7, <1>8 DEF DispatchInv

LEMMA HostStepsKeep ==
    ASSUME DispatchInv, NEW n \in Tokens,
           \/ reader_loop_serve(n) \/ dispatch_loop(n) \/ handle_frame(n)
           \/ dispatch_handle_request(n) \/ ForwardResponse(n)
    PROVE  DispatchInv'
<1>1. host \in [Tokens -> Sides]
    BY DEF DispatchInv, DispatchTypeOK
<1>2. ASSUME NEW m \in Tokens, NEW where \in Sides \ {"none"}, host[m] \notin Dead,
             host' = [host EXCEPT ![m] = where],
             UNCHANGED <<NEXT_CID, cid, handle, alive, pending, writer, callVars>>
      PROVE  DispatchInv'
    <2>1. host' \in [Tokens -> Sides]
        BY <1>1, <1>2
    <2>2. \A k \in Tokens : host'[k] = host[k] \/ (host[k] \notin Dead /\ host'[k] # "none")
        BY <1>1, <1>2
    <2> QED BY <1>2, <2>1, <2>2, HostMoves
<1>3. CASE reader_loop_serve(n)
    <2>1. \E where \in Sides \ {"none"} : host' = [host EXCEPT ![n] = where] /\ host[n] \notin Dead
        BY <1>3 DEF reader_loop_serve, Sides, Dead
    <2>2. UNCHANGED <<NEXT_CID, cid, handle, alive, pending, writer, callVars>>
        BY <1>3 DEF reader_loop_serve, routerVars, clientVars
    <2> QED BY <1>2, <2>1, <2>2, Zenon
<1>4. CASE dispatch_loop(n)
    <2>1. \E where \in Sides \ {"none"} : host' = [host EXCEPT ![n] = where] /\ host[n] \notin Dead
        BY <1>4, Zenon DEF dispatch_loop, Sides, Dead
    <2>2. UNCHANGED <<NEXT_CID, cid, handle, alive, pending, writer, callVars>>
        BY <1>4 DEF dispatch_loop, routerVars, clientVars
    <2> QED BY <1>2, <2>1, <2>2, Zenon
<1>5. CASE handle_frame(n)
    <2>1. \E where \in Sides \ {"none"} : host' = [host EXCEPT ![n] = where] /\ host[n] \notin Dead
        BY <1>5, Zenon DEF handle_frame, Sides, Dead
    <2>2. UNCHANGED <<NEXT_CID, cid, handle, alive, pending, writer, callVars>>
        BY <1>5 DEF handle_frame, routerVars, clientVars
    <2> QED BY <1>2, <2>1, <2>2, Zenon
<1>6. CASE dispatch_handle_request(n)
    <2>1. \E where \in Sides \ {"none"} : host' = [host EXCEPT ![n] = where] /\ host[n] \notin Dead
        BY <1>6 DEF dispatch_handle_request, Sides, Dead
    <2>2. UNCHANGED <<NEXT_CID, cid, handle, alive, pending, writer, callVars>>
        BY <1>6 DEF dispatch_handle_request, routerVars, clientVars
    <2> QED BY <1>2, <2>1, <2>2, Zenon
<1>7. CASE ForwardResponse(n)
    <2> DEFINE m == req[n].parent
    <2>1. m \in Tokens
        BY <1>7, TokenFacts DEF ForwardResponse, DispatchInv
    <2>2. \E where \in Sides \ {"none"} : host' = [host EXCEPT ![m] = where] /\ host[m] \notin Dead
        BY <1>7, Zenon DEF ForwardResponse, Sides, Dead
    <2>3. UNCHANGED <<NEXT_CID, cid, handle, alive, pending, writer, callVars>>
        BY <1>7 DEF ForwardResponse, routerVars
    <2> QED BY <1>2, <2>1, <2>2, <2>3, Zenon
<1> QED BY <1>3, <1>4, <1>5, <1>6, <1>7

LEMMA DieKeeps ==
    ASSUME DispatchInv, NEW p \in Plugins, Die(p)
    PROVE  DispatchInv'
<1>1. host \in [Tokens -> Sides]
    BY DEF DispatchInv, DispatchTypeOK
<1>2. PICK lost \in SUBSET At(p, {"replied", "asked"}) :
        host' = [n \in Tokens |->
                   IF n \in lost \cup At(p, {"held", "handoff", "barrier", "spawned", "run"})
                   THEN "over" ELSE host[n]]
    BY DEF Die
<1>3. \A n \in lost \cup At(p, {"held", "handoff", "barrier", "spawned", "run"}) : host[n] \notin Dead
    BY DEF At, Dead
<1>4. host' \in [Tokens -> Sides]
    BY <1>1, <1>2 DEF Sides, Dead
<1>5. \A k \in Tokens : host'[k] = host[k] \/ (host[k] \notin Dead /\ host'[k] # "none")
    BY <1>2, <1>3
<1>6. UNCHANGED <<NEXT_CID, cid, handle, alive, pending, writer, callVars>>
    BY DEF Die, routerVars, clientVars
<1> QED BY <1>4, <1>5, <1>6, HostMoves

-----------------------------------------------------------------------------
\* A step of one caller, past the router's lookup.
LEMMA CallMoves ==
    ASSUME DispatchInv, NEW n \in Tokens, pc[n] \notin Unsent,
           UNCHANGED <<NEXT_CID, cid, handle, alive, writer, req, mail>>,
           NEW where \in {"register", "send", "wait", "ended"}, NEW told \in Outcomes \ {"refused"},
           NEW side \in Sides,
           pc' = [pc EXCEPT ![n] = where], outcome' = [outcome EXCEPT ![n] = told],
           host' = [host EXCEPT ![n] = side], outcome[n] = "none",
           pending' \in [Plugins -> [Cids -> Tokens \cup {Nobody}]], Indexed',
           \A k \in Tokens \ {n} :
             \/ pending'[To(k)][req[k].cid] = pending[To(k)][req[k].cid]
             \/ To(k) = To(n) /\ req[k].cid = req[n].cid,
           Exchange(n)', Guarded(n)',
           Leaving(n)' => Leaving(n) \/ Apart', Running(n)' => Running(n) \/ Apart'
    PROVE  DispatchInv'
<1>1. /\ NEXT_CID' = NEXT_CID /\ cid' = cid /\ handle' = handle /\ alive' = alive
      /\ writer' = writer /\ req' = req /\ mail' = mail
    BY Zenon
<1>2. /\ pc \in [Tokens -> Early \cup {"send", "wait", "ended"}]
      /\ outcome \in [Tokens -> Outcomes] /\ host \in [Tokens -> Sides]
    BY DEF DispatchInv, DispatchTypeOK
<1>3. pc' \in [Tokens -> Early \cup {"send", "wait", "ended"}]
    BY <1>2 DEF Early
<1>4. DispatchTypeOK'
    BY <1>1, <1>2, <1>3 DEF DispatchInv, DispatchTypeOK
<1>5. \A k \in Tokens \ {n} : pc'[k] = pc[k] /\ outcome'[k] = outcome[k] /\ host'[k] = host[k]
    BY <1>2
<1>6. pc'[n] = where /\ outcome'[n] = told /\ where \notin Unsent /\ host'[n] = side
    BY <1>2 DEF Unsent
<1>7. Onwards
    BY <1>1, <1>5, <1>6 DEF Onwards
<1>8. Counters'
    BY <1>1, <1>3, <1>5, <1>6, CountersKept, Zenon DEF DispatchInv, DispatchTypeOK
<1>9. ASSUME NEW k \in Tokens
      PROVE  Exchange(k)'
    <2>1. CASE k = n
        BY <2>1
    <2>2. CASE k # n
        <3>1. To(k) = To(n) /\ req[k].cid = req[n].cid => Shared(k)'
            BY <1>1, <1>6, <2>2, SharedThen, Zenon DEF To
        <3> QED BY <1>1, <1>5, <1>7, <2>2, <3>1, Bystander, Zenon DEF DispatchInv
    <2> QED BY <2>1, <2>2, Zenon
<1>10. ASSUME NEW k \in Tokens
       PROVE  Guarded(k)'
    <2>1. CASE k = n
        BY <2>1
    <2>2. CASE k # n
        BY <1>1, <1>5, <2>2, GuardedOther, Zenon
    <2> QED BY <2>1, <2>2, Zenon
<1>11. Apart'
    <2>1. \A k \in Tokens \ {n} : (Leaving(k)' => Leaving(k)) /\ (Running(k)' => Running(k))
        BY <1>1, <1>5, Zenon DEF Leaving, Running
    <2>2. CASE (Leaving(n)' => Leaving(n)) /\ (Running(n)' => Running(n))
        BY <1>7, <2>1, <2>2, ApartKept, Zenon
    <2> QED BY <2>2
<1> QED BY <1>4, <1>8, <1>9, <1>10, <1>11 DEF DispatchInv

LEMMA ReadGuardKeeps ==
    ASSUME DispatchInv, NEW n \in Tokens, ReadGuard(n)
    PROVE  DispatchInv'
<1>1. /\ pc[n] = "guard" /\ pending' = pending /\ host' = host /\ req' = req /\ mail' = mail
      /\ handle' = handle /\ alive' = alive /\ writer' = writer
      /\ UNCHANGED <<NEXT_CID, cid, handle, alive, writer, req, mail>>
    BY DEF ReadGuard, routerVars, clientVars
<1>2. /\ Exchange(n) /\ Guarded(n) /\ Indexed
      /\ pc \in [Tokens -> Early \cup {"send", "wait", "ended"}]
      /\ outcome \in [Tokens -> Outcomes] /\ host \in [Tokens -> Sides]
      /\ pending \in [Plugins -> [Cids -> Tokens \cup {Nobody}]]
    BY DEF DispatchInv, DispatchTypeOK
<1>3. /\ outcome[n] = "none" /\ mail[n] = Nobody /\ host[n] \in Dead
      /\ req[n].verb = "request" /\ Nobody # n /\ Nobody # Gone /\ Nobody \notin Tokens
    BY <1>1, <1>2, TokenFacts, Zenon DEF DispatchInv, Exchange, Guarded, Early
<1>4. PICK where \in {"register", "ended"}, told \in {"none", "unloaded"} :
        /\ pc' = [pc EXCEPT ![n] = where] /\ outcome' = [outcome EXCEPT ![n] = told]
        /\ where = "register" => handle[To(n)] /\ told = "none"
    <2>1. CASE handle[To(n)]
        BY <1>2, <1>3, <2>1, Zenon DEF ReadGuard, Step
    <2>2. CASE ~handle[To(n)]
        BY <2>2 DEF ReadGuard, End
    <2> QED BY <2>1, <2>2
<1>5. host' = [host EXCEPT ![n] = host[n]] /\ host[n] \in Sides
    BY <1>1, <1>2
<1>6. pc'[n] = where /\ outcome'[n] = told
    BY <1>2, <1>4
<1>7. \A k \in Tokens \ {n} : pc'[k] = pc[k]
    BY <1>2, <1>4
<1>8. Indexed'
    BY <1>1, <1>2, <1>7 DEF Indexed, To, Early
<1>9. Exchange(n)'
    BY <1>1, <1>3, <1>4, <1>6 DEF Exchange
<1>10. Guarded(n)'
    BY <1>1, <1>3, <1>4, <1>6 DEF Guarded, To
<1>11. ~Leaving(n)' /\ ~Running(n)'
    BY <1>1, <1>3 DEF Leaving, Running
<1>12. pc[n] \notin Unsent /\ told \in Outcomes \ {"refused"}
    BY <1>1 DEF Unsent, Outcomes
<1> QED BY <1>1, <1>2, <1>3, <1>4, <1>5, <1>8, <1>9, <1>10, <1>11, <1>12, CallMoves, Zenon

LEMMA RegisterKeeps ==
    ASSUME DispatchInv, NEW n \in Tokens, Register(n)
    PROVE  DispatchInv'
<1> DEFINE p == To(n)
           c == req[n].cid
<1>1. /\ pc[n] = "register" /\ host' = host /\ req' = req /\ mail' = mail
      /\ handle' = handle /\ alive' = alive /\ writer' = writer
      /\ UNCHANGED <<NEXT_CID, cid, handle, alive, writer, req, mail>>
    BY DEF Register, routerVars
<1>2. /\ Exchange(n) /\ Guarded(n) /\ Indexed
      /\ pc \in [Tokens -> Early \cup {"send", "wait", "ended"}]
      /\ outcome \in [Tokens -> Outcomes] /\ host \in [Tokens -> Sides]
      /\ pending \in [Plugins -> [Cids -> Tokens \cup {Nobody}]]
    BY DEF DispatchInv, DispatchTypeOK
<1>3. /\ outcome[n] = "none" /\ mail[n] = Nobody /\ host[n] \in Dead
      /\ p \in Plugins /\ c \in Cids
      /\ Nobody # n /\ Nobody # Gone /\ Nobody \notin Tokens
    BY <1>1, <1>2, TokenFacts, Zenon DEF DispatchInv, Exchange, Early
<1>4. host' = [host EXCEPT ![n] = host[n]] /\ host[n] \in Sides /\ pc[n] \notin Unsent
    BY <1>1, <1>2 DEF Unsent
<1>5. ~Running(n)'
    BY <1>1, <1>3, Zenon DEF Running
<1>6. CASE alive[p]
    <2>1. /\ pending' = [pending EXCEPT ![p][c] = n] /\ pc' = [pc EXCEPT ![n] = "send"]
          /\ outcome' = outcome
        BY <1>6 DEF Register, Step
    <2>2. /\ pc'[n] = "send" /\ outcome'[n] = "none" /\ outcome' = [outcome EXCEPT ![n] = "none"]
          /\ pc' = [pc EXCEPT ![n] = "send"]
          /\ \A k \in Tokens \ {n} : pc'[k] = pc[k]
        BY <1>2, <1>3, <2>1
    <2>3. /\ pending' \in [Plugins -> [Cids -> Tokens \cup {Nobody}]] /\ pending'[p][c] = n
          /\ \A q \in Plugins, d \in Cids : ~(q = p /\ d = c) => pending'[q][d] = pending[q][d]
        BY <1>2, <1>3, <2>1
    <2>4. Indexed'
        <3>1. SUFFICES ASSUME NEW q \in Plugins, NEW d \in Cids, NEW k \in Tokens,
                              pending'[q][d] = k
                       PROVE  To(k) = q /\ req[k].cid = d /\ pc'[k] \notin Early /\ mail[k] = Nobody
            BY <1>1 DEF Indexed, To
        <3>2. CASE q = p /\ d = c
            BY <1>3, <2>2, <2>3, <3>1, <3>2 DEF Early, Unsent
        <3>3. CASE ~(q = p /\ d = c)
            <4>1. /\ To(k) = q /\ req[k].cid = d /\ pc[k] \notin Early /\ mail[k] = Nobody
                BY <1>2, <2>3, <3>1, <3>3 DEF Indexed
            <4>2. k # n
                BY <1>1, <4>1 DEF Early
            <4> QED BY <2>2, <4>1, <4>2
        <3> QED BY <3>2, <3>3
    <2>5. \A k \in Tokens \ {n} :
            \/ pending'[To(k)][req[k].cid] = pending[To(k)][req[k].cid]
            \/ To(k) = p /\ req[k].cid = c
        <3>1. OnlyPlace(p, c)
            BY <2>3, Zenon DEF OnlyPlace
        <3> HIDE DEF p, c
        <3> QED BY <3>1, OtherPlaces, Zenon
    <2>6. Exchange(n)'
        BY <1>1, <1>3, <2>2, <2>3, Zenon DEF Exchange, To, Early, Unsent
    <2>7. Guarded(n)'
        BY <1>1, <1>2, <2>2, Zenon DEF Guarded, To
    <2>8. Apart'
        <3>1. Onwards
            BY <1>1, <1>4, <2>1, <2>2 DEF Onwards, Unsent
        <3>2. SUFFICES ASSUME NEW u \in Tokens, NEW m \in Tokens, Leaving(u)', Running(m)',
                              To(m)' = To(u)'
                       PROVE  outcome'[m] = "aborted" \/ Shared(m)'
            BY DEF Apart
        <3>3. m # n /\ Running(m) /\ To(m) = To(u)
            BY <1>1, <1>5, <3>2 DEF Running, To
        <3>4. pc[m] \notin Unsent
            BY <3>3, Zenon DEF DispatchInv, Exchange, Running, Unsent
        <3>5. CASE u # n
            <4>1. Leaving(u)
                BY <1>1, <2>2, <3>2, <3>5 DEF Leaving
            <4>2. outcome[m] = "aborted" \/ Shared(m)
                BY <3>3, <4>1 DEF DispatchInv, Apart
            <4> QED BY <3>1, <3>4, <4>2, SharedKept, Zenon DEF Onwards
        <3>6. CASE u = n
            <4>1. ~handle[p]
                BY <1>1, <1>2, <3>2, <3>6 DEF Leaving, Guarded
            <4>2. To(m) = p
                BY <3>3, <3>6
            <4>3. pc[m] # "wait"
                BY <3>3, <4>1, <4>2 DEF DispatchInv, Guarded, Running
            <4>4. outcome[m] = "aborted" \/ Shared(m)
                BY <1>6, <3>3, <4>2, <4>3 DEF DispatchInv, Exchange, Running
            <4> QED BY <3>1, <3>4, <4>4, SharedKept DEF Onwards
        <3> QED BY <3>5, <3>6
    <2>9. "none" \in Outcomes \ {"refused"}
        BY DEF Outcomes
    <2> HIDE DEF p, c
    <2> QED BY <1>1, <1>3, <1>4, <2>2, <2>3, <2>4, <2>5, <2>6, <2>7, <2>8, <2>9, CallMoves, Zenon DEF p, c
<1>7. CASE ~alive[p]
    <2>1. /\ pending' = pending /\ pc' = [pc EXCEPT ![n] = "ended"]
          /\ outcome' = [outcome EXCEPT ![n] = "disconnected"]
        BY <1>7 DEF Register, End
    <2>2. /\ pc'[n] = "ended" /\ outcome'[n] = "disconnected"
          /\ \A k \in Tokens \ {n} : pc'[k] = pc[k]
        BY <1>2, <2>1
    <2>3. Indexed'
        <3>1. "ended" \notin Early /\ "wait" \notin Early
            BY DEF Early, Unsent
        <3> QED BY <1>1, <2>1, <2>2, <3>1, IndexedKept, Zenon
    <2>4. Exchange(n)'
        BY <1>1, <1>3, <1>7, <2>2, Zenon DEF Exchange, To, Early, Unsent
    <2>5. Guarded(n)'
        BY <1>1, <1>2, <2>2, Zenon DEF Guarded, To
    <2>6. ~Leaving(n)'
        BY <1>1, <1>3, <2>2, Zenon DEF Leaving
    <2>7. "disconnected" \in Outcomes \ {"refused"}
        BY DEF Outcomes
    <2> HIDE DEF p, c
    <2> QED BY <1>1, <1>2, <1>3, <1>4, <1>5, <2>1, <2>3, <2>4, <2>5, <2>6, <2>7, CallMoves, Zenon
<1> QED BY <1>6, <1>7

LEMMA SendKeeps ==
    ASSUME DispatchInv, NEW n \in Tokens, Send(n)
    PROVE  DispatchInv'
<1> DEFINE p == To(n)
           c == req[n].cid
<1>1. /\ pc[n] = "send" /\ req' = req /\ mail' = mail
      /\ handle' = handle /\ alive' = alive /\ writer' = writer
      /\ UNCHANGED <<NEXT_CID, cid, handle, alive, writer, req, mail>>
    BY DEF Send, routerVars
<1>2. /\ Exchange(n) /\ Guarded(n) /\ Indexed
      /\ pc \in [Tokens -> Early \cup {"send", "wait", "ended"}]
      /\ outcome \in [Tokens -> Outcomes] /\ host \in [Tokens -> Sides]
      /\ pending \in [Plugins -> [Cids -> Tokens \cup {Nobody}]]
      /\ writer \in [Plugins -> {"writing", "stopped"}]
    BY DEF DispatchInv, DispatchTypeOK
<1>3. /\ outcome[n] = "none" /\ mail[n] # n /\ host[n] \in Dead
      /\ p \in Plugins /\ c \in Cids
      /\ Nobody # n /\ Nobody # Gone /\ Nobody \notin Tokens
    BY <1>1, <1>2, TokenFacts, Zenon DEF DispatchInv, Exchange
<1>4. pc[n] \notin Unsent /\ pc[n] \notin Early
    BY <1>1 DEF Unsent, Early
<1>5. CASE writer[p] = "writing"
    <2>1. /\ host' = [host EXCEPT ![n] = "out"] /\ pc' = [pc EXCEPT ![n] = "wait"]
          /\ outcome' = outcome /\ pending' = pending
        BY <1>5 DEF Send, Step
    <2>2. /\ pc'[n] = "wait" /\ outcome'[n] = "none" /\ outcome' = [outcome EXCEPT ![n] = "none"]
          /\ host'[n] = "out" /\ \A k \in Tokens \ {n} : pc'[k] = pc[k] /\ host'[k] = host[k]
        BY <1>2, <1>3, <2>1
    <2>3. Indexed'
        <3>1. "ended" \notin Early /\ "wait" \notin Early
            BY DEF Early, Unsent
        <3> QED BY <1>1, <2>1, <2>2, <3>1, IndexedKept, Zenon
    <2>4. Onwards
        BY <1>1, <1>4, <2>1, <2>2 DEF Onwards, Unsent
    <2>5. Shared(n) => Shared(n)'
        BY <1>4, <2>4, SharedKept
    <2>6. Exchange(n)'
        BY <1>1, <1>2, <1>3, <1>5, <2>1, <2>2, <2>5, Zenon DEF Exchange, To, Early, Unsent
    <2>7. Guarded(n)'
        BY <1>1, <1>2, <2>2 DEF Guarded, To
    <2>8. Leaving(n)' => Leaving(n)
        BY <1>1 DEF Leaving
    <2>9. ASSUME Running(n)'
          PROVE  Apart'
        <3>1. SUFFICES ASSUME NEW u \in Tokens, NEW m \in Tokens, Leaving(u)', Running(m)',
                              To(m)' = To(u)'
                       PROVE  outcome'[m] = "aborted" \/ Shared(m)'
            BY DEF Apart
        <3>2. req[n].verb = "request" /\ handle[p]
            BY <1>1, <1>2, <2>9 DEF Running, Guarded
        <3>3. u # n /\ Leaving(u) /\ To(m) = To(u)
            BY <1>1, <2>2, <3>1, <3>2 DEF Leaving, To
        <3>4. ~handle[To(u)]
            <4>1. pc[u] # "write"
                BY <3>3 DEF DispatchInv, Exchange, Leaving
            <4> QED BY <3>3, <4>1 DEF DispatchInv, Guarded, Leaving
        <3>5. m # n
            BY <3>2, <3>3, <3>4
        <3>6. Running(m)
            BY <1>1, <2>2, <3>1, <3>5 DEF Running
        <3>7. pc[m] \notin Unsent
            BY <3>6 DEF DispatchInv, Exchange, Running, Unsent
        <3>8. outcome[m] = "aborted" \/ Shared(m)
            BY <3>3, <3>6 DEF DispatchInv, Apart
        <3> QED BY <2>4, <3>7, <3>8, SharedKept DEF Onwards
    <2>10. "none" \in Outcomes \ {"refused"} /\ "out" \in Sides
        BY DEF Outcomes, Sides
    <2> HIDE DEF p, c
    <2> QED BY <1>1, <1>2, <1>3, <1>4, <2>1, <2>2, <2>3, <2>6, <2>7, <2>8, <2>9, <2>10, CallMoves, Zenon
<1>6. CASE writer[p] # "writing"
    <2>1. /\ pending' = [pending EXCEPT ![p][c] = Nobody] /\ pc' = [pc EXCEPT ![n] = "ended"]
          /\ outcome' = [outcome EXCEPT ![n] = "disconnected"] /\ host' = host
        BY <1>6 DEF Send, End
    <2>2. /\ pc'[n] = "ended" /\ outcome'[n] = "disconnected"
          /\ host' = [host EXCEPT ![n] = host[n]] /\ host[n] \in Sides
          /\ \A k \in Tokens \ {n} : pc'[k] = pc[k]
        BY <1>2, <2>1
    <2>3. /\ pending' \in [Plugins -> [Cids -> Tokens \cup {Nobody}]] /\ pending'[p][c] = Nobody
          /\ \A q \in Plugins, d \in Cids : ~(q = p /\ d = c) => pending'[q][d] = pending[q][d]
        BY <1>2, <1>3, <2>1
    <2>4. Indexed'
        <3>1. "ended" \notin Early
            BY DEF Early, Unsent
        <3>2. \A k \in Tokens : pc[k] \notin Early => pc'[k] \notin Early
            BY <2>2, <3>1, Zenon
        <3>3. \A q \in Plugins, d \in Cids :
                pending'[q][d] = pending[q][d] \/ pending'[q][d] = Nobody
            BY <2>3, Zenon
        <3> QED BY <1>1, <3>2, <3>3, IndexedKept, Zenon
    <2>5. \A k \in Tokens \ {n} :
            \/ pending'[To(k)][req[k].cid] = pending[To(k)][req[k].cid]
            \/ To(k) = p /\ req[k].cid = c
        <3>1. OnlyPlace(p, c)
            BY <2>3, Zenon DEF OnlyPlace
        <3> HIDE DEF p, c
        <3> QED BY <3>1, OtherPlaces, Zenon
    <2>6. writer[p] = "stopped"
        BY <1>2, <1>3, <1>6
    <2>7. Onwards
        BY <1>1, <1>3, <1>4, <2>1, <2>2 DEF Onwards, Unsent
    <2>8. Shared(n) => Shared(n)'
        BY <1>4, <2>7, SharedKept
    <2>9. Exchange(n)'
        BY <1>1, <1>2, <1>3, <2>1, <2>2, <2>6, <2>8, Zenon DEF Exchange, To, Early, Unsent
    <2>10. Guarded(n)'
        BY <1>1, <1>2, <2>2 DEF Guarded, To
    <2>11. ~Leaving(n)' /\ ~Running(n)'
        BY <1>1, <1>3, <2>1, <2>2 DEF Leaving, Running
    <2>12. "disconnected" \in Outcomes \ {"refused"}
        BY DEF Outcomes
    <2> HIDE DEF p, c
    <2> QED BY <1>1, <1>2, <1>3, <1>4, <2>1, <2>2, <2>3, <2>4, <2>5, <2>9, <2>10, <2>11, <2>12, CallMoves, Zenon DEF p, c
<1> QED BY <1>5, <1>6

LEMMA WakeKeeps ==
    ASSUME DispatchInv, NEW n \in Tokens, Wake(n)
    PROVE  DispatchInv'
<1> DEFINE p == To(n)
           c == req[n].cid
<1>1. /\ pc[n] = "wait" /\ req' = req /\ mail' = mail /\ host' = host
      /\ handle' = handle /\ alive' = alive /\ writer' = writer
      /\ UNCHANGED <<NEXT_CID, cid, handle, alive, writer, req, mail>>
    BY DEF Wake, routerVars
<1>2. /\ Exchange(n) /\ Guarded(n) /\ Indexed
      /\ pc \in [Tokens -> Early \cup {"send", "wait", "ended"}]
      /\ outcome \in [Tokens -> Outcomes] /\ host \in [Tokens -> Sides]
      /\ pending \in [Plugins -> [Cids -> Tokens \cup {Nobody}]]
    BY DEF DispatchInv, DispatchTypeOK
<1>3. /\ outcome[n] = "none" /\ p \in Plugins /\ c \in Cids
      /\ mail[n] \in Tokens \cup {Nobody, Gone}
      /\ Nobody # n /\ Nobody # Gone /\ Nobody \notin Tokens /\ Gone \notin Tokens
    BY <1>1, <1>2, TokenFacts, Zenon DEF DispatchInv, Exchange
<1>4. pc[n] \notin Unsent
    BY <1>1 DEF Unsent
<1>5. PICK told \in {"answered", "disconnected"} :
        /\ pc' = [pc EXCEPT ![n] = "ended"] /\ outcome' = [outcome EXCEPT ![n] = told]
        /\ \/ pending' = pending /\ told = "answered" /\ mail[n] \in Tokens
           \/ pending' = pending /\ told = "disconnected" /\ mail[n] = Gone
           \/ /\ mail[n] = Nobody /\ pending[p][c] # n /\ told = "disconnected"
              /\ pending' = [pending EXCEPT ![p][c] = Nobody]
    <2>1. CASE mail[n] \in Tokens
        BY <1>3, <2>1 DEF Wake, End
    <2>2. CASE mail[n] = Gone
        BY <1>3, <2>2 DEF Wake, End
    <2>3. CASE mail[n] = Nobody
        BY <1>3, <2>3 DEF Wake, End
    <2> QED BY <1>3, <2>1, <2>2, <2>3
<1>6. /\ pc'[n] = "ended" /\ outcome'[n] = told
      /\ host' = [host EXCEPT ![n] = host[n]] /\ host[n] \in Sides
      /\ \A k \in Tokens \ {n} : pc'[k] = pc[k] /\ outcome'[k] = outcome[k]
    BY <1>1, <1>2, <1>5
<1>7. /\ pending' \in [Plugins -> [Cids -> Tokens \cup {Nobody}]]
      /\ pending'[p][c] = pending[p][c] \/ pending'[p][c] = Nobody
      /\ \A q \in Plugins, d \in Cids : ~(q = p /\ d = c) => pending'[q][d] = pending[q][d]
    <2>1. CASE pending' = pending
        BY <1>2, <2>1
    <2>2. CASE pending' = [pending EXCEPT ![p][c] = Nobody]
        BY <1>2, <1>3, <2>2
    <2> QED BY <1>5, <2>1, <2>2
<1>8. Indexed'
    <2>1. "ended" \notin Early
        BY DEF Early, Unsent
    <2>2. \A k \in Tokens : pc[k] \notin Early => pc'[k] \notin Early
        BY <1>6, <2>1, Zenon
    <2>3. \A q \in Plugins, d \in Cids :
            pending'[q][d] = pending[q][d] \/ pending'[q][d] = Nobody
        BY <1>7, Zenon
    <2> QED BY <1>1, <2>2, <2>3, IndexedKept, Zenon
<1>9. \A k \in Tokens \ {n} :
        \/ pending'[To(k)][req[k].cid] = pending[To(k)][req[k].cid]
        \/ To(k) = p /\ req[k].cid = c
    <2>1. OnlyPlace(p, c)
        BY <1>7, Zenon DEF OnlyPlace
    <2> HIDE DEF p, c
    <2> QED BY <2>1, OtherPlaces, Zenon
<1>10. Onwards
    BY <1>1, <1>3, <1>4, <1>5, <1>6 DEF Onwards, Unsent
<1>11. Shared(n) => Shared(n)'
    BY <1>4, <1>10, SharedKept
<1>12. Exchange(n)'
    <2>1. /\ mail[n] \in Tokens => mail[n] = n \/ Shared(n)'
          /\ mail[n] = Gone => ~alive[p]
          /\ mail[n] = n => host[n] = "over"
        BY <1>2, <1>11, Zenon DEF Exchange
    <2>2. mail[n] = Nobody => \/ Shared(n)' \/ ~alive[p]
                              \/ writer[p] = "stopped" /\ host[n] \in Dead
        BY <1>1, <1>2, <1>3, <1>5, <1>11, Zenon DEF Exchange
    <2>3. "over" \in Dead
        BY DEF Dead
    <2>4. /\ pc'[n] = "ended" /\ "ended" \notin Early /\ To(n)' = p /\ mail'[n] = mail[n]
          /\ alive' = alive /\ writer' = writer /\ host'[n] = host[n] /\ req' = req
          /\ outcome'[n] = told /\ told \in {"answered", "disconnected"}
        BY <1>1, <1>5, <1>6 DEF To, Early, Unsent
    <2>5. /\ told = "answered" => mail[n] \in Tokens
          /\ told = "disconnected" => Shared(n)' \/ ~alive[p] \/ writer[p] = "stopped"
        BY <1>3, <1>5, <2>1, <2>2, Zenon
    <2>6. req[n].verb = "request" /\ host[n] \notin Dead => Shared(n)' \/ ~alive[p]
        BY <1>3, <1>5, <2>1, <2>2, <2>3, Zenon
    <2> HIDE DEF p, c
    <2> QED BY <2>1, <2>3, <2>4, <2>5, <2>6, Zenon DEF Exchange
<1>13. Guarded(n)'
    BY <1>1, <1>2, <1>6, Zenon DEF Guarded, To
<1>14. (Leaving(n)' => Leaving(n)) /\ (Running(n)' => Running(n))
    BY <1>1, <1>6 DEF Leaving, Running
<1>15. told \in Outcomes \ {"refused"}
    BY DEF Outcomes
<1> HIDE DEF p, c
<1> QED BY <1>1, <1>3, <1>4, <1>5, <1>6, <1>7, <1>8, <1>9, <1>12, <1>13, <1>14, <1>15, CallMoves, Zenon
        DEF p, c

-----------------------------------------------------------------------------
\* A step that starts an exchange, or hands one that had no cid to the router.
LEMMA StartMoves ==
    ASSUME DispatchInv, NEW n \in Tokens, pc[n] \in Unsent,
           UNCHANGED <<alive, pending, writer, mail>>,
           NEXT_CID' \in Nat, cid' \in [Plugins -> Nat], handle' \in [Plugins -> BOOLEAN],
           NEW r \in Request, NEW where \in {"guard", "asked", "write", "register", "ended"},
           NEW told \in {"none", "refused"},
           req' = [req EXCEPT ![n] = r], pc' = [pc EXCEPT ![n] = where],
           outcome' = [outcome EXCEPT ![n] = told], host' \in [Tokens -> Sides],
           \A k \in Tokens \ {n} :
             host'[k] = host[k] \/ (host[k] \notin Dead /\ host'[k] # "none"),
           host'[n] = host[n] \/ (host'[n] = "out" /\ where = "ended" /\ r.verb = "push"
                                  /\ told = "none"),
           told = "refused" => where = "ended",
           Counters', \A k \in Tokens : Guarded(k)'
    PROVE  DispatchInv'
<1>1. alive' = alive /\ pending' = pending /\ writer' = writer /\ mail' = mail
    OBVIOUS
<1>2. /\ pc \in [Tokens -> Early \cup {"send", "wait", "ended"}]
      /\ outcome \in [Tokens -> Outcomes] /\ req \in [Tokens -> Request]
    BY DEF DispatchInv, DispatchTypeOK
<1>3. /\ pc' \in [Tokens -> Early \cup {"send", "wait", "ended"}]
      /\ outcome' \in [Tokens -> Outcomes] /\ req' \in [Tokens -> Request]
    BY <1>2 DEF Early, Unsent, Outcomes
<1>4. DispatchTypeOK'
    BY <1>1, <1>3, Zenon DEF DispatchInv, DispatchTypeOK
<1>5. \A k \in Tokens \ {n} : pc'[k] = pc[k] /\ outcome'[k] = outcome[k] /\ req'[k] = req[k]
    BY <1>2
<1>6. pc'[n] = where /\ outcome'[n] = told /\ req'[n] = r
    BY <1>2
<1>7. Onwards
    BY <1>1, <1>5 DEF Onwards
<1>8. mail[n] = Nobody /\ host[n] \in Dead /\ Nobody # n /\ Nobody # Gone /\ Nobody \notin Tokens
    BY TokenFacts, Zenon DEF DispatchInv, Exchange, Early
<1>9. Indexed'
    BY <1>1, <1>5, IndexedStart, Zenon
<1>10. ASSUME NEW k \in Tokens
       PROVE  Exchange(k)'
    <2>1. CASE k = n
        <3>1. where # "send" /\ where # "wait" /\ where # "ended" => where \in Early
            BY Zenon DEF Early, Unsent
        <3>2. "out" \notin Dead
            BY DEF Dead
        <3>3. "ended" \notin Early
            BY DEF Early, Unsent
        <3> QED BY <1>1, <1>6, <1>8, <2>1, <3>1, <3>2, <3>3, Zenon DEF Exchange
    <2>2. CASE k # n
        BY <1>1, <1>5, <1>7, <2>2, Bystander, Zenon DEF DispatchInv
    <2> QED BY <2>1, <2>2
<1>11. Apart'
    <2>1. ASSUME NEW k \in Tokens
          PROVE  (Leaving(k)' => Leaving(k)) /\ (Running(k)' => Running(k))
        <3>1. CASE k = n
            BY <1>6, <1>8, <3>1 DEF Leaving, Running
        <3>2. CASE k # n
            BY <1>5, <3>2 DEF Leaving, Running
        <3> QED BY <3>1, <3>2
    <2> QED BY <1>7, <2>1, ApartKept
<1> QED BY <1>4, <1>9, <1>10, <1>11 DEF DispatchInv

\* A step that starts a request or a push leaves the guards of the others alone.
LEMMA GuardedStart ==
    ASSUME DispatchInv, NEW n \in Tokens, handle' = handle,
           \A k \in Tokens \ {n} : pc'[k] = pc[k] /\ req'[k] = req[k],
           \/ req'[n].verb = "request" /\ pc'[n] \in {"guard", "asked"}
           \/ req'[n].verb = "push" /\ pc'[n] = "ended"
    PROVE  \A k \in Tokens : Guarded(k)'
<1>1. CASE req'[n].verb = "request" /\ pc'[n] \in {"guard", "asked"}
    <2>1. Guarded(n)'
        BY <1>1, Zenon DEF Guarded
    <2> QED BY <2>1, GuardedOther, Zenon
<1>2. CASE req'[n].verb = "push" /\ pc'[n] = "ended"
    <2>1. Guarded(n)'
        BY <1>2, Zenon DEF Guarded
    <2> QED BY <2>1, GuardedOther, Zenon
<1> QED BY <1>1, <1>2, Zenon

LEMMA RequestKeeps ==
    ASSUME DispatchInv, NEW n \in Tokens, NEW p \in Plugins, NEW source \in Sources[p],
           handle_request(n, p, source)
    PROVE  DispatchInv'
<1> DEFINE r == [to |-> p, cid |-> CidOf(source, p), verb |-> "request", source |-> source,
                 parent |-> Nobody]
<1>1. /\ pc[n] = "new" /\ UNCHANGED <<alive, pending, writer, mail>> /\ handle' = handle
      /\ host' = host /\ req' = [req EXCEPT ![n] = r] /\ pc' = [pc EXCEPT ![n] = "guard"]
      /\ outcome' = outcome /\ TakeCid(source, p)
    BY DEF handle_request, Fresh, Step, clientVars
<1>2. /\ pc \in [Tokens -> Early \cup {"send", "wait", "ended"}] /\ host \in [Tokens -> Sides]
      /\ outcome \in [Tokens -> Outcomes] /\ req \in [Tokens -> Request] /\ NEXT_CID \in Nat
      /\ cid \in [Plugins -> Nat] /\ handle \in [Plugins -> BOOLEAN]
    BY Zenon DEF DispatchInv, DispatchTypeOK
<1>3. pc[n] \in Unsent /\ outcome[n] = "none" /\ "guard" \notin Unsent
    BY <1>1, Zenon DEF DispatchInv, Exchange, Unsent
<1>4. source \in {"server", "framework", "client"}
    BY DispatchAssumption
<1>5. NEXT_CID \in Cids /\ 0 \in Cids /\ cid[p] \in Cids
    BY <1>3, NextCid
<1>6. CidOf(source, p) \in Cids
    BY <1>4, <1>5 DEF CidOf
<1>7. r \in Request
    BY <1>4, <1>6 DEF Request, Verbs
<1>8. /\ NEXT_CID' \in Nat /\ cid' \in [Plugins -> Nat]
      /\ NEXT_CID' <= NEXT_CID + 1 /\ \A q \in Plugins : cid'[q] <= cid[q] + 1
    BY <1>1, <1>2, <1>4 DEF TakeCid
<1>9. /\ pc'[n] = "guard" /\ req'[n] = r /\ outcome' = [outcome EXCEPT ![n] = "none"]
      /\ pc' \in [Tokens -> Early \cup {"send", "wait", "ended"}]
      /\ \A k \in Tokens \ {n} : pc'[k] = pc[k] /\ req'[k] = req[k]
    BY <1>1, <1>2, <1>3, Zenon DEF Early
<1>10. Counters'
    BY <1>3, <1>8, <1>9, CountersKept, Zenon
<1>11. r.verb = "request"
    BY Zenon
<1> HIDE DEF r
<1>12. \A k \in Tokens : Guarded(k)'
    BY <1>1, <1>9, <1>11, GuardedStart, Zenon
<1> QED BY <1>1, <1>2, <1>3, <1>7, <1>8, <1>9, <1>10, <1>12, StartMoves, Zenon

LEMMA PushKeeps ==
    ASSUME DispatchInv, NEW n \in Tokens, NEW p \in Plugins, push(n, p)
    PROVE  DispatchInv'
<1> DEFINE r == [to |-> p, cid |-> cid[p], verb |-> "push", source |-> "client",
                 parent |-> Nobody]
<1>1. /\ pc[n] = "new" /\ UNCHANGED <<alive, pending, writer, mail>> /\ handle' = handle
      /\ host' = [host EXCEPT ![n] = "out"] /\ req' = [req EXCEPT ![n] = r]
      /\ pc' = [pc EXCEPT ![n] = "ended"] /\ outcome' = outcome
      /\ NEXT_CID' = NEXT_CID /\ cid' = [cid EXCEPT ![p] = @ + 1]
    BY Zenon DEF push, Fresh, Step, clientVars
<1>2. /\ pc \in [Tokens -> Early \cup {"send", "wait", "ended"}] /\ host \in [Tokens -> Sides]
      /\ outcome \in [Tokens -> Outcomes] /\ req \in [Tokens -> Request] /\ NEXT_CID \in Nat
      /\ cid \in [Plugins -> Nat] /\ handle \in [Plugins -> BOOLEAN]
    BY DEF DispatchInv, DispatchTypeOK
<1>3. pc[n] \in Unsent /\ outcome[n] = "none" /\ "ended" \notin Unsent /\ "out" \in Sides
    BY <1>1, Zenon DEF DispatchInv, Exchange, Unsent, Sides
<1>4. cid[p] \in Cids
    BY <1>3, NextCid, Zenon
<1>5. r \in Request
    BY <1>4 DEF Request, Verbs
<1>6. /\ NEXT_CID' \in Nat /\ cid' \in [Plugins -> Nat]
      /\ NEXT_CID' <= NEXT_CID + 1 /\ \A q \in Plugins : cid'[q] <= cid[q] + 1
    BY <1>1, <1>2
<1>7. /\ pc'[n] = "ended" /\ req'[n] = r /\ outcome' = [outcome EXCEPT ![n] = "none"]
      /\ pc' \in [Tokens -> Early \cup {"send", "wait", "ended"}]
      /\ \A k \in Tokens \ {n} : pc'[k] = pc[k] /\ req'[k] = req[k]
    BY <1>1, <1>2, <1>3
<1>8. /\ host' \in [Tokens -> Sides] /\ host'[n] = "out"
      /\ \A k \in Tokens \ {n} : host'[k] = host[k]
    BY <1>1, <1>2, <1>3
<1>9. Counters'
    BY <1>3, <1>6, <1>7, CountersKept
<1>10. r.verb = "push"
    OBVIOUS
<1> HIDE DEF r
<1>11. \A k \in Tokens : Guarded(k)'
    BY <1>1, <1>7, <1>10, GuardedStart, Zenon
<1> QED BY <1>1, <1>2, <1>3, <1>5, <1>6, <1>7, <1>8, <1>9, <1>10, <1>11, StartMoves, Zenon

LEMMA RemoveKeeps ==
    ASSUME DispatchInv, NEW n \in Tokens, NEW p \in Plugins, remove(n, p)
    PROVE  DispatchInv'
<1> DEFINE r == [to |-> p, cid |-> 0, verb |-> "unload", source |-> "client", parent |-> Nobody]
<1>1. /\ pc[n] = "new" /\ UNCHANGED <<alive, pending, writer, mail>> /\ handle' = handle
      /\ host' = host /\ req' = [req EXCEPT ![n] = r] /\ pc' = [pc EXCEPT ![n] = "write"]
      /\ outcome' = outcome /\ NEXT_CID' = NEXT_CID /\ cid' = cid
    BY DEF remove, Fresh, Step, clientVars
<1>2. /\ pc \in [Tokens -> Early \cup {"send", "wait", "ended"}] /\ host \in [Tokens -> Sides]
      /\ outcome \in [Tokens -> Outcomes] /\ req \in [Tokens -> Request] /\ NEXT_CID \in Nat
      /\ cid \in [Plugins -> Nat] /\ handle \in [Plugins -> BOOLEAN]
    BY DEF DispatchInv, DispatchTypeOK
<1>3. pc[n] \in Unsent /\ outcome[n] = "none"
    BY <1>1, Zenon DEF DispatchInv, Exchange, Unsent
<1>4. r \in Request
    BY <1>3, NextCid DEF Request, Verbs
<1>5. /\ pc'[n] = "write" /\ req'[n] = r /\ outcome' = [outcome EXCEPT ![n] = "none"]
      /\ pc' \in [Tokens -> Early \cup {"send", "wait", "ended"}]
      /\ \A k \in Tokens \ {n} : pc'[k] = pc[k] /\ req'[k] = req[k]
    BY <1>1, <1>2, <1>3 DEF Early, Unsent
<1>6. Counters'
    BY <1>1, <1>2, <1>3, <1>5, CountersKept, Zenon
<1>7. r.verb = "unload" /\ r.parent = Nobody
    OBVIOUS
<1> HIDE DEF r
<1>8. \A k \in Tokens : Guarded(k)'
    <2>1. Guarded(n)'
        BY <1>5, <1>7 DEF Guarded
    <2>2. handle' = handle
        BY <1>1
    <2> QED BY <1>5, <2>1, <2>2, GuardedOther, Zenon
<1> QED BY <1>1, <1>2, <1>3, <1>4, <1>5, <1>6, <1>8, StartMoves, Zenon

LEMMA DispatchKeeps ==
    ASSUME DispatchInv, NEW m \in Tokens, NEW n \in Tokens, NEW q \in Plugins, dispatch(m, n, q)
    PROVE  DispatchInv'
<1> DEFINE r == [to |-> q, cid |-> 0, verb |-> "request", source |-> "server", parent |-> m]
<1>1. /\ pc[n] = "new" /\ UNCHANGED <<alive, pending, writer, mail>> /\ handle' = handle
      /\ host[m] = "run" /\ host' = [host EXCEPT ![m] = "asked"]
      /\ req' = [req EXCEPT ![n] = r] /\ pc' = [pc EXCEPT ![n] = "asked"]
      /\ outcome' = outcome /\ NEXT_CID' = NEXT_CID /\ cid' = cid
    BY DEF dispatch, Fresh, Step, routerVars, clientVars
<1>2. /\ pc \in [Tokens -> Early \cup {"send", "wait", "ended"}] /\ host \in [Tokens -> Sides]
      /\ outcome \in [Tokens -> Outcomes] /\ req \in [Tokens -> Request] /\ NEXT_CID \in Nat
      /\ cid \in [Plugins -> Nat] /\ handle \in [Plugins -> BOOLEAN]
    BY DEF DispatchInv, DispatchTypeOK
<1>3. pc[n] \in Unsent /\ outcome[n] = "none" /\ host[m] \notin Dead /\ m # n
    BY <1>1, Zenon DEF DispatchInv, Exchange, Unsent, Dead
<1>4. r \in Request
    BY <1>3, NextCid, Zenon DEF Request, Verbs
<1>5. /\ pc'[n] = "asked" /\ req'[n] = r /\ outcome' = [outcome EXCEPT ![n] = "none"]
      /\ pc' \in [Tokens -> Early \cup {"send", "wait", "ended"}]
      /\ \A k \in Tokens \ {n} : pc'[k] = pc[k] /\ req'[k] = req[k]
    BY <1>1, <1>2, <1>3 DEF Early, Unsent
<1>6. /\ host' \in [Tokens -> Sides] /\ host'[n] = host[n]
      /\ \A k \in Tokens : host'[k] = host[k] \/ (host[k] \notin Dead /\ host'[k] # "none")
    BY <1>1, <1>2, <1>3 DEF Sides
<1>7. Counters'
    BY <1>1, <1>2, <1>3, <1>5, CountersKept
<1>8. r.verb = "request"
    OBVIOUS
<1> HIDE DEF r
<1>9. \A k \in Tokens : Guarded(k)'
    BY <1>1, <1>5, <1>8, GuardedStart, Zenon
<1> QED BY <1>1, <1>2, <1>3, <1>4, <1>5, <1>6, <1>7, <1>9, StartMoves, Zenon

LEMMA ForwardKeeps ==
    ASSUME DispatchInv, NEW n \in Tokens, forward_plugin_request(n)
    PROVE  DispatchInv'
<1> DEFINE m == req[n].parent
           r == [req[n] EXCEPT !.cid = NEXT_CID]
<1>1. /\ pc[n] = "asked" /\ UNCHANGED <<alive, pending, writer, mail>> /\ handle' = handle
      /\ host[m] = "asked" /\ host' = [host EXCEPT ![m] = "nested"] /\ cid' = cid
    BY DEF forward_plugin_request
<1>2. /\ pc \in [Tokens -> Early \cup {"send", "wait", "ended"}] /\ host \in [Tokens -> Sides]
      /\ outcome \in [Tokens -> Outcomes] /\ req \in [Tokens -> Request] /\ NEXT_CID \in Nat
      /\ cid \in [Plugins -> Nat] /\ handle \in [Plugins -> BOOLEAN]
    BY DEF DispatchInv, DispatchTypeOK
<1>3. pc[n] \in Unsent /\ outcome[n] = "none" /\ host[n] \in Dead /\ req[n].verb = "request"
    BY <1>1 DEF DispatchInv, Exchange, Guarded, Unsent, Early
<1>4. /\ host' \in [Tokens -> Sides] /\ host'[n] = host[n]
      /\ \A k \in Tokens : host'[k] = host[k] \/ (host[k] \notin Dead /\ host'[k] # "none")
    <2>1. "asked" \notin Dead /\ "nested" \in Sides
        BY DEF Dead, Sides
    <2>2. m # n
        BY <1>1, <1>3, <2>1
    <2> HIDE DEF m
    <2> QED BY <1>1, <1>2, <2>1, <2>2, Zenon
<1>5. req[n] \in Request /\ r \in Request /\ r.verb = "request"
    <2>1. NEXT_CID \in Cids
        BY <1>3, NextCid
    <2> QED BY <1>2, <1>3, <2>1 DEF Request
<1>6. PICK v \in Request, where \in {"guard", "ended"}, told \in {"none", "refused"} :
        /\ req' = [req EXCEPT ![n] = v] /\ pc' = [pc EXCEPT ![n] = where]
        /\ outcome' = [outcome EXCEPT ![n] = told] /\ v.verb = "request"
        /\ told = "refused" => where = "ended"
        /\ NEXT_CID' \in {NEXT_CID, NEXT_CID + 1}
    <2>1. CASE To(n) \in by_shelf
        <3>1. /\ req' = [req EXCEPT ![n] = r] /\ pc' = [pc EXCEPT ![n] = "guard"]
              /\ outcome' = outcome /\ NEXT_CID' = NEXT_CID + 1
            BY <1>2, <2>1 DEF forward_plugin_request, Step
        <3>2. outcome' = [outcome EXCEPT ![n] = "none"]
            BY <1>2, <1>3, <3>1
        <3> HIDE DEF r
        <3> QED BY <1>5, <3>1, <3>2, Zenon
    <2>2. CASE To(n) \notin by_shelf
        <3>1. /\ req' = req /\ pc' = [pc EXCEPT ![n] = "ended"]
              /\ outcome' = [outcome EXCEPT ![n] = "refused"] /\ NEXT_CID' = NEXT_CID
            BY <2>2 DEF forward_plugin_request, End
        <3>2. req' = [req EXCEPT ![n] = req[n]]
            BY <1>2, <3>1
        <3> QED BY <1>3, <1>5, <3>1, <3>2, Zenon
    <2> QED BY <2>1, <2>2
<1>7. /\ pc'[n] = where /\ req'[n] = v /\ where \notin Unsent
      /\ pc' \in [Tokens -> Early \cup {"send", "wait", "ended"}]
      /\ \A k \in Tokens \ {n} : pc'[k] = pc[k] /\ req'[k] = req[k]
    BY <1>2, <1>6 DEF Early, Unsent
<1>8. NEXT_CID' \in Nat /\ NEXT_CID' <= NEXT_CID + 1 /\ \A q \in Plugins : cid'[q] <= cid[q] + 1
    BY <1>1, <1>2, <1>6
<1>9. Counters'
    BY <1>1, <1>2, <1>3, <1>7, <1>8, CountersKept
<1>10. \A k \in Tokens : Guarded(k)'
    <2>1. Guarded(n)'
        BY <1>6, <1>7 DEF Guarded
    <2>2. handle' = handle
        BY <1>1
    <2> QED BY <1>7, <2>1, <2>2, GuardedOther, Zenon
<1> HIDE DEF m, r
<1> QED BY <1>1, <1>2, <1>3, <1>4, <1>6, <1>8, <1>9, <1>10, StartMoves, Zenon

LEMMA UnloadKeeps ==
    ASSUME DispatchInv, NEW n \in Tokens, unload_handle(n)
    PROVE  DispatchInv'
<1> DEFINE p == To(n)
           r == [req[n] EXCEPT !.cid = cid[To(n)]]
<1>1. /\ pc[n] = "write" /\ UNCHANGED <<alive, pending, writer, mail>> /\ host' = host
      /\ Readers(p) = {} /\ handle' = [handle EXCEPT ![p] = FALSE]
      /\ req' = [req EXCEPT ![n] = r] /\ pc' = [pc EXCEPT ![n] = "register"]
      /\ outcome' = outcome /\ NEXT_CID' = NEXT_CID /\ cid' = [cid EXCEPT ![p] = @ + 1]
    BY DEF unload_handle, Step, clientVars
<1>2. /\ pc \in [Tokens -> Early \cup {"send", "wait", "ended"}] /\ host \in [Tokens -> Sides]
      /\ outcome \in [Tokens -> Outcomes] /\ req \in [Tokens -> Request] /\ NEXT_CID \in Nat
      /\ cid \in [Plugins -> Nat] /\ handle \in [Plugins -> BOOLEAN]
    BY DEF DispatchInv, DispatchTypeOK
<1>3. /\ pc[n] \in Unsent /\ outcome[n] = "none" /\ req[n].verb = "unload"
      /\ req[n].parent = Nobody /\ "register" \notin Unsent
    BY <1>1 DEF DispatchInv, Exchange, Guarded, Unsent
<1>4. p \in Plugins /\ cid[p] \in Cids
    BY <1>3, NextCid, TokenFacts DEF DispatchInv
<1>5. r \in Request /\ r.verb = "unload" /\ r.parent = Nobody /\ r.to = p
    <2>1. req[n] \in Request
        BY <1>2
    <2> QED BY <1>3, <1>4, <2>1 DEF Request, To
<1> HIDE DEF r
<1>6. /\ NEXT_CID' \in Nat /\ cid' \in [Plugins -> Nat] /\ handle' \in [Plugins -> BOOLEAN]
      /\ NEXT_CID' <= NEXT_CID + 1 /\ \A q \in Plugins : cid'[q] <= cid[q] + 1
    <2> HIDE DEF p
    <2> QED BY <1>1, <1>2, <1>4
<1>7. /\ pc'[n] = "register" /\ req'[n] = r /\ outcome' = [outcome EXCEPT ![n] = "none"]
      /\ pc' \in [Tokens -> Early \cup {"send", "wait", "ended"}]
      /\ \A k \in Tokens \ {n} : pc'[k] = pc[k] /\ req'[k] = req[k]
    BY <1>1, <1>2, <1>3 DEF Early
<1>8. Counters'
    BY <1>3, <1>6, <1>7, CountersKept
<1>9. ASSUME NEW k \in Tokens
      PROVE  Guarded(k)'
    <2>1. ~handle'[p] /\ \A q \in Plugins \ {p} : handle'[q] = handle[q]
        BY <1>1, <1>2, <1>4
    <2>2. CASE k = n
        BY <1>5, <1>7, <2>1, <2>2 DEF Guarded, To
    <2>3. CASE k # n
        <3>1. Guarded(k) /\ To(k) \in Plugins /\ To(k)' = To(k)
            BY <1>7, <2>3, TokenFacts DEF DispatchInv, To
        <3>2. CASE To(k) = p
            <4>1. ~(req[k].verb = "request" /\ pc[k] \in {"register", "send", "wait"})
                <5>1. Readers(p) = {}
                    BY <1>1
                <5> QED BY <3>2, <5>1, Zenon DEF Readers, On
            <4>2. pc'[k] = pc[k] /\ req'[k] = req[k] /\ ~handle'[To(k)']
                BY <1>7, <2>1, <2>3, <3>1, <3>2, Zenon
            <4> QED BY <3>1, <4>1, <4>2, Zenon DEF Guarded
        <3>3. CASE To(k) # p
            <4>1. pc'[k] = pc[k] /\ req'[k] = req[k] /\ handle'[To(k)'] = handle[To(k)]
                BY <1>7, <2>1, <2>3, <3>1, <3>3, Zenon
            <4> QED BY <3>1, <4>1, Zenon DEF Guarded
        <3> QED BY <3>2, <3>3
    <2> QED BY <2>2, <2>3
<1> HIDE DEF p
<1> QED BY <1>1, <1>2, <1>3, <1>5, <1>6, <1>7, <1>8, <1>9, StartMoves, Zenon

-----------------------------------------------------------------------------
LEMMA InboundKeeps ==
    ASSUME DispatchInv, NEW n \in Tokens, handle_inbound_frame(n)
    PROVE  DispatchInv'
<1> DEFINE p == To(n)
           c == req[n].cid
           m == pending[p][c]
<1>1. /\ host[n] = "replied" /\ host' = [host EXCEPT ![n] = "over"] /\ NEXT_CID' = NEXT_CID
      /\ cid' = cid /\ handle' = handle /\ alive' = alive /\ writer' = writer /\ req' = req
      /\ pc' = pc /\ outcome' = outcome
    BY DEF handle_inbound_frame, routerVars
<1>2. /\ host \in [Tokens -> Sides] /\ mail \in [Tokens -> Tokens \cup {Nobody, Gone}]
      /\ pending \in [Plugins -> [Cids -> Tokens \cup {Nobody}]]
    BY DEF DispatchInv, DispatchTypeOK
<1>3. /\ p \in Plugins /\ c \in Cids /\ m \in Tokens \cup {Nobody} /\ n # Gone /\ n # Nobody
      /\ Nobody \notin Tokens
    BY TokenFacts, Zenon DEF DispatchInv
<1>4. /\ pc[n] \in {"wait", "ended"} /\ pc[n] \notin Unsent /\ outcome[n] # "refused"
      /\ host[n] \notin Dead /\ "over" \in Sides
    BY <1>1, Zenon DEF DispatchInv, Exchange, Unsent, Dead, Sides
<1>5. /\ host' \in [Tokens -> Sides] /\ host'[n] = "over"
      /\ \A k \in Tokens \ {n} : host'[k] = host[k]
      /\ \A k \in Tokens : host'[k] = host[k] \/ (host[k] \notin Dead /\ host'[k] # "none")
    BY <1>1, <1>2, <1>4
<1>6. CASE m = Nobody
    <2>1. pending' = pending /\ mail' = mail
        BY <1>6 DEF handle_inbound_frame
    <2> QED BY <1>1, <1>5, <2>1, HostMoves DEF callVars
<1>7. ASSUME NEW t \in Tokens, m = t
      PROVE  DispatchInv'
    <2>1. pending' = [pending EXCEPT ![p][c] = Nobody] /\ mail' = [mail EXCEPT ![t] = n]
        BY <1>3, <1>7 DEF handle_inbound_frame
    <2>2. /\ pending' \in [Plugins -> [Cids -> Tokens \cup {Nobody}]] /\ pending'[p][c] = Nobody
          /\ \A q \in Plugins, d \in Cids : ~(q = p /\ d = c) => pending'[q][d] = pending[q][d]
        BY <1>2, <1>3, <2>1
    <2>3. /\ To(t) = p /\ req[t].cid = c /\ pc[t] \notin Early
        BY <1>3, <1>7, IndexedAt
    <2>4. \A q \in Plugins, d \in Cids : pending[q][d] = t => q = p /\ d = c
        BY <1>7, <2>3, IndexedAt
    <2>5. \A k \in Tokens \ {t} : pending[p][c] # k
        BY <1>7
    <2>6. /\ mail' \in [Tokens -> Tokens \cup {Nobody, Gone}] /\ mail'[t] = n
          /\ \A k \in Tokens \ {t} : mail'[k] = mail[k]
        BY <1>2, <1>7, <2>1
    <2>7. DispatchTypeOK'
        BY <1>1, <1>5, <2>2, <2>6, Zenon DEF DispatchInv, DispatchTypeOK
    <2>8. Onwards
        BY <1>1 DEF Onwards
    <2>9. Counters'
        BY <1>1 DEF DispatchInv, Counters, Unserved
    <2>10. Indexed'
        <3>1. OnlyPlace(p, c)
            BY <2>2, Zenon DEF OnlyPlace
        <3> HIDE DEF p, c
        <3> QED BY <1>1, <1>3, <1>7, <2>2, <2>6, <3>1, IndexedTold, Zenon DEF m
    <2>11. Exchange(t)'
        <3>1. n = t \/ Shared(t)'
            BY <1>1, <1>4, <1>7, <2>3, SharedThen DEF To
        <3>2. Shared(t) => Shared(t)'
            BY <1>7, <2>3, <2>8, SharedKept DEF Early
        <3>3. host'[t] = host[t] \/ (host'[t] = "over" /\ n = t)
            BY <1>5, <1>7
        <3>4. Exchange(t) /\ "over" \in Dead
            BY <1>7 DEF DispatchInv, Dead
        <3>5. /\ pc[t] \in Early => mail'[t] = Nobody /\ host'[t] \in Dead
              /\ outcome[t] # "none" => pc[t] = "ended"
              /\ host'[t] \notin Dead => pc[t] \in {"wait", "ended"} /\ outcome[t] # "refused"
              /\ mail'[t] = t => host'[t] = "over" /\ pc[t] \in {"wait", "ended"}
              /\ mail'[t] \in Tokens => mail'[t] = t \/ Shared(t)'
              /\ outcome[t] = "answered" => mail'[t] \in Tokens
            BY <1>4, <1>5, <2>3, <2>6, <3>1, <3>3, <3>4, Zenon DEF Exchange
        <3>6. /\ mail'[t] # Gone /\ mail'[t] # Nobody
              /\ outcome[t] = "disconnected" => Shared(t)' \/ ~alive[p] \/ writer[p] = "stopped"
              /\ req[t].verb = "request" /\ host'[t] \notin Dead =>
                   pc[t] = "wait" \/ outcome[t] = "aborted" \/ Shared(t)' \/ ~alive[p]
            BY <1>3, <2>3, <2>6, <3>2, <3>3, <3>4, Zenon DEF Exchange
        <3>7. To(t)' = p /\ pc' = pc /\ outcome' = outcome /\ req' = req
            BY <1>1, <2>3 DEF To
        <3> HIDE DEF p, c
        <3> QED BY <1>1, <3>5, <3>6, <3>7, Zenon DEF Exchange
    <2>12. ASSUME NEW k \in Tokens
           PROVE  Exchange(k)'
        <3>1. CASE k = t
            BY <2>11, <3>1
        <3>2. CASE k # t
            <4>1. \/ pending'[To(k)][req[k].cid] = pending[To(k)][req[k].cid]
                  \/ pending[To(k)][req[k].cid] # k
                <5>1. \/ pending'[To(k)][req[k].cid] = pending[To(k)][req[k].cid]
                      \/ To(k) = p /\ req[k].cid = c
                    <6>1. OnlyPlace(p, c)
                        BY <2>2, Zenon DEF OnlyPlace
                    <6> HIDE DEF p, c
                    <6> QED BY <3>2, <6>1, OtherPlaces, Zenon
                <5> QED BY <2>5, <3>2, <5>1, Zenon
            <4> QED BY <1>1, <1>5, <2>6, <2>8, <3>2, <4>1, Bystander, Zenon DEF DispatchInv
        <3> QED BY <3>1, <3>2
    <2>13. \A k \in Tokens : Guarded(k)'
        BY <1>1 DEF DispatchInv, Guarded, To
    <2>14. Apart'
        <3>1. \A k \in Tokens : (Leaving(k)' => Leaving(k)) /\ (Running(k)' => Running(k))
            BY <1>1, <1>5 DEF Leaving, Running
        <3> QED BY <2>8, <3>1, ApartKept
    <2> QED BY <2>7, <2>9, <2>10, <2>12, <2>13, <2>14 DEF DispatchInv
<1> QED BY <1>3, <1>6, <1>7

\* The connection of p goes down.
LEMMA DrainKeeps ==
    ASSUME DispatchInv, NEW p \in Plugins, drain_and_disable(p),
           UNCHANGED <<NEXT_CID, cid, handle, req, pc, outcome>>,
           writer' \in [Plugins -> {"writing", "stopped"}],
           \A q \in Plugins : writer[q] = "stopped" => writer'[q] = "stopped",
           host' \in [Tokens -> Sides],
           \A k \in Tokens : host'[k] = host[k] \/ (host[k] \notin Dead /\ host'[k] # "none")
    PROVE  DispatchInv'
<1>1. /\ NEXT_CID' = NEXT_CID /\ cid' = cid /\ handle' = handle /\ req' = req /\ pc' = pc
      /\ outcome' = outcome
    OBVIOUS
<1>2. /\ alive \in [Plugins -> BOOLEAN] /\ mail \in [Tokens -> Tokens \cup {Nobody, Gone}]
      /\ pending \in [Plugins -> [Cids -> Tokens \cup {Nobody}]]
    BY DEF DispatchInv, DispatchTypeOK
<1>3. /\ alive' \in [Plugins -> BOOLEAN] /\ ~alive'[p]
      /\ \A q \in Plugins : ~alive[q] => ~alive'[q]
    BY <1>2 DEF drain_and_disable
<1>4. /\ pending' \in [Plugins -> [Cids -> Tokens \cup {Nobody}]]
      /\ \A d \in Cids : pending'[p][d] = Nobody
      /\ \A q \in Plugins \ {p} : pending'[q] = pending[q]
    BY <1>2 DEF drain_and_disable
<1>5. /\ mail' \in [Tokens -> Tokens \cup {Nobody, Gone}]
      /\ \A k \in Tokens : mail'[k] = IF \E d \in Cids : pending[p][d] = k THEN Gone ELSE mail[k]
    BY <1>2 DEF drain_and_disable
<1>6. DispatchTypeOK'
    BY <1>1, <1>3, <1>4, <1>5, Zenon DEF DispatchInv, DispatchTypeOK
<1>7. Onwards
    BY <1>1, <1>3, Zenon DEF Onwards
<1>8. Counters'
    BY <1>1 DEF DispatchInv, Counters, Unserved
<1>9. Indexed'
    <2>1. \A k \in Tokens : ~Drained(p, k) => mail'[k] = mail[k]
        BY <1>5, Zenon DEF Drained
    <2> QED BY <1>1, <1>4, <2>1, IndexedDrained, Zenon
<1>10. ASSUME NEW k \in Tokens
       PROVE  Exchange(k)'
    <2>1. CASE Drained(p, k)
        <3>1. To(k) = p /\ pc[k] \notin Early /\ mail[k] = Nobody
            BY <2>1, DrainedAt, Zenon
        <3>2. mail'[k] = Gone /\ Gone # k /\ Gone \notin Tokens /\ Gone # Nobody /\ Nobody \notin Tokens
            BY <1>5, <2>1, TokenFacts, Zenon DEF DispatchInv, Drained
        <3>3. Exchange(k) /\ To(k)' = p
            BY <1>1, <3>1, Zenon DEF DispatchInv, To
        <3>4. host'[k] \notin Dead => host[k] \notin Dead
            OBVIOUS
        <3>5. outcome[k] # "answered"
            BY <3>1, <3>2, <3>3, Zenon DEF Exchange
        <3>6. /\ outcome[k] # "none" => pc[k] = "ended"
              /\ host'[k] \notin Dead => pc[k] \in {"wait", "ended"} /\ outcome[k] # "refused"
            BY <3>3, <3>4, Zenon DEF Exchange
        <3> QED BY <1>1, <1>3, <3>1, <3>2, <3>3, <3>5, <3>6, Zenon DEF Exchange
    <2>2. CASE ~Drained(p, k)
        <3>1. mail'[k] = mail[k]
            BY <1>5, <2>2, Zenon DEF Drained
        <3>2. \/ pending'[To(k)][req[k].cid] = pending[To(k)][req[k].cid]
              \/ ~alive'[To(k)]
            BY <1>3, <1>4, TokenFacts, Zenon DEF DispatchInv
        <3> QED BY <1>1, <1>7, <3>1, <3>2, Bystander, Zenon DEF DispatchInv
    <2> QED BY <2>1, <2>2
<1>11. \A k \in Tokens : Guarded(k)'
    BY <1>1, Zenon DEF DispatchInv, Guarded, To
<1>12. Apart'
    <2>1. \A k \in Tokens : (Leaving(k)' => Leaving(k)) /\ (Running(k)' => Running(k))
        BY <1>1 DEF Leaving, Running
    <2> QED BY <1>7, <2>1, ApartKept
<1> QED BY <1>6, <1>8, <1>9, <1>10, <1>11, <1>12 DEF DispatchInv

LEMMA LoopsKeep ==
    ASSUME DispatchInv, NEW p \in Plugins, PeerClosed(p) \/ WriteFails(p)
    PROVE  DispatchInv'
<1>1. host \in [Tokens -> Sides] /\ writer \in [Plugins -> {"writing", "stopped"}]
    BY DEF DispatchInv, DispatchTypeOK
<1>2. CASE PeerClosed(p)
    <2>1. /\ drain_and_disable(p) /\ writer' = writer /\ host' = host
          /\ UNCHANGED <<NEXT_CID, cid, handle, req, pc, outcome>>
        BY <1>2 DEF PeerClosed, routerVars
    <2> QED BY <1>1, <2>1, DrainKeeps
<1>3. CASE WriteFails(p)
    <2>1. /\ drain_and_disable(p) /\ writer' = [writer EXCEPT ![p] = "stopped"]
          /\ host' = [n \in Tokens |-> IF n \in At(p, {"out", "answered"}) THEN "over" ELSE host[n]]
          /\ UNCHANGED <<NEXT_CID, cid, handle, req, pc, outcome>>
        BY <1>3 DEF WriteFails, routerVars
    <2>2. \A n \in At(p, {"out", "answered"}) : host[n] \notin Dead
        BY DEF At, Dead
    <2>3. /\ host' \in [Tokens -> Sides]
          /\ \A k \in Tokens : host'[k] = host[k] \/ (host[k] \notin Dead /\ host'[k] # "none")
        BY <1>1, <2>1, <2>2 DEF Sides, Dead
    <2>4. /\ writer' \in [Plugins -> {"writing", "stopped"}]
          /\ \A q \in Plugins : writer[q] = "stopped" => writer'[q] = "stopped"
        BY <1>1, <2>1
    <2> QED BY <2>1, <2>3, <2>4, DrainKeeps
<1> QED BY <1>2, <1>3

\* The client is dropped, with whatever its reader was running.
LEMMA UnloadedKeeps ==
    ASSUME DispatchInv, NEW n \in Tokens, unload_one_plugin(n)
    PROVE  DispatchInv'
<1> DEFINE p == To(n)
           Cut(m) == req[m].parent # Nobody /\ To(req[m].parent) = p /\ pc[m] \notin {"new", "ended"}
<1>1. /\ NEXT_CID' = NEXT_CID /\ cid' = cid /\ handle' = handle /\ alive' = alive /\ req' = req
      /\ mail' = mail /\ writer' = [writer EXCEPT ![p] = "stopped"]
      /\ pending' = [pending EXCEPT ![p] = [c \in Cids |-> Nobody]]
      /\ pc' = [m \in Tokens |-> IF Cut(m) THEN "ended" ELSE pc[m]]
      /\ outcome' = [m \in Tokens |-> IF Cut(m) THEN "aborted" ELSE outcome[m]]
      /\ host' = [m \in Tokens |-> IF m \in On(p) THEN "over" ELSE host[m]]
    BY Zenon DEF unload_one_plugin
<1>2. /\ pc \in [Tokens -> Early \cup {"send", "wait", "ended"}] /\ host \in [Tokens -> Sides]
      /\ outcome \in [Tokens -> Outcomes] /\ writer \in [Plugins -> {"writing", "stopped"}]
      /\ pending \in [Plugins -> [Cids -> Tokens \cup {Nobody}]]
    BY DEF DispatchInv, DispatchTypeOK
<1>3. p \in Plugins /\ Nobody \notin Tokens
    BY TokenFacts DEF DispatchInv
<1>4. /\ writer' \in [Plugins -> {"writing", "stopped"}] /\ writer'[p] = "stopped"
      /\ \A q \in Plugins : writer[q] = "stopped" => writer'[q] = "stopped"
    <2> HIDE DEF p
    <2> QED BY <1>1, <1>2, <1>3
<1>5. /\ pending' \in [Plugins -> [Cids -> Tokens \cup {Nobody}]]
      /\ \A c \in Cids : pending'[p][c] = Nobody
      /\ \A q \in Plugins \ {p} : pending'[q] = pending[q]
    <2> HIDE DEF p
    <2> QED BY <1>1, <1>2, <1>3
<1>6. \A k \in Tokens : /\ Cut(k) => req[k].parent # Nobody /\ pc[k] \notin {"new", "ended"}
                        /\ pc'[k] = (IF Cut(k) THEN "ended" ELSE pc[k])
                        /\ outcome'[k] = (IF Cut(k) THEN "aborted" ELSE outcome[k])
                        /\ host'[k] = (IF k \in On(p) THEN "over" ELSE host[k])
    BY <1>1
<1>7. /\ pc' \in [Tokens -> Early \cup {"send", "wait", "ended"}] /\ host' \in [Tokens -> Sides]
      /\ outcome' \in [Tokens -> Outcomes]
    <2> HIDE DEF Cut, p
    <2> QED BY <1>1, <1>2 DEF Outcomes, Sides, Dead
<1>8. \A k \in Tokens : k \in On(p) <=> pc[k] # "new" /\ To(k) = p
    BY DEF On
<1> HIDE DEF p, Cut
<1>9. DispatchTypeOK'
    BY <1>1, <1>4, <1>5, <1>7 DEF DispatchInv, DispatchTypeOK
<1>10. Onwards
    BY <1>1, <1>4, <1>6, Zenon DEF Onwards, Unsent, DispatchInv, Exchange
<1>11. Counters'
    BY <1>1, <1>6, <1>7, CountersKept DEF DispatchInv, DispatchTypeOK, Unsent
<1>12. Indexed'
    <2>1. SUFFICES ASSUME NEW q \in Plugins, NEW d \in Cids, NEW k \in Tokens, pending'[q][d] = k
                   PROVE  To(k) = q /\ req[k].cid = d /\ pc'[k] \notin Early /\ mail[k] = Nobody
        BY <1>1 DEF Indexed, To
    <2>2. pending[q][d] = k
        BY <1>3, <1>5, <2>1
    <2>3. To(k) = q /\ req[k].cid = d /\ pc[k] \notin Early /\ mail[k] = Nobody
        BY <2>2, IndexedAt
    <2> QED BY <1>6, <2>3 DEF Early, Unsent
<1>13. ASSUME NEW k \in Tokens
       PROVE  Exchange(k)'
    <2>1. Exchange(k) /\ To(k)' = To(k) /\ To(k) \in Plugins
        BY <1>1, TokenFacts DEF DispatchInv, To
    <2>2. pc[k] \notin Unsent /\ Shared(k) => Shared(k)'
        BY <1>10, SharedKept
    <2>3. /\ "ended" \notin Early /\ "over" \in Dead
          /\ mail[k] \in Tokens => pc[k] \notin Unsent
        BY <1>3, <2>1 DEF Exchange, Early, Unsent, Dead
    <2>4. CASE Cut(k)
        <3>1. pc'[k] = "ended" /\ outcome'[k] = "aborted"
            BY <1>6, <2>4, Zenon
        <3>2. /\ host'[k] \notin Dead => host[k] \notin Dead
              /\ host[k] = "over" => host'[k] = "over"
            BY <1>6, <2>3, Zenon
        <3>3. mail[k] \in Tokens => mail[k] = k \/ Shared(k)'
            BY <2>1, <2>2, <2>3, Zenon DEF Exchange
        <3> QED BY <1>1, <2>1, <2>3, <3>1, <3>2, <3>3, Zenon DEF Exchange
    <2>5. CASE ~Cut(k) /\ k \in On(p)
        <3>1. /\ pc'[k] = pc[k] /\ outcome'[k] = outcome[k] /\ host'[k] = "over"
              /\ To(k) = p /\ writer'[To(k)] = "stopped"
            BY <1>4, <1>6, <1>8, <2>5, Zenon
        <3>2. mail[k] \in Tokens => mail[k] = k \/ Shared(k)'
            BY <2>1, <2>2, <2>3, Zenon DEF Exchange
        <3> QED BY <1>1, <2>1, <2>3, <3>1, <3>2, Zenon DEF Exchange
    <2>6. CASE ~Cut(k) /\ k \notin On(p)
        <3>1. pc'[k] = pc[k] /\ outcome'[k] = outcome[k] /\ host'[k] = host[k]
            BY <1>6, <2>6, Zenon
        <3>2. CASE To(k) # p
            BY <1>1, <1>5, <1>10, <2>1, <3>1, <3>2, Bystander, Zenon DEF DispatchInv
        <3>3. CASE To(k) = p
            <4>1. pc[k] = "new"
                BY <1>8, <2>6, <3>3
            <4>2. host[k] \in Dead
                BY <2>1, <4>1 DEF Exchange, Early, Unsent
            <4> QED BY <1>1, <1>4, <1>10, <2>1, <3>1, <3>3, <4>2, Bystander, Zenon DEF DispatchInv
        <3> QED BY <3>2, <3>3
    <2> QED BY <2>4, <2>5, <2>6
<1>14. \A k \in Tokens : Guarded(k)'
    BY <1>1, <1>6, Zenon DEF DispatchInv, Guarded, To
<1>15. Apart'
    <2>1. \A k \in Tokens : (Leaving(k)' => Leaving(k)) /\ (Running(k)' => Running(k))
        BY <1>1, <1>6 DEF Leaving, Running, Dead
    <2> QED BY <1>10, <2>1, ApartKept
<1> QED BY <1>9, <1>11, <1>12, <1>13, <1>14, <1>15 DEF DispatchInv

-----------------------------------------------------------------------------
LEMMA DispatchInvKept ==
    ASSUME DispatchInv, [DispatchNext]_dispatchVars
    PROVE  DispatchInv'
<1>1. CASE DispatchNext
    BY <1>1, HostStepsKeep, DieKeeps, ReadGuardKeeps, RegisterKeeps, SendKeeps, WakeKeeps,
       RequestKeeps, PushKeeps, RemoveKeeps, DispatchKeeps, ForwardKeeps, UnloadKeeps,
       InboundKeeps, LoopsKeep, UnloadedKeeps, Zenon DEF DispatchNext, Progress
<1>2. CASE UNCHANGED dispatchVars
    <2>1. host \in [Tokens -> Sides]
        BY DEF DispatchInv, DispatchTypeOK
    <2> QED BY <1>2, <2>1, HostMoves DEF dispatchVars, routerVars, clientVars
<1> QED BY <1>1, <1>2

\* Through every interleaving of calls, nested dispatches, pushes, unloads and crashes the
\* pending map and the oneshots stay consistent with the exchanges under way.
THEOREM DispatchInvariant == DispatchSpec => []DispatchInv
BY DispatchInvInit, DispatchInvKept, PTL DEF DispatchSpec

\* A caller with a cid of its own gets its own reply, or learns of a broken connection.
THEOREM DispatchOwnReply == DispatchSpec => []OwnReply
<1>1. DispatchInv => OwnReply
    <2>1. SUFFICES ASSUME DispatchInv, NEW n \in Tokens, ~Shared(n)
                   PROVE  /\ outcome[n] = "answered" => mail[n] = n
                          /\ outcome[n] = "disconnected" => ~alive[To(n)] \/ writer[To(n)] = "stopped"
        BY Zenon DEF OwnReply
    <2> QED BY <2>1, Zenon DEF DispatchInv, Exchange
<1> QED BY <1>1, DispatchInvariant, PTL

\* An unload and the requests of other callers are kept apart.
THEOREM DispatchUnloadAlone == DispatchSpec => []UnloadAlone
<1>1. DispatchInv => UnloadAlone
    <2>1. SUFFICES ASSUME DispatchInv, NEW n \in Tokens, req[n].verb = "unload",
                          host[n] \in {"out", "held", "handoff", "barrier", "replied"},
                          NEW m \in At(To(n), {"out", "held", "handoff", "spawned"}) \cup Handlers(To(n)),
                          req[m].verb = "request"
                   PROVE  Shared(m) \/ outcome[m] = "aborted"
        BY DEF UnloadAlone
    <2>2. m \in Tokens /\ To(m) = To(n) /\ host[m] \notin Dead
        BY DEF Handlers, At, On, Dead
    <2>3. Leaving(n) /\ Running(m)
        BY <2>1, <2>2 DEF Leaving, Running, Dead
    <2> QED BY <2>1, <2>2, <2>3 DEF DispatchInv, Apart
<1> QED BY <1>1, DispatchInvariant, PTL
=============================================================================
