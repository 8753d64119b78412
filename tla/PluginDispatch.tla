--------------------------- MODULE PluginDispatch ---------------------------
(***************************************************************************)
(* Requests between the steward and out-of-process plugins: the router's   *)
(* guard on an entry (router.rs), the wire client with its pending map and *)
(* its reader and writer loops (wire_client.rs), and the host loop inside  *)
(* the plugin (evo-plugin-sdk/src/host.rs).  A handler may dispatch a      *)
(* request to another plugin's shelf and await it (shelf_dispatcher.rs);   *)
(* the steward runs that dispatch inside the reader loop of the asking     *)
(* plugin's connection.                                                    *)
(*                                                                         *)
(* A token n is one frame exchange.  pc[n] is where the steward's caller   *)
(* stands, host[n] where the frame and the handler it starts are.  Frames  *)
(* under way are the tokens at "out", "answered" (towards the plugin),     *)
(* "asked" and "replied" (towards the steward); tasks on either side race  *)
(* to write them, so they are read in any order.  Channels and sockets are *)
(* unbounded except the host's handoff queue.                              *)
(***************************************************************************)
EXTENDS Naturals, FiniteSets

CONSTANTS Plugins,
          Reaches,      \* <<p, q>>: handlers of p may dispatch to a shelf of q
          Sources,      \* [Plugins -> who calls: server, framework, client]
          MaxTokens,    \* bound on frame exchanges
          MaxPushes,    \* bound on steward events among them
          MaxDeaths,    \* bound on crashes of plugin processes
          HandoffCap    \* REQ_HANDOFF_CAPACITY

ASSUME DispatchAssumption ==
    /\ Plugins # {} /\ MaxTokens \in Nat
    /\ Sources \in [Plugins -> SUBSET {"server", "framework", "client"}]

VARIABLES NEXT_CID,     \* the server's counter, one for all connections
          cid,          \* [Plugins -> Nat], the client's own counter
          by_shelf,     \* plugins the router finds
          handle,       \* [Plugins -> BOOLEAN], the entry's handle is there
          unloading,    \* plugins whose entry has a writer queued or inside
          alive,        \* [Plugins -> BOOLEAN]
          pending,      \* [Plugins -> [Cids -> token or 0]]
          reader,       \* [Plugins -> {"reading", "busy", "stopped"}]
          writer,       \* [Plugins -> {"writing", "stopped"}]
          up,           \* [Plugins -> BOOLEAN], the plugin process runs
          req,          \* per token: target, cid, verb, source, the token that asked
          pc,           \* per token: the caller
          mail,         \* per token: what its oneshot holds
          outcome,      \* per token: what the caller was told
          host          \* per token: the plugin's side

clientVars == <<alive, pending, reader, writer>>
routerVars == <<NEXT_CID, cid, by_shelf, handle, unloading>>
callVars == <<req, pc, mail, outcome>>
dispatchVars == <<routerVars, clientVars, up, callVars, host>>

Tokens == 1..MaxTokens
Nobody == 0
Gone == MaxTokens + 1
Cids == 0..(MaxTokens + 3)
Verbs == {"request", "push", "unload"}
NoReq == [to |-> CHOOSE p \in Plugins : TRUE, cid |-> 0, verb |-> "request",
          source |-> "server", parent |-> Nobody]

To(n) == req[n].to
On(p) == {n \in Tokens : pc[n] # "new" /\ To(n) = p}
At(p, places) == {n \in On(p) : host[n] \in places}
Fresh(n) == pc[n] = "new" /\ \A m \in 1..(n - 1) : pc[m] # "new"
\* Calls that hold the entry's read guard.
Readers(p) == {n \in On(p) : req[n].verb = "request" /\ pc[n] \in {"register", "send", "wait"}}
\* Handlers that hold the host's read lock on the plugin.
Handlers(p) == At(p, {"run", "asked", "nested", "answered"})

DispatchInit ==
    /\ NEXT_CID = 3                    \* two requests have gone elsewhere
    /\ cid = [p \in Plugins |-> 3]      \* describe and load have taken 1 and 2
    /\ by_shelf = Plugins
    /\ handle = [p \in Plugins |-> TRUE]
    /\ unloading = {}
    /\ alive = [p \in Plugins |-> TRUE]
    /\ pending = [p \in Plugins |-> [c \in Cids |-> Nobody]]
    /\ reader = [p \in Plugins |-> "reading"]
    /\ writer = [p \in Plugins |-> "writing"]
    /\ up = [p \in Plugins |-> TRUE]
    /\ req = [n \in Tokens |-> NoReq]
    /\ pc = [n \in Tokens |-> "new"]
    /\ mail = [n \in Tokens |-> Nobody]
    /\ outcome = [n \in Tokens |-> "none"]
    /\ host = [n \in Tokens |-> "none"]

End(n, told) ==
    /\ pc' = [pc EXCEPT ![n] = "ended"]
    /\ outcome' = [outcome EXCEPT ![n] = told]
Step(n, where) == pc' = [pc EXCEPT ![n] = where] /\ UNCHANGED outcome

-----------------------------------------------------------------------------
\* The steward's calls.

\* A cid for a request to p: the server's counter, the constant 0 of appointments,
\* watches, reconciliation and source verbs, or the client's own counter.
TakeCid(source, p) ==
    CASE source = "server" -> NEXT_CID' = NEXT_CID + 1 /\ UNCHANGED cid
      [] source = "client" -> cid' = [cid EXCEPT ![p] = @ + 1] /\ UNCHANGED NEXT_CID
      [] OTHER -> UNCHANGED <<NEXT_CID, cid>>
CidOf(source, p) ==
    CASE source = "server" -> NEXT_CID [] source = "client" -> cid[p] [] OTHER -> 0

handle_request(n, p, source) ==
    /\ Fresh(n)
    /\ p \in by_shelf
    /\ req' = [req EXCEPT ![n] = [to |-> p, cid |-> CidOf(source, p),
                                  verb |-> "request", source |-> source, parent |-> Nobody]]
    /\ TakeCid(source, p)
    /\ Step(n, "guard")
    /\ UNCHANGED <<by_shelf, handle, unloading, clientVars, up, mail, host>>

\* The entry's read guard: nobody passes a queued writer.
ReadGuard(n) ==
    /\ pc[n] = "guard"
    /\ To(n) \notin unloading
    /\ IF handle[To(n)] THEN Step(n, "register") ELSE End(n, "unloaded")
    /\ UNCHANGED <<routerVars, clientVars, up, req, mail, host>>

\* WireClient::request up to the send.  An entry under the same cid is dropped.
Register(n) ==
    /\ pc[n] = "register"
    /\ IF alive[To(n)]
       THEN pending' = [pending EXCEPT ![To(n)][req[n].cid] = n] /\ Step(n, "send")
       ELSE UNCHANGED pending /\ End(n, "disconnected")
    /\ UNCHANGED <<routerVars, alive, reader, writer, up, req, mail, host>>

Send(n) ==
    /\ pc[n] = "send"
    /\ IF writer[To(n)] = "writing"
       THEN /\ host' = [host EXCEPT ![n] = "out"]
            /\ Step(n, "wait")
            /\ UNCHANGED pending
       ELSE /\ pending' = [pending EXCEPT ![To(n)][req[n].cid] = Nobody]
            /\ End(n, "disconnected")
            /\ UNCHANGED host
    /\ UNCHANGED <<routerVars, alive, reader, writer, up, req, mail>>

\* resp_rx.await: a frame, a Disconnected from the drain, or a dropped sender.
Wake(n) ==
    /\ pc[n] = "wait"
    /\ \/ /\ mail[n] # Nobody
          /\ End(n, IF mail[n] = Gone THEN "disconnected" ELSE "answered")
          /\ UNCHANGED pending
       \/ /\ mail[n] = Nobody
          /\ pending[To(n)][req[n].cid] # n
          /\ pending' = [pending EXCEPT ![To(n)][req[n].cid] = Nobody]
          /\ End(n, "disconnected")
    /\ UNCHANGED <<routerVars, alive, reader, writer, up, req, mail, host>>

\* A steward event (audio routing, credentials, rooms): nobody waits for its ack.
push(n, p) ==
    /\ Fresh(n)
    /\ Cardinality({m \in Tokens : req[m].verb = "push"}) < MaxPushes
    /\ handle[p]
    /\ writer[p] = "writing"
    /\ req' = [req EXCEPT ![n] = [to |-> p, cid |-> cid[p], verb |-> "push",
                                  source |-> "client", parent |-> Nobody]]
    /\ cid' = [cid EXCEPT ![p] = @ + 1]
    /\ host' = [host EXCEPT ![n] = "out"]
    /\ Step(n, "ended")
    /\ UNCHANGED <<NEXT_CID, by_shelf, handle, unloading, clientVars, up, mail>>

-----------------------------------------------------------------------------
\* Unload: the entry leaves the router, the write guard waits for the calls in
\* flight, the handle is taken, the verb goes over the wire, the client is dropped.
remove(n, p) ==
    /\ Fresh(n)
    /\ p \in by_shelf
    /\ by_shelf' = by_shelf \ {p}
    /\ unloading' = unloading \cup {p}
    /\ req' = [req EXCEPT ![n] = [to |-> p, cid |-> 0, verb |-> "unload",
                                  source |-> "client", parent |-> Nobody]]
    /\ Step(n, "write")
    /\ UNCHANGED <<NEXT_CID, cid, handle, clientVars, up, mail, host>>

\* Mutant: the unload takes a read guard and runs beside the calls.
UnloadUnguarded(n) ==
    /\ pc[n] = "write"
    /\ handle' = [handle EXCEPT ![To(n)] = FALSE]
    /\ req' = [req EXCEPT ![n].cid = cid[To(n)]]
    /\ cid' = [cid EXCEPT ![To(n)] = @ + 1]
    /\ Step(n, "register")
    /\ UNCHANGED <<NEXT_CID, by_shelf, unloading, clientVars, up, mail, host>>

unload_handle(n) ==
    /\ pc[n] = "write"
    /\ Readers(To(n)) = {}
    /\ handle' = [handle EXCEPT ![To(n)] = FALSE]
    /\ req' = [req EXCEPT ![n].cid = cid[To(n)]]
    /\ cid' = [cid EXCEPT ![To(n)] = @ + 1]
    /\ Step(n, "register")
    /\ UNCHANGED <<NEXT_CID, by_shelf, unloading, clientVars, up, mail, host>>

\* Dropping the client aborts both loops, with a dispatch its reader was running; the
\* child is reaped.
unload_one_plugin(n) ==
    LET p == To(n)
        Cut(m) == req[m].parent # Nobody /\ To(req[m].parent) = p /\ pc[m] \notin {"new", "ended"}
    IN  /\ req[n].verb = "unload" /\ pc[n] = "ended" /\ p \in unloading
        /\ unloading' = unloading \ {p}
        /\ reader' = [reader EXCEPT ![p] = "stopped"]
        /\ writer' = [writer EXCEPT ![p] = "stopped"]
        /\ pending' = [pending EXCEPT ![p] = [c \in Cids |-> Nobody]]
        /\ up' = [up EXCEPT ![p] = FALSE]
        /\ pc' = [m \in Tokens |-> IF Cut(m) THEN "ended" ELSE pc[m]]
        /\ outcome' = [m \in Tokens |-> IF Cut(m) THEN "aborted" ELSE outcome[m]]
        /\ host' = [m \in Tokens |-> IF m \in On(p) THEN "over" ELSE host[m]]
        /\ UNCHANGED <<NEXT_CID, cid, by_shelf, handle, alive, req, mail>>

-----------------------------------------------------------------------------
\* The connection's loops.

\* Mutant: senders are drained and the flag is left set.
DrainOnly(p) ==
    /\ alive' = alive
    /\ mail' = [n \in Tokens |-> IF \E c \in Cids : pending[p][c] = n THEN Gone ELSE mail[n]]
    /\ pending' = [pending EXCEPT ![p] = [c \in Cids |-> Nobody]]
\* Mutant: the flag is cleared and the callers are left waiting.
DisableOnly(p) ==
    /\ alive' = [alive EXCEPT ![p] = FALSE]
    /\ UNCHANGED <<mail, pending>>
drain_and_disable(p) ==
    /\ alive' = [alive EXCEPT ![p] = FALSE]
    /\ mail' = [n \in Tokens |-> IF \E c \in Cids : pending[p][c] = n THEN Gone ELSE mail[n]]
    /\ pending' = [pending EXCEPT ![p] = [c \in Cids |-> Nobody]]

\* handle_inbound_frame for a response or an ack.
handle_inbound_frame(n) ==
    LET p == To(n)
        m == pending[p][req[n].cid]
    IN  /\ host[n] = "replied"
        /\ reader[p] = "reading"
        /\ host' = [host EXCEPT ![n] = "over"]
        /\ IF m = Nobody
           THEN UNCHANGED <<pending, mail>>
           ELSE /\ pending' = [pending EXCEPT ![p][req[n].cid] = Nobody]
                /\ mail' = [mail EXCEPT ![m] = n]
        /\ UNCHANGED <<routerVars, alive, reader, writer, up, req, pc, outcome>>

\* A dispatch to another shelf: the reader loop itself makes the call.
forward_plugin_request(n) ==
    LET m == req[n].parent
        p == To(m)
    IN  /\ pc[n] = "asked"
        /\ host[m] = "asked"
        /\ reader[p] = "reading"
        /\ reader' = [reader EXCEPT ![p] = "busy"]
        /\ host' = [host EXCEPT ![m] = "nested"]
        /\ IF To(n) \in by_shelf
           THEN /\ req' = [req EXCEPT ![n].cid = NEXT_CID]
                /\ NEXT_CID' = NEXT_CID + 1
                /\ Step(n, "guard")
           ELSE UNCHANGED <<req, NEXT_CID>> /\ End(n, "refused")
        /\ UNCHANGED <<cid, by_shelf, handle, unloading, alive, pending, writer, up, mail>>

\* The dispatch has returned: its response goes to the writer and the reader reads on.
ForwardResponse(n) ==
    LET m == req[n].parent
        p == To(m)
    IN  /\ pc[n] = "ended" /\ m # Nobody
        /\ reader[p] = "busy" /\ host[m] = "nested"
        /\ reader' = [reader EXCEPT ![p] = "reading"]
        /\ host' = [host EXCEPT ![m] = IF writer[p] = "writing" THEN "answered" ELSE "over"]
        /\ UNCHANGED <<routerVars, alive, pending, writer, up, callVars>>

\* The peer is gone and everything it wrote has been read.
PeerClosed(p) ==
    /\ reader[p] = "reading" /\ ~up[p]
    /\ At(p, {"replied", "asked"}) = {}
    /\ reader' = [reader EXCEPT ![p] = "stopped"]
    /\ drain_and_disable(p)
    /\ UNCHANGED <<routerVars, writer, up, req, pc, outcome, host>>

\* writer_loop meets a closed socket.
WriteFails(p) ==
    /\ writer[p] = "writing" /\ ~up[p]
    /\ At(p, {"out", "answered"}) # {}
    /\ writer' = [writer EXCEPT ![p] = "stopped"]
    /\ host' = [n \in Tokens |-> IF n \in At(p, {"out", "answered"}) THEN "over" ELSE host[n]]
    /\ drain_and_disable(p)
    /\ UNCHANGED <<routerVars, reader, up, req, pc, outcome>>

-----------------------------------------------------------------------------
\* The plugin's host.

HandoffFull(p) == Cardinality(At(p, {"handoff"})) >= HandoffCap

\* reader_loop_serve: responses go to the waiting handler, requests to the dispatch
\* loop, and the reader waits with a request in hand while the queue is full.
reader_loop_serve(n) ==
    LET p == To(n)
    IN  /\ up[p]
        /\ \/ /\ host[n] = "out" /\ At(p, {"held"}) = {}
              /\ host' = [host EXCEPT ![n] = IF HandoffFull(p) THEN "held" ELSE "handoff"]
           \/ /\ host[n] = "held" /\ ~HandoffFull(p)
              /\ host' = [host EXCEPT ![n] = "handoff"]
           \/ /\ host[n] = "answered" /\ At(p, {"held"}) = {}
              /\ host' = [host EXCEPT ![n] = "run"]
        /\ UNCHANGED <<routerVars, clientVars, up, callVars>>

\* dispatch_loop: a request is spawned; any other frame waits in line for the write lock.
dispatch_loop(n) ==
    /\ host[n] = "handoff"
    /\ At(To(n), {"barrier"}) = {}
    /\ host' = [host EXCEPT ![n] = IF req[n].verb = "request" THEN "spawned" ELSE "barrier"]
    /\ UNCHANGED <<routerVars, clientVars, up, callVars>>

\* handle_frame under the write lock.
handle_frame(n) ==
    /\ host[n] = "barrier"
    /\ Handlers(To(n)) = {}
    /\ host' = [host EXCEPT ![n] = "replied"]
    /\ UNCHANGED <<routerVars, clientVars, up, callVars>>

\* dispatch_handle_request: the read lock, then the plugin's own code.
dispatch_handle_request(n) ==
    /\ \/ /\ host[n] = "spawned" /\ At(To(n), {"barrier"}) = {}
          /\ host' = [host EXCEPT ![n] = "run"]
       \/ /\ host[n] = "run"
          /\ host' = [host EXCEPT ![n] = "replied"]
    /\ UNCHANGED <<routerVars, clientVars, up, callVars>>

\* The handler dispatches to a shelf of q and awaits the answer.
dispatch(m, n, q) ==
    /\ host[m] = "run" /\ <<To(m), q>> \in Reaches
    /\ Fresh(n)
    /\ host' = [host EXCEPT ![m] = "asked"]
    /\ req' = [req EXCEPT ![n] = [to |-> q, cid |-> 0, verb |-> "request",
                                  source |-> "server", parent |-> m]]
    /\ Step(n, "asked")
    /\ UNCHANGED <<routerVars, clientVars, up, mail>>

\* The process dies.  What it has written may still be read.
Die(p) ==
    /\ up[p]
    /\ Cardinality({q \in Plugins : ~up[q]}) < MaxDeaths
    /\ up' = [up EXCEPT ![p] = FALSE]
    /\ \E lost \in SUBSET At(p, {"replied", "asked"}) :
         host' = [n \in Tokens |->
                    IF n \in lost \cup At(p, {"held", "handoff", "barrier", "spawned", "run"})
                    THEN "over" ELSE host[n]]
    /\ UNCHANGED <<routerVars, clientVars, callVars>>

-----------------------------------------------------------------------------
\* What the runtime does by itself, once there is something to do.
Progress ==
    \/ \E n \in Tokens :
         \/ ReadGuard(n) \/ Register(n) \/ Send(n) \/ Wake(n)
         \/ unload_handle(n) \/ unload_one_plugin(n)
         \/ handle_inbound_frame(n) \/ forward_plugin_request(n) \/ ForwardResponse(n)
         \/ reader_loop_serve(n) \/ dispatch_loop(n) \/ handle_frame(n)
         \/ dispatch_handle_request(n)
    \/ \E p \in Plugins : PeerClosed(p) \/ WriteFails(p)

DispatchNext ==
    \/ Progress
    \/ \E n \in Tokens, p \in Plugins :
         \/ \E source \in Sources[p] : handle_request(n, p, source)
         \/ push(n, p)
         \/ remove(n, p)
         \/ \E m \in Tokens : dispatch(m, n, p)
    \/ \E p \in Plugins : Die(p)

DispatchSpec == DispatchInit /\ [][DispatchNext]_dispatchVars /\ WF_dispatchVars(Progress)

-----------------------------------------------------------------------------
\* Another exchange on the same connection has the same cid.
Shared(n) ==
    \E m \in On(To(n)) \ {n} :
      pc[m] \notin {"asked", "write"} /\ outcome[m] # "refused" /\ req[m].cid = req[n].cid

\* A call whose cid is its own is answered with its own reply, and is told Disconnected
\* only when the connection is down (request, handle_inbound_frame, drain_and_disable).
OwnReply ==
    \A n \in Tokens :
      pc[n] = "ended" /\ req[n].verb # "push" /\ ~Shared(n) =>
        /\ outcome[n] = "answered" => mail[n] = n
        /\ outcome[n] = "disconnected" => ~alive[To(n)] \/ writer[To(n)] = "stopped"

\* While a plugin runs its unload nobody's request runs in it: the guard on the entry
\* and the lock in the host keep them apart (unload_handle, dispatch_loop).  A call aborted
\* with the reader loop that made it has given up its guard and may still run.
UnloadAlone ==
    \A n \in Tokens :
      req[n].verb = "unload" /\ host[n] \in {"out", "held", "handoff", "barrier", "replied"} =>
        \A m \in At(To(n), {"out", "held", "handoff", "spawned"}) \cup Handlers(To(n)) :
          req[m].verb = "request" => Shared(m) \/ outcome[m] = "aborted"

\* The host's reader has a request in hand, the handoff queue behind a frame that waits
\* for the write lock is full, and a handler awaits a reply only that reader can deliver.
Jammed(p) == At(p, {"held"}) # {} /\ At(p, {"barrier"}) # {}
               /\ At(p, {"asked", "nested", "answered"}) # {}

\* Every call, and every unload, comes to an end unless a host jams: again and again no
\* task of the steward is inside a call (the calls of an instance are finitely many).
CallsEnd == []<>(\/ \A n \in Tokens : pc[n] \in {"new", "asked", "ended"}
                 \/ \E p \in Plugins : Jammed(p))
=============================================================================
