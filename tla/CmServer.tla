------------------------------ MODULE CmServer ------------------------------
(***************************************************************************)
(* The connection server of c/ibtest: the event loop and the completion    *)
(* thread of ib-conn.c, with the handlers that file declares and cm-conn.c *)
(* defines.  Peers, the connection manager (a queue of events) and the     *)
(* adapter (queue pairs and the completion queue) are external.            *)
(*                                                                         *)
(* A connection of Conn is lived once: its identifier (rdma_cm_id), its    *)
(* structure, its memory and its peer.  The completion queue is a bag: no  *)
(* behaviour depends on the order between queue pairs.                     *)
(***************************************************************************)
EXTENDS Integers, Sequences

CONSTANTS Conn,     \* connections that may be requested
          NoConn,   \* a pointer to nothing that is or was a connection
          Device,   \* adapters they may arrive at
          NoDevice, \* s_ctx is NULL
          MaxMsgs,  \* bound: messages of one peer
          Faults    \* subset of AllFaults that may happen

\* "leave": a peer disconnects once it has the server's message; "abort": at any
\* time, also before it is accepted; "burst": it sends more than the server receives;
\* "verb": a call under TEST_Z or TEST_NZ fails; "event": rdma_get_cm_event fails;
\* "poll": ibv_poll_cq does.
AllFaults == {"leave", "abort", "burst", "verb", "event", "poll"}

ASSUME ConnAssumption == Conn # {} /\ NoConn \notin Conn
ASSUME DeviceAssumption == Device # {} /\ NoDevice \notin Device
ASSUME SizeAssumption == MaxMsgs \in Nat
ASSUME FaultAssumption == Faults \subseteq AllFaults

VARIABLES
    mpc,     \* what the main thread does next
    cur,     \* the event it handles
    ctx,     \* s_ctx->ctx
    ppc,     \* what the completion thread does next
    wc,      \* the completion it handles
    cq, armed, events, \* the queue; the next completion raises an event; raised, not yet got
    conn,    \* the connection's structure and identifier
    recvs,   \* receives posted on its queue pair
    sends,   \* the server's message
    text,    \* the content of recv_region
    peer,    \* the other side
    sent,    \* messages it sent
    cmq,     \* events of the connection manager
    unacked, \* connections with an event got and not acknowledged
    dev,     \* the adapter each connection arrives at
    printed, refused \* connections whose message was reported; whose first was refused (auxiliary)

mainVars == <<mpc, cur, ctx, unacked>>
cqVars   == <<cq, armed, events>>
connVars == <<conn, recvs, sends, text>>
peerVars == <<peer, sent, cmq, dev, refused>>
vars     == <<mainVars, ppc, wc, cqVars, connVars, peerVars, printed>>

Kind       == {"recv", "send", "error"}
Completion == Conn \X Kind
Event      == [kind : {"request", "established", "disconnected", "other"}, id : Conn]

Running == mpc # "exited"
Empty   == \A x \in Completion : cq[x] = 0

\* The wc of poll_cq is not initialised: what a failing poll leaves in it may look
\* like any completion, whose pointer leads nowhere.  The adapters are named after one
\* connection's: their names do not matter.
Init ==
    /\ mpc = "listen" /\ cur = [kind |-> "request", id |-> CHOOSE c \in Conn : TRUE]
    /\ ctx = NoDevice
    /\ ppc = "none" /\ wc \in {NoConn} \X Kind
    /\ cq = [x \in Completion |-> 0] /\ armed = FALSE /\ events = 0
    /\ conn = [c \in Conn |-> "none"]
    /\ recvs = [c \in Conn |-> 0]
    /\ sends = [c \in Conn |-> "none"]
    /\ text = [c \in Conn |-> "unset"]
    /\ peer = [c \in Conn |-> "idle"]
    /\ sent = [c \in Conn |-> 0]
    /\ cmq = <<>> /\ unacked = {}
    /\ dev \in [Conn -> Device]
    /\ dev[CHOOSE c \in Conn : TRUE] = CHOOSE d \in Device : TRUE
    /\ printed = {} /\ refused = {}

-----------------------------------------------------------------------------
(* The connection manager, the adapter and the peers                       *)

Raise(kind, c) == cmq' = Append(cmq, [kind |-> kind, id |-> c])

\* A completion; the first one after ibv_req_notify_cq raises an event.
Complete(x) ==
    /\ cq' = [cq EXCEPT ![x] = @ + 1]
    /\ events' = IF armed THEN events + 1 ELSE events
    /\ armed' = FALSE

Request(c) ==
    /\ mpc # "listen" /\ peer[c] = "idle"
    /\ peer' = [peer EXCEPT ![c] = "requesting"]
    /\ Raise("request", c)
    /\ UNCHANGED <<mainVars, ppc, wc, cqVars, connVars, sent, dev, refused, printed>>

\* The accepted peer answers and may send at once.
Establish(c) ==
    /\ peer[c] = "accepted"
    /\ peer' = [peer EXCEPT ![c] = "connected"]
    /\ Raise("established", c)
    /\ UNCHANGED <<mainVars, ppc, wc, cqVars, connVars, sent, dev, refused, printed>>

\* A message of the peer arrives in recv_region.
PeerSend(c) ==
    /\ peer[c] = "connected" /\ sent[c] < MaxMsgs /\ recvs[c] > 0
    /\ sent' = [sent EXCEPT ![c] = @ + 1]
    /\ recvs' = [recvs EXCEPT ![c] = @ - 1]
    /\ text' = [text EXCEPT ![c] = "message"]
    /\ Complete(<<c, "recv">>)
    /\ UNCHANGED <<mainVars, ppc, wc, conn, sends, peer, cmq, dev, refused, printed>>

\* Without a receive it is refused: no retry was asked for (cm_params is zero),
\* and the peer gives up.
Refuse(c) ==
    /\ peer[c] = "connected" /\ sent[c] < MaxMsgs /\ recvs[c] = 0
    /\ sent[c] = 0 \/ "burst" \in Faults
    /\ refused' = IF sent[c] = 0 THEN refused \cup {c} ELSE refused
    /\ peer' = [peer EXCEPT ![c] = "gone"]
    /\ Raise("disconnected", c)
    /\ UNCHANGED <<mainVars, ppc, wc, cqVars, connVars, sent, dev, printed>>

Deliver(c) ==
    /\ sends[c] = "flight" /\ peer[c] = "connected"
    /\ sends' = [sends EXCEPT ![c] = "delivered"]
    /\ Complete(<<c, "send">>)
    /\ UNCHANGED <<mainVars, ppc, wc, conn, recvs, text, peerVars, printed>>

SendFails(c) ==
    /\ sends[c] = "flight" /\ peer[c] = "gone"
    /\ sends' = [sends EXCEPT ![c] = "failed"]
    /\ Complete(<<c, "error">>)
    /\ UNCHANGED <<mainVars, ppc, wc, conn, recvs, text, peerVars, printed>>

Disconnect(c) ==
    /\ \/ "leave" \in Faults /\ peer[c] = "connected" /\ sends[c] = "delivered"
       \/ "abort" \in Faults /\ peer[c] \in {"requesting", "accepted", "connected"}
    /\ peer' = [peer EXCEPT ![c] = IF @ = "requesting" THEN "withdrawn" ELSE "gone"]
    /\ Raise(IF peer[c] = "connected" THEN "disconnected" ELSE "other", c)
    /\ UNCHANGED <<mainVars, ppc, wc, cqVars, connVars, sent, dev, refused, printed>>

-----------------------------------------------------------------------------
(* The main thread                                                         *)

die == mpc' = "exited" /\ UNCHANGED <<cur, ctx, unacked>>

\* The event channel and the listener, bound to any free port.
Listen ==
    /\ mpc = "listen"
    /\ mpc' = "wait"
    /\ UNCHANGED <<cur, ctx, unacked, ppc, wc, cqVars, connVars, peerVars, printed>>

GetEvent ==
    /\ mpc = "wait" /\ cmq # <<>>
    /\ cur' = Head(cmq) /\ cmq' = Tail(cmq)
    /\ unacked' = unacked \cup {Head(cmq).id}
    /\ mpc' = "event"
    /\ UNCHANGED <<ctx, ppc, wc, cqVars, connVars, peer, sent, dev, refused, printed>>

\* The loop ends: the listener and the channel are destroyed and main returns.
LoopEnds ==
    /\ mpc = "wait" /\ "event" \in Faults
    /\ die
    /\ UNCHANGED <<ppc, wc, cqVars, connVars, peerVars, printed>>

\* Mutant: two kinds are mixed up.
handlerSwapped(kind) ==
    CASE kind = "request"      -> "context"
      [] kind = "established"  -> "destroy_qp"
      [] kind = "disconnected" -> "connection"
      [] OTHER                 -> "exited"

handler(kind) ==
    CASE kind = "request"      -> "context"
      [] kind = "established"  -> "connection"
      [] kind = "disconnected" -> "destroy_qp"
      [] OTHER                 -> "exited"

\* Mutant: the event is acknowledged after its handler, that is, not before
\* rdma_destroy_id.
OnEventAcksLate ==
    /\ mpc = "event"
    /\ mpc' = handler(cur.kind)
    /\ UNCHANGED <<unacked, cur, ctx, ppc, wc, cqVars, connVars, peerVars, printed>>

\* The event is copied and acknowledged, then handled; any other kind is fatal.
OnEvent ==
    /\ mpc = "event"
    /\ unacked' = unacked \ {cur.id}
    /\ mpc' = handler(cur.kind)
    /\ UNCHANGED <<cur, ctx, ppc, wc, cqVars, connVars, peerVars, printed>>

\* The first request creates what all connections share; one at another adapter
\* is fatal.
BuildContext ==
    /\ mpc = "context"
    /\ IF ctx = NoDevice
       THEN /\ ctx' = dev[cur.id] /\ armed' = TRUE /\ ppc' = "get" /\ mpc' = "prepare"
       ELSE /\ mpc' = IF ctx = dev[cur.id] THEN "prepare" ELSE "exited"
            /\ UNCHANGED <<ctx, armed, ppc>>
    /\ UNCHANGED <<unacked, cur, wc, cq, events, connVars, peerVars, printed>>

\* The queue pair, the structure and its memory.
PrepareConn ==
    /\ mpc = "prepare"
    /\ conn' = [conn EXCEPT ![cur.id] = "live"]
    /\ mpc' = "receives"
    /\ UNCHANGED <<cur, ctx, unacked, ppc, wc, cqVars, recvs, sends, text, peerVars, printed>>

\* Mutant: no receive.
post_none(c) == UNCHANGED recvs
post_receives(c) == recvs' = [recvs EXCEPT ![c] = @ + 1]

PostReceives ==
    /\ mpc = "receives"
    /\ post_receives(cur.id)
    /\ mpc' = "accept"
    /\ UNCHANGED <<cur, ctx, unacked, ppc, wc, cqVars, conn, sends, text, peerVars, printed>>

\* Nobody is left to hear it when the peer has withdrawn (or the call fails).
Accept ==
    /\ mpc = "accept"
    /\ peer' = [peer EXCEPT ![cur.id] = IF @ = "requesting" THEN "accepted" ELSE @]
    /\ mpc' = "wait"
    /\ UNCHANGED <<cur, ctx, unacked, ppc, wc, cqVars, connVars, sent, cmq, dev, refused, printed>>

OnConnection ==
    /\ mpc = "connection"
    /\ sends' = [sends EXCEPT ![cur.id] = "flight"]
    /\ mpc' = "wait"
    /\ UNCHANGED <<cur, ctx, unacked, ppc, wc, cqVars, conn, recvs, text, peerVars, printed>>

\* Mutant: the queue pair outlives the connection.
EndNothing(c) == UNCHANGED <<recvs, sends, cq>>

\* Destroying the queue pair ends its requests and removes their completions.
EndRequests(c) ==
    /\ recvs' = [recvs EXCEPT ![c] = 0]
    /\ sends' = [sends EXCEPT ![c] = IF @ = "flight" THEN "none" ELSE @]
    /\ cq' = [x \in Completion |-> IF x[1] = c THEN 0 ELSE cq[x]]

DestroyQp ==
    /\ mpc = "destroy_qp"
    /\ EndRequests(cur.id)
    /\ mpc' = "free"
    /\ UNCHANGED <<cur, ctx, unacked, ppc, wc, armed, events, conn, text, peerVars, printed>>

FreeConn ==
    /\ mpc = "free"
    /\ conn' = [conn EXCEPT ![cur.id] = "freed"]
    /\ mpc' = "destroy_id"
    /\ UNCHANGED <<cur, ctx, unacked, ppc, wc, cqVars, recvs, sends, text, peerVars, printed>>

\* rdma_destroy_id waits until every event of the identifier is acknowledged.
DestroyId ==
    /\ mpc = "destroy_id" /\ cur.id \notin unacked
    /\ conn' = [conn EXCEPT ![cur.id] = "destroyed"]
    /\ mpc' = "wait"
    /\ UNCHANGED <<cur, ctx, unacked, ppc, wc, cqVars, recvs, sends, text, peerVars, printed>>

\* The steps of main.
Main ==
    \/ Listen \/ GetEvent \/ OnEvent
    \/ BuildContext \/ PrepareConn \/ PostReceives \/ Accept
    \/ OnConnection
    \/ DestroyQp \/ FreeConn \/ DestroyId

-----------------------------------------------------------------------------
(* The completion thread                                                   *)

GetCqEvent ==
    /\ Running /\ ppc = "get" /\ events > 0
    /\ events' = events - 1
    /\ ppc' = "notify"
    /\ UNCHANGED <<mainVars, wc, cq, armed, connVars, peerVars, printed>>

\* Mutant: the next event is asked for only when the queue is empty again.
ReqNotifyLate ==
    /\ Running /\ ppc = "notify"
    /\ ppc' = "poll"
    /\ UNCHANGED <<armed, mainVars, wc, cq, events, connVars, peerVars, printed>>
ReqNotify ==
    /\ Running /\ ppc = "notify"
    /\ armed' = TRUE
    /\ ppc' = "poll"
    /\ UNCHANGED <<mainVars, wc, cq, events, connVars, peerVars, printed>>

\* Mutant: one completion for each event.
PollOnce ==
    /\ Running /\ ppc = "poll"
    /\ \/ /\ Empty
          /\ ppc' = "get" /\ UNCHANGED <<wc, cq>>
       \/ \E x \in Completion :
             /\ cq[x] > 0
             /\ cq' = [cq EXCEPT ![x] = @ - 1]
             /\ ppc' = IF x[2] = "recv" THEN "completion" ELSE "get"
             /\ wc' = x
    /\ UNCHANGED <<mainVars, armed, events, connVars, peerVars, printed>>

PollCq ==
    /\ Running /\ ppc = "poll"
    /\ \/ /\ Empty
          /\ ppc' = "get" /\ UNCHANGED <<wc, cq>>
       \/ \E x \in Completion :
             /\ cq[x] > 0
             /\ cq' = [cq EXCEPT ![x] = @ - 1]
             /\ ppc' = "completion" /\ wc' = x
    /\ UNCHANGED <<mainVars, armed, events, connVars, peerVars, printed>>

\* A negative result ends no loop: the completion polled before is handled again.
PollFails ==
    /\ Running /\ ppc = "poll" /\ "poll" \in Faults
    /\ ppc' = "completion"
    /\ UNCHANGED <<mainVars, wc, cqVars, connVars, peerVars, printed>>

\* The connections whose memory is there.
Readable == {c \in Conn : conn[c] = "live"}

\* A failed request is fatal; a received message is printed from the memory the
\* completion points to, whether main has freed the connection in the meantime or
\* not.  From memory that is not there (any more) anything may be printed, or the
\* process ends.
OnCompletion ==
    /\ Running /\ ppc = "completion"
    /\ \/ wc[2] = "send" /\ UNCHANGED <<mainVars, printed>>
       \/ wc[2] = "error" /\ die /\ UNCHANGED printed
       \/ /\ wc[2] = "recv" /\ wc[1] # NoConn
          /\ printed' = printed \cup {wc[1]}
          /\ UNCHANGED mainVars
       \/ /\ wc[2] = "recv" /\ wc[1] \notin Readable
          /\ UNCHANGED mainVars \/ die
          /\ UNCHANGED printed
    /\ ppc' = "poll"
    /\ UNCHANGED <<wc, cqVars, connVars, peerVars>>

\* The steps of poll_cq.
Poller == GetCqEvent \/ ReqNotify \/ PollCq \/ OnCompletion

\* A call under TEST_Z or TEST_NZ fails, in either thread.
VerbFails ==
    /\ "verb" \in Faults
    /\ \/ mpc \in {"listen", "context", "prepare", "receives", "accept", "connection"}
       \/ Running /\ ppc \in {"get", "notify"}
    /\ die
    /\ UNCHANGED <<ppc, wc, cqVars, connVars, peerVars, printed>>

-----------------------------------------------------------------------------
Network(c) == Establish(c) \/ Deliver(c) \/ SendFails(c)

Peers == \E c \in Conn :
    Running /\ (Network(c) \/ Request(c) \/ PeerSend(c) \/ Refuse(c) \/ Disconnect(c))

Next == Peers \/ Main \/ Poller \/ PollFails \/ LoopEnds \/ VerbFails

Spec == Init /\ [][Next]_vars

\* Both threads run, a queue that is polled again and again does not fail every
\* time, and the network delivers what was sent.  Peers do as they like.
FairSpec ==
    /\ Spec /\ WF_vars(Main) /\ WF_vars(Poller) /\ SF_vars(PollCq)
    /\ \A c \in Conn : WF_vars(Running /\ Network(c))

-----------------------------------------------------------------------------
(* Properties                                                              *)

TypeOK ==
    /\ mpc \in {"listen", "wait", "event", "context", "prepare", "receives", "accept", "connection",
                "destroy_qp", "free", "destroy_id", "exited"}
    /\ cur \in Event /\ ctx \in Device \cup {NoDevice}
    /\ ppc \in {"none", "get", "notify", "poll", "completion"}
    /\ wc \in (Conn \cup {NoConn}) \X Kind
    /\ cq \in [Completion -> Nat] /\ armed \in BOOLEAN /\ events \in Nat
    /\ conn \in [Conn -> {"none", "live", "freed", "destroyed"}]
    /\ recvs \in [Conn -> Nat]
    /\ sends \in [Conn -> {"none", "flight", "delivered", "failed"}]
    /\ text \in [Conn -> {"unset", "message"}]
    /\ peer \in [Conn -> {"idle", "requesting", "accepted", "connected", "gone", "withdrawn"}]
    /\ sent \in [Conn -> Nat] /\ cmq \in Seq(Event)
    /\ unacked \in SUBSET Conn /\ dev \in [Conn -> Device]
    /\ printed \in SUBSET Conn /\ refused \in SUBSET Conn

\* The completion thread never blocks in ibv_get_cq_event (ib-conn.c:58) with a
\* completion in the queue and no event on the way.
WakesUp == ppc = "get" /\ ~Empty => events > 0

\* A completion carries a pointer (ib-conn.c:62, cm-conn.c:52, 174): none is in the
\* queue whose connection was freed.
CqOnlyLive == \A x \in Completion : cq[x] > 0 => conn[x[1]] = "live"

\* The receive is posted before the peer can send (ib-conn.c:132, 135).
ReceiveReady == refused = {}

\* A message that arrived is reported, unless the peer disconnects first (or the
\* server ends).
Reported ==
    \A c \in Conn :
        text[c] = "message" ~> c \in printed \/ peer[c] = "gone" \/ ~Running

\* Every peer that asks for a connection gets the server's message, unless it leaves
\* first or the server ends (ib-conn.c:143-157): no request, event or completion of
\* one connection stands in the way of another.
Served ==
    \A c \in Conn :
        peer[c] = "requesting" ~>
            sends[c] = "delivered" \/ peer[c] \in {"gone", "withdrawn"} \/ ~Running

\* The identifier of a peer that disconnected is destroyed: rdma_destroy_id waits
\* for the acknowledgement of its events (ib-conn.c:182-183, cm-conn.c:228).
Released ==
    \A c \in Conn : peer[c] = "gone" ~> conn[c] = "destroyed" \/ ~Running

\* What a peer can see of its connection.
Stage(c) ==
    CASE conn[c] = "destroyed"                -> "released"
      [] conn[c] # "destroyed" /\ peer[c] = "gone" -> "left"
      [] peer[c] \in {"accepted", "connected"} -> IF sends[c] = "delivered" THEN "served" ELSE "open"
      [] peer[c] \in {"requesting", "withdrawn"} -> IF peer[c] = "requesting" THEN "asked" ELSE "withdrawn"
      [] OTHER                                -> "idle"

Life == INSTANCE ConnLife
            WITH stage <- [c \in Conn |-> Stage(c)], reported <- printed, up <- Running

\* The server keeps what ConnLife promises: two threads, one-shot notifications and
\* queued events (ib-conn.c:143-187, cm-conn.c:186-231) never accept, serve or release
\* a peer out of turn, and the completion thread, which looks at no state of the
\* connection (cm-conn.c:46-59), reports a message of no peer that was not accepted.
KeepsPromise == Life!Spec
=============================================================================
