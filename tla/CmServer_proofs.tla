-------------------------- MODULE CmServer_proofs ---------------------------
(***************************************************************************)
(* Theorems about CmServer for any number of connections, adapters and     *)
(* messages, and all faults.                                               *)
(***************************************************************************)
EXTENDS CmServer, TLAPS

LastKind == {"disconnected", "other"}
\* Peers that have left.
Away == {"gone", "withdrawn"}
Handling == {"event", "context", "prepare", "receives", "accept", "connection",
             "destroy_qp", "free", "destroy_id"}

-----------------------------------------------------------------------------
(* The inductive invariant                                                 *)

\* Of the next event, at most one is on the way, and one is asked for otherwise;
\* the thread goes to sleep only with the queue empty since it asked.
Wake ==
    /\ ctx = NoDevice => ppc = "none"
    /\ ppc \in {"none", "notify"} => ~armed /\ events = 0
    /\ ppc \in {"get", "poll", "completion"} => events = (IF armed THEN 0 ELSE 1)
    /\ ppc = "get" /\ armed => Empty

\* Before the shared context exists there is nothing to complete.
Unstarted ==
    ppc = "none" =>
        /\ Empty /\ ctx = NoDevice
        /\ \A c \in Conn : recvs[c] = 0 /\ sends[c] # "flight"
                          /\ peer[c] \in {"idle", "requesting", "withdrawn"}
        /\ mpc \in {"listen", "wait", "event", "context", "exited"}
        /\ cur.kind \in {"request", "other"}
        /\ \A k \in DOMAIN cmq : cmq[k].kind \in {"request", "other"}

\* An event says how far its peer is.
EventOK(k) ==
    /\ peer[cmq[k].id] # "idle"
    /\ cmq[k].kind = "request" => peer[cmq[k].id] \in {"requesting", "withdrawn"}
    /\ cmq[k].kind \in LastKind => peer[cmq[k].id] \in Away
    /\ cmq[k].kind = "disconnected" => peer[cmq[k].id] = "gone"
    /\ cmq[k].kind \in {"established", "disconnected"} => conn[cmq[k].id] = "live"

\* Nothing comes before the request of a connection, and nothing after its end.
PairOK(k, l) ==
    k < l /\ (cmq[k].kind \in LastKind \/ cmq[l].kind = "request") => cmq[k].id # cmq[l].id

Queued == \A k \in DOMAIN cmq : EventOK(k) /\ \A l \in DOMAIN cmq : PairOK(k, l)

\* The event in hand.
Current ==
    mpc \in Handling =>
        /\ mpc \in {"context", "prepare", "receives", "accept"} => cur.kind = "request"
        /\ mpc = "connection" => cur.kind = "established"
        /\ mpc \in {"destroy_qp", "free", "destroy_id"} => cur.kind = "disconnected"
        /\ peer[cur.id] # "idle"
        /\ cur.kind = "request" => peer[cur.id] \in {"requesting", "withdrawn"}
        /\ cur.kind \in LastKind => peer[cur.id] \in Away
        /\ cur.kind = "disconnected" => peer[cur.id] = "gone"
        /\ \A l \in DOMAIN cmq :
             cur.kind \in LastKind \/ cmq[l].kind = "request" => cur.id # cmq[l].id

\* A connection is there as long as anything refers to it.
Alive ==
    /\ \A c \in Conn : peer[c] \in {"accepted", "connected"} => conn[c] = "live"
    /\ \A c \in Conn : recvs[c] > 0 \/ sends[c] = "flight" => conn[c] = "live"
    /\ mpc \in {"receives", "accept", "connection", "destroy_qp", "free"} => conn[cur.id] = "live"
    /\ mpc = "event" /\ cur.kind \in {"established", "disconnected"} => conn[cur.id] = "live"
    /\ mpc = "free" => /\ recvs[cur.id] = 0 /\ sends[cur.id] # "flight"
                       /\ \A x \in Completion : x[1] = cur.id => cq[x] = 0
    /\ mpc = "destroy_id" => conn[cur.id] = "freed"

\* A peer that may send its first message finds a receive.
Ready ==
    /\ \A c \in Conn : peer[c] \in {"idle", "requesting", "accepted"} => sent[c] = 0
    /\ \A c \in Conn : peer[c] \in {"accepted", "connected"} /\ sent[c] = 0 => recvs[c] > 0
    /\ mpc = "accept" => recvs[cur.id] > 0

Order == Queued /\ Current
Memory == Alive /\ Ready /\ CqOnlyLive /\ ReceiveReady
IInv == TypeOK /\ Wake /\ Unstarted /\ Order /\ Memory

-----------------------------------------------------------------------------
(* Every step is one of the actions.                                       *)

\* All steps of the two threads and of the environment, one by one.
LEMMA StepCases ==
    ASSUME [Next]_vars
    PROVE  \/ \E c \in Conn : \/ Request(c) \/ Establish(c) \/ PeerSend(c) \/ Refuse(c)
                             \/ Deliver(c) \/ SendFails(c) \/ Disconnect(c)
           \/ GetEvent \/ OnEvent \/ BuildContext \/ PrepareConn \/ PostReceives
           \/ Accept \/ OnConnection \/ DestroyQp \/ FreeConn \/ DestroyId
           \/ GetCqEvent \/ ReqNotify \/ PollCq \/ OnCompletion \/ LoopEnds \/ VerbFails
           \/ Listen \/ PollFails \/ UNCHANGED vars
BY DEF Next, Peers, Network, Main, Poller

\* A completion keeps the types of the queue.
LEMMA CompleteType ==
    ASSUME cq \in [Completion -> Nat], armed \in BOOLEAN, events \in Nat,
           NEW x \in Completion, Complete(x)
    PROVE  cq' \in [Completion -> Nat] /\ armed' \in BOOLEAN /\ events' \in Nat
<1>1. cq' \in [Completion -> Nat]
  BY DEF Complete
<1>2. armed' \in BOOLEAN
  BY DEF Complete
<1>3. events' \in Nat
  BY DEF Complete
<1> QED BY <1>1, <1>2, <1>3

\* Every step keeps the types.
LEMMA TypeStep == TypeOK /\ [Next]_vars => TypeOK'
<1> SUFFICES ASSUME TypeOK, [Next]_vars PROVE TypeOK'
  OBVIOUS
<1> USE DEF TypeOK, mainVars, cqVars, connVars, peerVars
<1>1. ASSUME NEW c \in Conn, Request(c) PROVE TypeOK'
  BY <1>1, SMTT(20) DEF Request, Raise, Event
<1>2. ASSUME NEW c \in Conn, Establish(c) PROVE TypeOK'
  BY <1>2 DEF Establish, Raise, Event
<1>3. ASSUME NEW c \in Conn, PeerSend(c) PROVE TypeOK'
  <2>1. <<c, "recv">> \in Completion
    BY DEF Completion, Kind
  <2>2. cq' \in [Completion -> Nat] /\ armed' \in BOOLEAN /\ events' \in Nat
    BY <1>3, <2>1, CompleteType DEF PeerSend
  <2>3. recvs' \in [Conn -> Nat] /\ sent' \in [Conn -> Nat]
    BY <1>3 DEF PeerSend
  <2> QED BY <1>3, <2>2, <2>3 DEF PeerSend
<1>4. ASSUME NEW c \in Conn, Refuse(c) PROVE TypeOK'
  BY <1>4 DEF Refuse, Raise, Event
<1>5. ASSUME NEW c \in Conn, Deliver(c) PROVE TypeOK'
  <2>1. <<c, "send">> \in Completion
    BY DEF Completion, Kind
  <2>2. cq' \in [Completion -> Nat] /\ armed' \in BOOLEAN /\ events' \in Nat
    BY <1>5, <2>1, CompleteType DEF Deliver
  <2>3. recvs' \in [Conn -> Nat] /\ sent' \in [Conn -> Nat]
    BY <1>5 DEF Deliver
  <2> QED BY <1>5, <2>2, <2>3 DEF Deliver
<1>6. ASSUME NEW c \in Conn, SendFails(c) PROVE TypeOK'
  <2>1. <<c, "error">> \in Completion
    BY DEF Completion, Kind
  <2>2. cq' \in [Completion -> Nat] /\ armed' \in BOOLEAN /\ events' \in Nat
    BY <1>6, <2>1, CompleteType DEF SendFails
  <2>3. recvs' \in [Conn -> Nat] /\ sent' \in [Conn -> Nat]
    BY <1>6 DEF SendFails
  <2> QED BY <1>6, <2>2, <2>3 DEF SendFails
<1>7. ASSUME NEW c \in Conn, Disconnect(c) PROVE TypeOK'
  BY <1>7 DEF Disconnect, Raise, Event
<1>8. CASE GetEvent
  <2>1. Head(cmq) \in Event /\ Tail(cmq) \in Seq(Event)
    BY <1>8 DEF GetEvent
  <2>2. Head(cmq).id \in Conn
    BY <2>1 DEF Event
  <2> QED BY <1>8, <2>1, <2>2 DEF GetEvent
<1>9. CASE OnEvent
  BY <1>9 DEF OnEvent, handler, Event
<1>10. CASE BuildContext
  <2>1. cur.id \in Conn
    BY DEF Event
  <2>2. ctx' \in Device \cup {NoDevice} /\ UNCHANGED <<cur, wc, cq, events, unacked>>
    BY <1>10, <2>1 DEF BuildContext
  <2>3. armed' \in BOOLEAN
    BY <1>10 DEF BuildContext
  <2>4. mpc' \in {"prepare", "exited"} /\ ppc' \in {ppc, "get"}
    BY <1>10 DEF BuildContext
  <2> QED BY <1>10, <2>2, <2>3, <2>4 DEF BuildContext
<1>11. CASE PrepareConn
  BY <1>11 DEF PrepareConn, Event
<1>12. CASE PostReceives
  <2>1. cur.id \in Conn /\ recvs[cur.id] \in Nat
    BY DEF Event
  <2>2. recvs' \in [Conn -> Nat]
    BY <1>12, <2>1 DEF PostReceives, post_receives
  <2> QED BY <1>12, <2>2 DEF PostReceives
<1>13. CASE Accept
  BY <1>13 DEF Accept
<1>14. CASE OnConnection
  BY <1>14 DEF OnConnection
<1>15. CASE DestroyQp
  BY <1>15 DEF DestroyQp, EndRequests
<1>16. CASE FreeConn
  BY <1>16 DEF FreeConn
<1>17. CASE DestroyId
  BY <1>17 DEF DestroyId
<1>18. CASE GetCqEvent
  BY <1>18 DEF GetCqEvent
<1>19. CASE ReqNotify
  BY <1>19 DEF ReqNotify
<1>20. CASE PollCq
  <2>1. CASE Empty /\ UNCHANGED <<wc, cq>>
    BY <1>20, <2>1 DEF PollCq
  <2>2. ASSUME NEW x \in Completion, cq[x] > 0, cq' = [cq EXCEPT ![x] = @ - 1], wc' = x
        PROVE  TypeOK'
    <3>1. cq' \in [Completion -> Nat]
      BY <2>2
    <3>2. wc' \in (Conn \cup {NoConn}) \X Kind
      BY <2>2 DEF Completion
    <3> QED BY <1>20, <2>2, <3>1, <3>2 DEF PollCq
  <2> QED BY <1>20, <2>1, <2>2 DEF PollCq
<1>21. CASE OnCompletion
  <2>1. wc[1] \in Conn \cup {NoConn}
    OBVIOUS
  <2>2. mpc' \in {mpc, "exited"} /\ UNCHANGED <<cur, ctx, unacked>>
    BY <1>21 DEF OnCompletion, die
  <2>3. printed' \in SUBSET Conn
    BY <1>21, <2>1 DEF OnCompletion
  <2> QED BY <1>21, <2>2, <2>3 DEF OnCompletion
<1>22. CASE LoopEnds
  BY <1>22 DEF LoopEnds, die
<1>23. CASE VerbFails
  BY <1>23 DEF VerbFails, die
<1>24. CASE UNCHANGED vars
  BY <1>24 DEF vars
<1>25. CASE Listen
  BY <1>25 DEF Listen
<1>26. CASE PollFails
  BY <1>26 DEF PollFails
<1> QED BY <1>1, <1>2, <1>3, <1>4, <1>5, <1>6, <1>7, <1>8, <1>9, <1>10, <1>11, <1>12,
       <1>13, <1>14, <1>15, <1>16, <1>17, <1>18, <1>19, <1>20, <1>21, <1>22, <1>23, <1>24,
       <1>25, <1>26,
       StepCases

-----------------------------------------------------------------------------
(* The completion thread is woken up.                                      *)

\* No step loses a notification.
LEMMA WakeStep == TypeOK /\ Wake /\ Unstarted /\ [Next]_vars => Wake'
<1> SUFFICES ASSUME TypeOK, Wake, Unstarted, [Next]_vars PROVE Wake'
  OBVIOUS
<1> USE DEF Wake, Empty, mainVars, cqVars, connVars, peerVars
<1>1. ASSUME NEW c \in Conn, Request(c) PROVE Wake'
  BY <1>1 DEF Request
<1>2. ASSUME NEW c \in Conn, Establish(c) PROVE Wake'
  BY <1>2 DEF Establish
<1>3. ASSUME NEW c \in Conn, PeerSend(c) PROVE Wake'
  <2>1. ppc # "none"
    BY <1>3 DEF PeerSend, Unstarted
  <2> QED BY <1>3, <2>1 DEF PeerSend, Complete, TypeOK, Wake
<1>4. ASSUME NEW c \in Conn, Refuse(c) PROVE Wake'
  BY <1>4 DEF Refuse
<1>5. ASSUME NEW c \in Conn, Deliver(c) PROVE Wake'
  <2>1. ppc # "none"
    BY <1>5 DEF Deliver, Unstarted
  <2> QED BY <1>5, <2>1 DEF Deliver, Complete, TypeOK, Wake
<1>6. ASSUME NEW c \in Conn, SendFails(c) PROVE Wake'
  <2>1. ppc # "none"
    BY <1>6 DEF SendFails, Unstarted
  <2> QED BY <1>6, <2>1 DEF SendFails, Complete, TypeOK, Wake
<1>7. ASSUME NEW c \in Conn, Disconnect(c) PROVE Wake'
  BY <1>7 DEF Disconnect
<1>8. CASE GetEvent
  BY <1>8 DEF GetEvent
<1>9. CASE OnEvent
  BY <1>9 DEF OnEvent
<1>10. CASE BuildContext
  <2>1. dev[cur.id] # NoDevice
    BY DeviceAssumption DEF TypeOK, Event
  <2>2. CASE ctx = NoDevice
    <3>1. ppc = "none" /\ Empty /\ ~armed /\ events = 0
      BY <2>2 DEF Unstarted
    <3>2. ctx' = dev[cur.id] /\ armed' /\ ppc' = "get" /\ events' = 0 /\ cq' = cq
      BY <1>10, <2>2, <3>1 DEF BuildContext
    <3> QED BY <2>1, <3>1, <3>2
  <2>3. CASE ctx # NoDevice
    BY <1>10, <2>3 DEF BuildContext
  <2> QED BY <2>2, <2>3
<1>11. CASE PrepareConn
  BY <1>11 DEF PrepareConn
<1>12. CASE PostReceives
  BY <1>12 DEF PostReceives
<1>13. CASE Accept
  BY <1>13 DEF Accept
<1>14. CASE OnConnection
  BY <1>14 DEF OnConnection
<1>15. CASE DestroyQp
  BY <1>15 DEF DestroyQp, EndRequests
<1>16. CASE FreeConn
  BY <1>16 DEF FreeConn
<1>17. CASE DestroyId
  BY <1>17 DEF DestroyId
<1>18. CASE GetCqEvent
  BY <1>18 DEF GetCqEvent, TypeOK
<1>19. CASE ReqNotify
  BY <1>19 DEF ReqNotify
<1>20. CASE PollCq
  BY <1>20 DEF PollCq
<1>21. CASE OnCompletion
  BY <1>21 DEF OnCompletion, die
<1>22. CASE LoopEnds
  BY <1>22 DEF LoopEnds, die
<1>23. CASE VerbFails
  BY <1>23 DEF VerbFails, die
<1>24. CASE UNCHANGED vars
  BY <1>24 DEF vars
<1>25. CASE Listen
  BY <1>25 DEF Listen
<1>26. CASE PollFails
  BY <1>26 DEF PollFails
<1> QED BY <1>1, <1>2, <1>3, <1>4, <1>5, <1>6, <1>7, <1>8, <1>9, <1>10, <1>11, <1>12,
       <1>13, <1>14, <1>15, <1>16, <1>17, <1>18, <1>19, <1>20, <1>21, <1>22, <1>23, <1>24,
       <1>25, <1>26,
       StepCases

-----------------------------------------------------------------------------
(* Nothing happens before the first request.                               *)

\* Nothing happens before the context is built.
LEMMA UnstartedStep == TypeOK /\ Unstarted /\ [Next]_vars => Unstarted'
<1> SUFFICES ASSUME TypeOK, Unstarted, [Next]_vars PROVE Unstarted'
  OBVIOUS
<1> USE DEF Unstarted, Empty, mainVars, cqVars, connVars, peerVars
<1>1. ASSUME NEW c \in Conn, Request(c) PROVE Unstarted'
  <2> SUFFICES ASSUME ppc = "none" PROVE Unstarted'
    BY <1>1 DEF Request
  <2>1. cmq' = Append(cmq, [kind |-> "request", id |-> c]) /\ cmq \in Seq(Event)
    BY <1>1 DEF Request, Raise, TypeOK
  <2>2. \A k \in DOMAIN cmq' : cmq'[k].kind \in {"request", "other"}
    BY <2>1 DEF Event
  <2> QED BY <1>1, <2>2 DEF Request, TypeOK
<1>2. ASSUME NEW c \in Conn, Establish(c) PROVE Unstarted'
  BY <1>2 DEF Establish
<1>3. ASSUME NEW c \in Conn, PeerSend(c) PROVE Unstarted'
  BY <1>3 DEF PeerSend
<1>4. ASSUME NEW c \in Conn, Refuse(c) PROVE Unstarted'
  BY <1>4 DEF Refuse
<1>5. ASSUME NEW c \in Conn, Deliver(c) PROVE Unstarted'
  BY <1>5 DEF Deliver
<1>6. ASSUME NEW c \in Conn, SendFails(c) PROVE Unstarted'
  BY <1>6 DEF SendFails
<1>7. ASSUME NEW c \in Conn, Disconnect(c) PROVE Unstarted'
  <2> SUFFICES ASSUME ppc = "none" PROVE Unstarted'
    BY <1>7 DEF Disconnect
  <2>1. peer[c] = "requesting"
    BY <1>7 DEF Disconnect
  <2>2. cmq' = Append(cmq, [kind |-> "other", id |-> c]) /\ cmq \in Seq(Event)
    BY <1>7, <2>1 DEF Disconnect, Raise, TypeOK
  <2>3. \A k \in DOMAIN cmq' : cmq'[k].kind \in {"request", "other"}
    BY <2>2 DEF Event
  <2> QED BY <1>7, <2>1, <2>3 DEF Disconnect, TypeOK
<1>8. CASE GetEvent
  <2>1. cmq \in Seq(Event) /\ cmq # <<>>
    BY <1>8 DEF GetEvent, TypeOK
  <2>2. ppc = "none" => /\ cmq[1].kind \in {"request", "other"}
                        /\ \A k \in DOMAIN Tail(cmq) : Tail(cmq)[k].kind \in {"request", "other"}
    BY <2>1
  <2> QED BY <1>8, <2>1, <2>2 DEF GetEvent
<1>9. CASE OnEvent
  BY <1>9 DEF OnEvent, handler
<1>10. CASE BuildContext
  BY <1>10 DEF BuildContext
<1>11. CASE PrepareConn
  BY <1>11 DEF PrepareConn
<1>12. CASE PostReceives
  BY <1>12 DEF PostReceives
<1>13. CASE Accept
  BY <1>13 DEF Accept
<1>14. CASE OnConnection
  BY <1>14 DEF OnConnection
<1>15. CASE DestroyQp
  BY <1>15 DEF DestroyQp
<1>16. CASE FreeConn
  BY <1>16 DEF FreeConn
<1>17. CASE DestroyId
  BY <1>17 DEF DestroyId
<1>18. CASE GetCqEvent
  BY <1>18 DEF GetCqEvent
<1>19. CASE ReqNotify
  BY <1>19 DEF ReqNotify
<1>20. CASE PollCq
  BY <1>20 DEF PollCq
<1>21. CASE OnCompletion
  BY <1>21 DEF OnCompletion, die
<1>22. CASE LoopEnds
  BY <1>22 DEF LoopEnds, die
<1>23. CASE VerbFails
  BY <1>23 DEF VerbFails, die
<1>24. CASE UNCHANGED vars
  BY <1>24 DEF vars
<1>25. CASE Listen
  BY <1>25 DEF Listen
<1>26. CASE PollFails
  BY <1>26 DEF PollFails
<1> QED BY <1>1, <1>2, <1>3, <1>4, <1>5, <1>6, <1>7, <1>8, <1>9, <1>10, <1>11, <1>12,
       <1>13, <1>14, <1>15, <1>16, <1>17, <1>18, <1>19, <1>20, <1>21, <1>22, <1>23, <1>24,
       <1>25, <1>26,
       StepCases

-----------------------------------------------------------------------------
(* The events of a connection come in order.                               *)

\* Every event is about a connection.
LEMMA IdsAreConn ==
    ASSUME TypeOK
    PROVE  cur.id \in Conn /\ \A k \in DOMAIN cmq : cmq[k].id \in Conn
<1>1. cur \in Event /\ cmq \in Seq(Event)
  BY DEF TypeOK
<1>2. \A k \in DOMAIN cmq : cmq[k] \in Event
  BY <1>1
<1> QED BY <1>1, <1>2 DEF Event

\* Whoever raises an event of c, it says how far c has come by then.
LEMMA Raises ==
    ASSUME TypeOK, Alive, NEW c \in Conn,
           Request(c) \/ Establish(c) \/ Refuse(c) \/ Disconnect(c)
    PROVE  \E kind \in {"request", "established", "disconnected", "other"} :
             /\ Raise(kind, c)
             /\ UNCHANGED <<conn, mpc, cur>> /\ \A d \in Conn : d # c => peer'[d] = peer[d]
             /\ peer[c] \notin Away /\ peer'[c] # "idle"
             /\ peer[c] = "requesting" => peer'[c] = "withdrawn"
             /\ kind = "request" => peer[c] = "idle" /\ peer'[c] = "requesting"
             /\ kind \in LastKind => peer'[c] \in Away
             /\ kind = "disconnected" => peer'[c] = "gone"
             /\ kind \in {"established", "disconnected"} => conn[c] = "live"
<1>1. UNCHANGED <<conn, mpc, cur>> /\ \A d \in Conn : d # c => peer'[d] = peer[d]
  <2> USE DEF mainVars, connVars
  <2>1. CASE Request(c)
    BY <2>1 DEF Request
  <2>2. CASE Establish(c)
    BY <2>2 DEF Establish
  <2>3. CASE Refuse(c)
    BY <2>3 DEF Refuse
  <2>4. CASE Disconnect(c)
    BY <2>4 DEF Disconnect
  <2> QED BY <2>1, <2>2, <2>3, <2>4
<1>2. CASE Request(c)
  BY <1>1, <1>2 DEF Request, TypeOK, LastKind, Away
<1>3. CASE Establish(c)
  <2>1. Raise("established", c) /\ peer[c] = "accepted" /\ peer'[c] = "connected"
    BY <1>3 DEF Establish, TypeOK
  <2> QED BY <1>1, <2>1 DEF Alive, LastKind, Away
<1>4. CASE Refuse(c)
  <2>1. Raise("disconnected", c) /\ peer[c] = "connected" /\ peer'[c] = "gone"
    BY <1>4 DEF Refuse, TypeOK
  <2> QED BY <1>1, <2>1 DEF Alive, LastKind, Away
<1>5. CASE Disconnect(c)
  <2>1. CASE peer[c] = "connected"
    <3>1. Raise("disconnected", c) /\ peer'[c] = "gone" /\ conn[c] = "live"
      BY <1>5, <2>1 DEF Disconnect, TypeOK, Alive
    <3> QED BY <1>1, <2>1, <3>1 DEF LastKind, Away
  <2>2. CASE peer[c] \in {"requesting", "accepted"}
    <3>1. /\ Raise("other", c) /\ peer'[c] \in Away
          /\ peer[c] = "requesting" => peer'[c] = "withdrawn"
      BY <1>5, <2>2 DEF Disconnect, TypeOK, Away
    <3> QED BY <1>1, <2>2, <3>1 DEF LastKind, Away
  <2> QED BY <1>5, <2>1, <2>2 DEF Disconnect
<1> QED BY <1>2, <1>3, <1>4, <1>5

\* A new event comes after those of its connection that must precede it.
LEMMA RaiseKeepsOrder ==
    ASSUME TypeOK, Queued, Current, Alive, NEW c \in Conn,
           Request(c) \/ Establish(c) \/ Refuse(c) \/ Disconnect(c)
    PROVE  Queued' /\ Current'
<1>0. PICK kind \in {"request", "established", "disconnected", "other"} :
        /\ Raise(kind, c)
        /\ UNCHANGED <<conn, mpc, cur>> /\ \A d \in Conn : d # c => peer'[d] = peer[d]
        /\ peer[c] \notin Away /\ peer'[c] # "idle"
        /\ peer[c] = "requesting" => peer'[c] = "withdrawn"
        /\ kind = "request" => peer[c] = "idle" /\ peer'[c] = "requesting"
        /\ kind \in LastKind => peer'[c] \in Away
        /\ kind = "disconnected" => peer'[c] = "gone"
        /\ kind \in {"established", "disconnected"} => conn[c] = "live"
  BY Raises
<1>1. cmq \in Seq(Event) /\ [kind |-> kind, id |-> c] \in Event
  BY DEF TypeOK, Event
<1>2. cmq' = Append(cmq, [kind |-> kind, id |-> c])
  BY <1>0 DEF Raise
<1>3. PICK n \in Nat : n = Len(cmq) + 1
  BY <1>1
<1>4. /\ DOMAIN cmq' = DOMAIN cmq \cup {n} /\ DOMAIN cmq \subseteq Nat
      /\ \A k \in DOMAIN cmq : cmq'[k] = cmq[k] /\ k < n
  BY <1>1, <1>2, <1>3
<1>5. cmq'[n] = [kind |-> kind, id |-> c]
  BY <1>1, <1>2, <1>3
<1>6. cmq'[n].kind = kind /\ cmq'[n].id = c
  BY <1>5
<1>7. \A k \in DOMAIN cmq : EventOK(k) /\ \A l \in DOMAIN cmq : PairOK(k, l)
  BY DEF Queued
<1>8. \A k \in DOMAIN cmq : EventOK(k)'
  BY <1>0, <1>4, <1>7, IdsAreConn DEF EventOK, LastKind, Away
<1>9. EventOK(n)'
  BY <1>0, <1>6 DEF EventOK, LastKind
<1>10. \A k, l \in DOMAIN cmq : PairOK(k, l)'
  BY <1>4, <1>7 DEF PairOK
<1>11. ASSUME NEW k \in DOMAIN cmq PROVE PairOK(k, n)' /\ PairOK(n, k)'
  <2>1. ~(n < k)
    BY <1>4
  <2>2. kind = "request" \/ cmq[k].kind \in LastKind => cmq[k].id # c
    BY <1>0, <1>7 DEF EventOK
  <2> QED BY <1>4, <1>6, <2>1, <2>2 DEF PairOK
<1>12. PairOK(n, n)'
  BY <1>3 DEF PairOK
<1>13. Queued'
  BY <1>4, <1>8, <1>9, <1>10, <1>11, <1>12 DEF Queued
<1>14. ASSUME mpc \in Handling, NEW l \in DOMAIN cmq', cur.kind \in LastKind \/ cmq'[l].kind = "request"
       PROVE  cur.id # cmq'[l].id
  <2>1. CASE l \in DOMAIN cmq
    BY <1>4, <1>14, <2>1 DEF Current
  <2>2. CASE l = n
    BY <1>0, <1>6, <1>14, <2>2 DEF Current
  <2> QED BY <1>4, <2>1, <2>2
<1>15. Current'
  BY <1>0, <1>14, IdsAreConn DEF Current, LastKind, Away
<1> QED BY <1>13, <1>15

\* The queued events stay in order.
LEMMA QueuedStep == TypeOK /\ Queued /\ Current /\ Alive /\ [Next]_vars => Queued'
<1> SUFFICES ASSUME TypeOK, Queued, Current, Alive, [Next]_vars PROVE Queued'
  OBVIOUS
<1> USE DEF Queued, mainVars, cqVars, connVars, peerVars
<1>1. ASSUME NEW c \in Conn, Request(c) PROVE Queued'
  BY <1>1, RaiseKeepsOrder
<1>2. ASSUME NEW c \in Conn, Establish(c) PROVE Queued'
  BY <1>2, RaiseKeepsOrder
<1>3. ASSUME NEW c \in Conn, PeerSend(c) PROVE Queued'
  BY <1>3 DEF PeerSend, EventOK, PairOK
<1>4. ASSUME NEW c \in Conn, Refuse(c) PROVE Queued'
  BY <1>4, RaiseKeepsOrder
<1>5. ASSUME NEW c \in Conn, Deliver(c) PROVE Queued'
  BY <1>5 DEF Deliver, EventOK, PairOK
<1>6. ASSUME NEW c \in Conn, SendFails(c) PROVE Queued'
  BY <1>6 DEF SendFails, EventOK, PairOK
<1>7. ASSUME NEW c \in Conn, Disconnect(c) PROVE Queued'
  BY <1>7, RaiseKeepsOrder
<1>8. CASE GetEvent
  <2>1. /\ \A k \in DOMAIN cmq' : k + 1 \in DOMAIN cmq /\ cmq'[k] = cmq[k + 1] /\ k \in Nat
        /\ UNCHANGED <<peer, conn>>
    BY <1>8 DEF GetEvent, TypeOK
  <2>2. \A k \in DOMAIN cmq' : EventOK(k)'
    BY <2>1 DEF EventOK
  <2>3. \A k, l \in DOMAIN cmq' : PairOK(k, l)'
    <3> SUFFICES ASSUME NEW k \in DOMAIN cmq', NEW l \in DOMAIN cmq' PROVE PairOK(k, l)'
      OBVIOUS
    <3>1. PairOK(k + 1, l + 1)
      BY <2>1
    <3> QED BY <2>1, <3>1 DEF PairOK
  <2> QED BY <2>2, <2>3
<1>9. CASE OnEvent
  BY <1>9 DEF OnEvent, EventOK, PairOK
<1>10. CASE BuildContext
  BY <1>10 DEF BuildContext, EventOK, PairOK
<1>11. CASE PrepareConn
  <2>1. /\ cmq' = cmq /\ peer' = peer
        /\ \A d \in Conn : conn'[d] \in {conn[d], "live"}
    BY <1>11, IdsAreConn DEF PrepareConn, TypeOK
  <2>2. \A k \in DOMAIN cmq : EventOK(k)'
    BY <2>1, IdsAreConn DEF EventOK
  <2> QED BY <2>1, <2>2 DEF PairOK
<1>12. CASE PostReceives
  BY <1>12 DEF PostReceives, EventOK, PairOK
<1>13. CASE Accept
  <2>1. /\ cmq' = cmq /\ conn' = conn
        /\ peer'[cur.id] = (IF peer[cur.id] = "requesting" THEN "accepted" ELSE peer[cur.id])
        /\ \A d \in Conn : d # cur.id => peer'[d] = peer[d]
    BY <1>13, IdsAreConn DEF Accept, TypeOK
  <2>2. /\ peer[cur.id] \in {"requesting", "withdrawn"}
        /\ \A l \in DOMAIN cmq : cmq[l].kind = "request" => cmq[l].id # cur.id
    BY <1>13 DEF Accept, Current, Handling
  <2>3. \A k \in DOMAIN cmq : EventOK(k)'
    BY <2>1, <2>2, IdsAreConn DEF EventOK, LastKind, Away
  <2> QED BY <2>1, <2>3 DEF PairOK
<1>14. CASE OnConnection
  BY <1>14 DEF OnConnection, EventOK, PairOK
<1>15. CASE DestroyQp
  BY <1>15 DEF DestroyQp, EventOK, PairOK
<1>16. CASE FreeConn
  <2>1. cmq' = cmq /\ peer' = peer /\ \A d \in Conn : d # cur.id => conn'[d] = conn[d]
    BY <1>16, IdsAreConn DEF FreeConn, TypeOK
  <2>2. \A l \in DOMAIN cmq : cmq[l].id # cur.id
    BY <1>16 DEF FreeConn, Current, Handling, LastKind
  <2>3. \A k \in DOMAIN cmq : EventOK(k)'
    BY <2>1, <2>2, IdsAreConn DEF EventOK
  <2> QED BY <2>1, <2>3 DEF PairOK
<1>17. CASE DestroyId
  <2>1. cmq' = cmq /\ peer' = peer /\ \A d \in Conn : d # cur.id => conn'[d] = conn[d]
    BY <1>17, IdsAreConn DEF DestroyId, TypeOK
  <2>2. \A l \in DOMAIN cmq : cmq[l].id # cur.id
    BY <1>17 DEF DestroyId, Current, Handling, LastKind
  <2>3. \A k \in DOMAIN cmq : EventOK(k)'
    BY <2>1, <2>2, IdsAreConn DEF EventOK
  <2> QED BY <2>1, <2>3 DEF PairOK
<1>18. CASE GetCqEvent
  BY <1>18 DEF GetCqEvent, EventOK, PairOK
<1>19. CASE ReqNotify
  BY <1>19 DEF ReqNotify, EventOK, PairOK
<1>20. CASE PollCq
  BY <1>20 DEF PollCq, EventOK, PairOK
<1>21. CASE OnCompletion
  BY <1>21 DEF OnCompletion, EventOK, PairOK, die
<1>22. CASE LoopEnds
  BY <1>22 DEF LoopEnds, EventOK, PairOK, die
<1>23. CASE VerbFails
  BY <1>23 DEF VerbFails, EventOK, PairOK, die
<1>24. CASE UNCHANGED vars
  BY <1>24 DEF vars, EventOK, PairOK
<1>25. CASE Listen
  BY <1>25 DEF Listen, EventOK, PairOK
<1>26. CASE PollFails
  BY <1>26 DEF PollFails, EventOK, PairOK
<1> QED BY <1>1, <1>2, <1>3, <1>4, <1>5, <1>6, <1>7, <1>8, <1>9, <1>10, <1>11, <1>12,
       <1>13, <1>14, <1>15, <1>16, <1>17, <1>18, <1>19, <1>20, <1>21, <1>22, <1>23, <1>24,
       <1>25, <1>26,
       StepCases

\* The event in hand stays the next of its connection.
LEMMA CurrentStep == TypeOK /\ Queued /\ Current /\ Alive /\ [Next]_vars => Current'
<1> SUFFICES ASSUME TypeOK, Queued, Current, Alive, [Next]_vars PROVE Current'
  OBVIOUS
<1> USE DEF Current, mainVars, cqVars, connVars, peerVars
<1>1. ASSUME NEW c \in Conn, Request(c) PROVE Current'
  BY <1>1, RaiseKeepsOrder
<1>2. ASSUME NEW c \in Conn, Establish(c) PROVE Current'
  BY <1>2, RaiseKeepsOrder
<1>3. ASSUME NEW c \in Conn, PeerSend(c) PROVE Current'
  BY <1>3 DEF PeerSend, Handling
<1>4. ASSUME NEW c \in Conn, Refuse(c) PROVE Current'
  BY <1>4, RaiseKeepsOrder
<1>5. ASSUME NEW c \in Conn, Deliver(c) PROVE Current'
  BY <1>5 DEF Deliver, Handling
<1>6. ASSUME NEW c \in Conn, SendFails(c) PROVE Current'
  BY <1>6 DEF SendFails, Handling
<1>7. ASSUME NEW c \in Conn, Disconnect(c) PROVE Current'
  BY <1>7, RaiseKeepsOrder
<1>8. CASE GetEvent
  <2>1. cmq \in Seq(Event) /\ cmq # <<>>
    BY <1>8 DEF GetEvent, TypeOK
  <2>2. /\ 1 \in DOMAIN cmq /\ cur' = cmq[1] /\ mpc' = "event" /\ peer' = peer
        /\ \A k \in DOMAIN cmq' : k + 1 \in DOMAIN cmq /\ cmq'[k] = cmq[k + 1] /\ 1 < k + 1
    BY <1>8, <2>1 DEF GetEvent
  <2>3. EventOK(1) /\ \A l \in DOMAIN cmq : PairOK(1, l)
    BY <2>2 DEF Queued
  <2>4. \A l \in DOMAIN cmq' : cur'.kind \in LastKind \/ cmq'[l].kind = "request" => cur'.id # cmq'[l].id
    BY <2>2, <2>3 DEF PairOK
  <2> QED BY <2>2, <2>3, <2>4 DEF EventOK
<1>9. CASE OnEvent
  BY <1>9 DEF OnEvent, handler, Handling, LastKind
<1>10. CASE BuildContext
  BY <1>10 DEF BuildContext, Handling
<1>11. CASE PrepareConn
  BY <1>11 DEF PrepareConn, Handling
<1>12. CASE PostReceives
  BY <1>12 DEF PostReceives, Handling
<1>13. CASE Accept
  BY <1>13 DEF Accept, Handling
<1>14. CASE OnConnection
  BY <1>14 DEF OnConnection, Handling
<1>15. CASE DestroyQp
  BY <1>15 DEF DestroyQp, Handling
<1>16. CASE FreeConn
  BY <1>16 DEF FreeConn, Handling
<1>17. CASE DestroyId
  BY <1>17 DEF DestroyId, Handling
<1>18. CASE GetCqEvent
  BY <1>18 DEF GetCqEvent, Handling
<1>19. CASE ReqNotify
  BY <1>19 DEF ReqNotify, Handling
<1>20. CASE PollCq
  BY <1>20 DEF PollCq, Handling
<1>21. CASE OnCompletion
  BY <1>21 DEF OnCompletion, Handling, die
<1>22. CASE LoopEnds
  BY <1>22 DEF LoopEnds, Handling, die
<1>23. CASE VerbFails
  BY <1>23 DEF VerbFails, Handling, die
<1>24. CASE UNCHANGED vars
  BY <1>24 DEF vars
<1>25. CASE Listen
  BY <1>25 DEF Listen, Handling
<1>26. CASE PollFails
  BY <1>26 DEF PollFails, Handling
<1> QED BY <1>1, <1>2, <1>3, <1>4, <1>5, <1>6, <1>7, <1>8, <1>9, <1>10, <1>11, <1>12,
       <1>13, <1>14, <1>15, <1>16, <1>17, <1>18, <1>19, <1>20, <1>21, <1>22, <1>23, <1>24,
       <1>25, <1>26,
       StepCases

-----------------------------------------------------------------------------
(* A connection is there as long as anything refers to it.                 *)

\* What is still referred to stays allocated.
LEMMA AliveStep == TypeOK /\ Queued /\ Current /\ Alive /\ [Next]_vars => Alive'
<1> SUFFICES ASSUME TypeOK, Queued, Current, Alive, [Next]_vars PROVE Alive'
  OBVIOUS
<1> USE DEF Alive, mainVars, cqVars, connVars, peerVars
<1>1. ASSUME NEW c \in Conn, Request(c) PROVE Alive'
  BY <1>1 DEF Request, TypeOK
<1>2. ASSUME NEW c \in Conn, Establish(c) PROVE Alive'
  BY <1>2 DEF Establish, TypeOK
<1>3. ASSUME NEW c \in Conn, PeerSend(c) PROVE Alive'
  <2>1. <<c, "recv">> \in Completion /\ cq' = [cq EXCEPT ![<<c, "recv">>] = cq[<<c, "recv">>] + 1]
    BY <1>3 DEF PeerSend, Complete, Completion, Kind
  <2>2. mpc = "free" => c # cur.id
    BY <1>3 DEF PeerSend, Current, Handling, LastKind
  <2>3. \A x \in Completion : x[1] # c => cq'[x] = cq[x]
    BY <2>1 DEF TypeOK
  <2> QED BY <1>3, <2>2, <2>3, IdsAreConn DEF PeerSend, TypeOK
<1>4. ASSUME NEW c \in Conn, Refuse(c) PROVE Alive'
  BY <1>4 DEF Refuse, TypeOK
<1>5. ASSUME NEW c \in Conn, Deliver(c) PROVE Alive'
  <2>1. <<c, "send">> \in Completion /\ cq' = [cq EXCEPT ![<<c, "send">>] = cq[<<c, "send">>] + 1]
    BY <1>5 DEF Deliver, Complete, Completion, Kind
  <2>2. mpc = "free" => c # cur.id
    BY <1>5 DEF Deliver, Current, Handling, LastKind
  <2>3. \A x \in Completion : x[1] # c => cq'[x] = cq[x]
    BY <2>1 DEF TypeOK
  <2> QED BY <1>5, <2>2, <2>3, IdsAreConn DEF Deliver, TypeOK
<1>6. ASSUME NEW c \in Conn, SendFails(c) PROVE Alive'
  <2>1. <<c, "error">> \in Completion /\ cq' = [cq EXCEPT ![<<c, "error">>] = cq[<<c, "error">>] + 1]
    BY <1>6 DEF SendFails, Complete, Completion, Kind
  <2>2. mpc = "free" => c # cur.id
    BY <1>6 DEF SendFails, Current, Handling, LastKind
  <2>3. \A x \in Completion : x[1] # c => cq'[x] = cq[x]
    BY <2>1 DEF TypeOK
  <2> QED BY <1>6, <2>2, <2>3, IdsAreConn DEF SendFails, TypeOK
<1>7. ASSUME NEW c \in Conn, Disconnect(c) PROVE Alive'
  BY <1>7 DEF Disconnect, TypeOK
<1>8. CASE GetEvent
  <2>1. cmq \in Seq(Event) /\ cmq # <<>>
    BY <1>8 DEF GetEvent, TypeOK
  <2>2. 1 \in DOMAIN cmq /\ cur' = cmq[1] /\ mpc' = "event" /\ UNCHANGED <<peer, conn, recvs, sends, cq>>
    BY <1>8, <2>1 DEF GetEvent
  <2>3. EventOK(1)
    BY <2>2 DEF Queued
  <2> QED BY <2>2, <2>3 DEF EventOK
<1>9. CASE OnEvent
  BY <1>9 DEF OnEvent, handler
<1>10. CASE BuildContext
  BY <1>10 DEF BuildContext
<1>11. CASE PrepareConn
  BY <1>11, IdsAreConn DEF PrepareConn, TypeOK, Current, Handling, LastKind
<1>12. CASE PostReceives
  BY <1>12, IdsAreConn DEF PostReceives, post_receives, TypeOK
<1>13. CASE Accept
  BY <1>13, IdsAreConn DEF Accept, TypeOK, Current, Handling, LastKind
<1>14. CASE OnConnection
  BY <1>14, IdsAreConn DEF OnConnection, TypeOK, Current, Handling, LastKind
<1>15. CASE DestroyQp
  BY <1>15, IdsAreConn DEF DestroyQp, EndRequests, TypeOK
<1>16. CASE FreeConn
  BY <1>16, IdsAreConn DEF FreeConn, TypeOK, Current, Handling, LastKind
<1>17. CASE DestroyId
  BY <1>17, IdsAreConn DEF DestroyId, TypeOK, Current, Handling, LastKind
<1>18. CASE GetCqEvent
  BY <1>18 DEF GetCqEvent
<1>19. CASE ReqNotify
  BY <1>19 DEF ReqNotify
<1>20. CASE PollCq
  BY <1>20 DEF PollCq, TypeOK
<1>21. CASE OnCompletion
  BY <1>21 DEF OnCompletion, die
<1>22. CASE LoopEnds
  BY <1>22 DEF LoopEnds, die
<1>23. CASE VerbFails
  BY <1>23 DEF VerbFails, die
<1>24. CASE UNCHANGED vars
  BY <1>24 DEF vars
<1>25. CASE Listen
  BY <1>25 DEF Listen
<1>26. CASE PollFails
  BY <1>26 DEF PollFails
<1> QED BY <1>1, <1>2, <1>3, <1>4, <1>5, <1>6, <1>7, <1>8, <1>9, <1>10, <1>11, <1>12,
       <1>13, <1>14, <1>15, <1>16, <1>17, <1>18, <1>19, <1>20, <1>21, <1>22, <1>23, <1>24,
       <1>25, <1>26,
       StepCases

\* No step leaves a completion of a freed connection in the queue.
LEMMA CqStep == TypeOK /\ Alive /\ CqOnlyLive /\ [Next]_vars => CqOnlyLive'
<1> SUFFICES ASSUME TypeOK, Alive, CqOnlyLive, [Next]_vars PROVE CqOnlyLive'
  OBVIOUS
<1> USE DEF CqOnlyLive, mainVars, cqVars, connVars, peerVars
<1>1. ASSUME NEW c \in Conn, Request(c) PROVE CqOnlyLive'
  BY <1>1 DEF Request
<1>2. ASSUME NEW c \in Conn, Establish(c) PROVE CqOnlyLive'
  BY <1>2 DEF Establish
<1>3. ASSUME NEW c \in Conn, PeerSend(c) PROVE CqOnlyLive'
  <2>1. <<c, "recv">> \in Completion /\ cq' = [cq EXCEPT ![<<c, "recv">>] = cq[<<c, "recv">>] + 1]
    BY <1>3 DEF PeerSend, Complete, Completion, Kind
  <2>2. conn[c] = "live" /\ conn' = conn
    BY <1>3 DEF PeerSend, Alive
  <2> QED BY <2>1, <2>2 DEF TypeOK
<1>4. ASSUME NEW c \in Conn, Refuse(c) PROVE CqOnlyLive'
  BY <1>4 DEF Refuse
<1>5. ASSUME NEW c \in Conn, Deliver(c) PROVE CqOnlyLive'
  <2>1. <<c, "send">> \in Completion /\ cq' = [cq EXCEPT ![<<c, "send">>] = cq[<<c, "send">>] + 1]
    BY <1>5 DEF Deliver, Complete, Completion, Kind
  <2>2. conn[c] = "live" /\ conn' = conn
    BY <1>5 DEF Deliver, Alive
  <2> QED BY <2>1, <2>2 DEF TypeOK
<1>6. ASSUME NEW c \in Conn, SendFails(c) PROVE CqOnlyLive'
  <2>1. <<c, "error">> \in Completion /\ cq' = [cq EXCEPT ![<<c, "error">>] = cq[<<c, "error">>] + 1]
    BY <1>6 DEF SendFails, Complete, Completion, Kind
  <2>2. conn[c] = "live" /\ conn' = conn
    BY <1>6 DEF SendFails, Alive
  <2> QED BY <2>1, <2>2 DEF TypeOK
<1>7. ASSUME NEW c \in Conn, Disconnect(c) PROVE CqOnlyLive'
  BY <1>7 DEF Disconnect
<1>8. CASE GetEvent
  BY <1>8 DEF GetEvent
<1>9. CASE OnEvent
  BY <1>9 DEF OnEvent
<1>10. CASE BuildContext
  BY <1>10 DEF BuildContext
<1>11. CASE PrepareConn
  BY <1>11, IdsAreConn DEF PrepareConn, Alive, TypeOK, Completion
<1>12. CASE PostReceives
  BY <1>12 DEF PostReceives
<1>13. CASE Accept
  BY <1>13 DEF Accept
<1>14. CASE OnConnection
  BY <1>14 DEF OnConnection
<1>15. CASE DestroyQp
  BY <1>15 DEF DestroyQp, EndRequests, TypeOK
<1>16. CASE FreeConn
  BY <1>16, IdsAreConn DEF FreeConn, Alive, TypeOK, Completion
<1>17. CASE DestroyId
  BY <1>17, IdsAreConn DEF DestroyId, Alive, TypeOK, Completion
<1>18. CASE GetCqEvent
  BY <1>18 DEF GetCqEvent
<1>19. CASE ReqNotify
  BY <1>19 DEF ReqNotify
<1>20. CASE PollCq
  BY <1>20 DEF PollCq, TypeOK
<1>21. CASE OnCompletion
  BY <1>21 DEF OnCompletion, die
<1>22. CASE LoopEnds
  BY <1>22 DEF LoopEnds, die
<1>23. CASE VerbFails
  BY <1>23 DEF VerbFails, die
<1>24. CASE UNCHANGED vars
  BY <1>24 DEF vars
<1>25. CASE Listen
  BY <1>25 DEF Listen
<1>26. CASE PollFails
  BY <1>26 DEF PollFails
<1> QED BY <1>1, <1>2, <1>3, <1>4, <1>5, <1>6, <1>7, <1>8, <1>9, <1>10, <1>11, <1>12,
       <1>13, <1>14, <1>15, <1>16, <1>17, <1>18, <1>19, <1>20, <1>21, <1>22, <1>23, <1>24,
       <1>25, <1>26,
       StepCases

\* The receive is posted before the peer may send.
LEMMA ReadyStep == TypeOK /\ Current /\ Ready /\ ReceiveReady /\ [Next]_vars => Ready' /\ ReceiveReady'
<1> SUFFICES ASSUME TypeOK, Current, Ready, ReceiveReady, [Next]_vars PROVE Ready' /\ ReceiveReady'
  OBVIOUS
<1> USE DEF Ready, ReceiveReady, mainVars, cqVars, connVars, peerVars
<1>1. ASSUME NEW c \in Conn, Request(c) PROVE Ready' /\ ReceiveReady'
  BY <1>1 DEF Request, TypeOK
<1>2. ASSUME NEW c \in Conn, Establish(c) PROVE Ready' /\ ReceiveReady'
  BY <1>2 DEF Establish, TypeOK
<1>3. ASSUME NEW c \in Conn, PeerSend(c) PROVE Ready' /\ ReceiveReady'
  <2>1. mpc = "accept" => c # cur.id
    BY <1>3 DEF PeerSend, Current, Handling
  <2> QED BY <1>3, <2>1, IdsAreConn DEF PeerSend, TypeOK
<1>4. ASSUME NEW c \in Conn, Refuse(c) PROVE Ready' /\ ReceiveReady'
  BY <1>4 DEF Refuse, TypeOK, ReceiveReady
<1>5. ASSUME NEW c \in Conn, Deliver(c) PROVE Ready' /\ ReceiveReady'
  BY <1>5 DEF Deliver
<1>6. ASSUME NEW c \in Conn, SendFails(c) PROVE Ready' /\ ReceiveReady'
  BY <1>6 DEF SendFails
<1>7. ASSUME NEW c \in Conn, Disconnect(c) PROVE Ready' /\ ReceiveReady'
  BY <1>7 DEF Disconnect, TypeOK
<1>8. CASE GetEvent
  BY <1>8 DEF GetEvent
<1>9. CASE OnEvent
  BY <1>9 DEF OnEvent, handler
<1>10. CASE BuildContext
  BY <1>10 DEF BuildContext
<1>11. CASE PrepareConn
  BY <1>11 DEF PrepareConn
<1>12. CASE PostReceives
  BY <1>12, IdsAreConn DEF PostReceives, post_receives, TypeOK
<1>13. CASE Accept
  BY <1>13, IdsAreConn DEF Accept, TypeOK, Current, Handling
<1>14. CASE OnConnection
  BY <1>14 DEF OnConnection
<1>15. CASE DestroyQp
  <2>1. peer[cur.id] = "gone"
    BY <1>15 DEF DestroyQp, Current, Handling, LastKind
  <2> QED BY <1>15, <2>1, IdsAreConn DEF DestroyQp, EndRequests, TypeOK
<1>16. CASE FreeConn
  BY <1>16 DEF FreeConn
<1>17. CASE DestroyId
  BY <1>17 DEF DestroyId
<1>18. CASE GetCqEvent
  BY <1>18 DEF GetCqEvent
<1>19. CASE ReqNotify
  BY <1>19 DEF ReqNotify
<1>20. CASE PollCq
  BY <1>20 DEF PollCq
<1>21. CASE OnCompletion
  BY <1>21 DEF OnCompletion, die
<1>22. CASE LoopEnds
  BY <1>22 DEF LoopEnds, die
<1>23. CASE VerbFails
  BY <1>23 DEF VerbFails, die
<1>24. CASE UNCHANGED vars
  BY <1>24 DEF vars
<1>25. CASE Listen
  BY <1>25 DEF Listen
<1>26. CASE PollFails
  BY <1>26 DEF PollFails
<1> QED BY <1>1, <1>2, <1>3, <1>4, <1>5, <1>6, <1>7, <1>8, <1>9, <1>10, <1>11, <1>12,
       <1>13, <1>14, <1>15, <1>16, <1>17, <1>18, <1>19, <1>20, <1>21, <1>22, <1>23, <1>24,
       <1>25, <1>26,
       StepCases

-----------------------------------------------------------------------------
(* The refinement of ConnLife                                              *)

\* There is one established event for each connection, and no message is sent before
\* it is handled.
Once ==
    /\ \A k \in DOMAIN cmq : cmq[k].kind = "established" =>
          /\ peer[cmq[k].id] \in {"connected", "gone"} /\ sends[cmq[k].id] = "none"
          /\ mpc \in {"event", "connection"} /\ cur.kind = "established" => cur.id # cmq[k].id
    /\ \A k, l \in DOMAIN cmq :
          k < l /\ cmq[k].kind = "established" /\ cmq[l].kind = "established" => cmq[k].id # cmq[l].id
    /\ mpc \in {"event", "connection"} /\ cur.kind = "established" =>
          peer[cur.id] \in {"connected", "gone"} /\ sends[cur.id] = "none"
    /\ \A c \in Conn : peer[c] \in {"idle", "requesting", "accepted"} => sends[c] = "none"

\* A connection is freed only when its peer has gone, and what was received came
\* from a peer that had been accepted.
Past ==
    /\ \A c \in Conn : conn[c] \in {"freed", "destroyed"} => peer[c] = "gone"
    /\ \A x \in Completion : x[2] = "recv" /\ (cq[x] > 0 \/ wc = x) => peer[x[1]] \in {"connected", "gone"}

\* An event of the connection manager keeps this.
LEMMA RaiseKeepsOnce ==
    ASSUME TypeOK, Once, NEW c \in Conn, NEW kind, Raise(kind, c), UNCHANGED <<mpc, cur, sends>>,
           \A d \in Conn : /\ peer[d] \in {"connected", "gone"} => peer'[d] \in {"connected", "gone"}
                           /\ peer'[d] \in {"idle", "requesting", "accepted"}
                                 => peer[d] \in {"idle", "requesting", "accepted"},
           kind = "established" => peer[c] = "accepted" /\ peer'[c] = "connected"
    PROVE  Once'
<1>1. cmq \in Seq(Event) /\ cmq' = Append(cmq, [kind |-> kind, id |-> c])
  BY DEF Raise, TypeOK
<1> DEFINE n == Len(cmq) + 1
<1>2. /\ n \in Nat /\ \A k \in DOMAIN cmq : k \in Nat /\ k < n /\ cmq'[k] = cmq[k] /\ cmq[k].id \in Conn
      /\ \A k \in DOMAIN cmq' : k \in DOMAIN cmq \/ k = n
      /\ cmq'[n].kind = kind /\ cmq'[n].id = c
  BY <1>1, IdsAreConn
<1>3. kind = "established" =>
        /\ sends[c] = "none"
        /\ \A k \in DOMAIN cmq : cmq[k].kind = "established" => cmq[k].id # c
        /\ mpc \in {"event", "connection"} /\ cur.kind = "established" => cur.id # c
  BY DEF Once
<1> HIDE DEF n
<1>4. ASSUME NEW k \in DOMAIN cmq', cmq'[k].kind = "established"
      PROVE  /\ peer'[cmq'[k].id] \in {"connected", "gone"} /\ sends'[cmq'[k].id] = "none"
             /\ mpc' \in {"event", "connection"} /\ cur'.kind = "established" => cur'.id # cmq'[k].id
  <2>1. CASE k \in DOMAIN cmq
    BY <2>1, <1>2, <1>4 DEF Once
  <2>2. CASE k = n
    BY <2>2, <1>2, <1>3, <1>4
  <2> QED BY <2>1, <2>2, <1>2
<1>5. ASSUME NEW k \in DOMAIN cmq', NEW l \in DOMAIN cmq', k < l,
             cmq'[k].kind = "established", cmq'[l].kind = "established"
      PROVE  cmq'[k].id # cmq'[l].id
  <2>1. k \in DOMAIN cmq
    BY <1>2, <1>5
  <2>2. CASE l \in DOMAIN cmq
    BY <2>1, <2>2, <1>2, <1>5 DEF Once
  <2>3. CASE l = n
    BY <2>1, <2>3, <1>2, <1>3, <1>5
  <2> QED BY <2>2, <2>3, <1>2
<1>6. mpc' \in {"event", "connection"} /\ cur'.kind = "established" =>
        peer'[cur'.id] \in {"connected", "gone"} /\ sends'[cur'.id] = "none"
  BY IdsAreConn DEF Once
<1>7. \A d \in Conn : peer'[d] \in {"idle", "requesting", "accepted"} => sends'[d] = "none"
  BY DEF Once
<1> QED BY <1>4, <1>5, <1>6, <1>7 DEF Once

\* Every connection is established at most once.
LEMMA OnceStep == TypeOK /\ Current /\ Once /\ [Next]_vars => Once'
<1> SUFFICES ASSUME TypeOK, Current, Once, [Next]_vars PROVE Once'
  OBVIOUS
<1> USE DEF Once, mainVars, cqVars, connVars, peerVars
<1>1. ASSUME NEW c \in Conn, Request(c) PROVE Once'
  BY <1>1, RaiseKeepsOnce DEF Request, TypeOK
<1>2. ASSUME NEW c \in Conn, Establish(c) PROVE Once'
  BY <1>2, RaiseKeepsOnce DEF Establish, TypeOK
<1>3. ASSUME NEW c \in Conn, PeerSend(c) PROVE Once'
  BY <1>3 DEF PeerSend
<1>4. ASSUME NEW c \in Conn, Refuse(c) PROVE Once'
  BY <1>4, RaiseKeepsOnce DEF Refuse, TypeOK
<1>5. ASSUME NEW c \in Conn, Deliver(c) PROVE Once'
  <2>1. /\ \A k \in DOMAIN cmq : cmq[k].kind = "established" => cmq[k].id # c
        /\ mpc \in {"event", "connection"} /\ cur.kind = "established" => cur.id # c
    BY <1>5 DEF Deliver
  <2> QED BY <1>5, <2>1, IdsAreConn DEF Deliver, TypeOK
<1>6. ASSUME NEW c \in Conn, SendFails(c) PROVE Once'
  <2>1. /\ \A k \in DOMAIN cmq : cmq[k].kind = "established" => cmq[k].id # c
        /\ mpc \in {"event", "connection"} /\ cur.kind = "established" => cur.id # c
    BY <1>6 DEF SendFails
  <2> QED BY <1>6, <2>1, IdsAreConn DEF SendFails, TypeOK
<1>7. ASSUME NEW c \in Conn, Disconnect(c) PROVE Once'
  BY <1>7, RaiseKeepsOnce DEF Disconnect, TypeOK
<1>8. CASE GetEvent
  <2>1. cmq \in Seq(Event) /\ cmq # <<>>
    BY <1>8 DEF GetEvent, TypeOK
  <2>2. /\ 1 \in DOMAIN cmq /\ cur' = cmq[1] /\ mpc' = "event" /\ UNCHANGED <<peer, sends>>
        /\ \A k \in DOMAIN cmq' : k \in Nat /\ k + 1 \in DOMAIN cmq /\ cmq'[k] = cmq[k + 1] /\ 1 < k + 1
    BY <1>8, <2>1 DEF GetEvent
  <2> QED BY <2>2
<1>9. CASE OnEvent
  BY <1>9 DEF OnEvent, handler
<1>10. CASE BuildContext
  BY <1>10 DEF BuildContext
<1>11. CASE PrepareConn
  BY <1>11 DEF PrepareConn
<1>12. CASE PostReceives
  BY <1>12 DEF PostReceives
<1>13. CASE Accept
  <2>1. peer[cur.id] \in {"requesting", "withdrawn"} /\ cur.id \in Conn
    BY <1>13, IdsAreConn DEF Accept, Current, Handling
  <2> QED BY <1>13, <2>1, IdsAreConn DEF Accept, TypeOK
<1>14. CASE OnConnection
  <2>1. cur.kind = "established" /\ cur.id \in Conn
    BY <1>14, IdsAreConn DEF OnConnection, Current, Handling
  <2> QED BY <1>14, <2>1, IdsAreConn DEF OnConnection, TypeOK
<1>15. CASE DestroyQp
  BY <1>15, IdsAreConn DEF DestroyQp, EndRequests, TypeOK
<1>16. CASE FreeConn
  BY <1>16 DEF FreeConn
<1>17. CASE DestroyId
  BY <1>17 DEF DestroyId
<1>18. CASE GetCqEvent
  BY <1>18 DEF GetCqEvent
<1>19. CASE ReqNotify
  BY <1>19 DEF ReqNotify
<1>20. CASE PollCq
  BY <1>20 DEF PollCq
<1>21. CASE OnCompletion
  BY <1>21 DEF OnCompletion, die
<1>22. CASE LoopEnds
  BY <1>22 DEF LoopEnds, die
<1>23. CASE VerbFails
  BY <1>23 DEF VerbFails, die
<1>24. CASE UNCHANGED vars
  BY <1>24 DEF vars
<1>25. CASE Listen
  BY <1>25 DEF Listen
<1>26. CASE PollFails
  BY <1>26 DEF PollFails
<1> QED BY <1>1, <1>2, <1>3, <1>4, <1>5, <1>6, <1>7, <1>8, <1>9, <1>10, <1>11, <1>12,
       <1>13, <1>14, <1>15, <1>16, <1>17, <1>18, <1>19, <1>20, <1>21, <1>22, <1>23, <1>24,
       <1>25, <1>26,
       StepCases

\* A freed connection has lost its peer, and a message came from an accepted one.
LEMMA PastStep == TypeOK /\ Current /\ Past /\ [Next]_vars => Past'
<1> SUFFICES ASSUME TypeOK, Current, Past, [Next]_vars PROVE Past'
  OBVIOUS
<1> USE DEF Past, mainVars, cqVars, connVars, peerVars
<1>1. ASSUME NEW c \in Conn, Request(c) PROVE Past'
  BY <1>1 DEF Request, TypeOK, Completion
<1>2. ASSUME NEW c \in Conn, Establish(c) PROVE Past'
  BY <1>2 DEF Establish, TypeOK, Completion
<1>3. ASSUME NEW c \in Conn, PeerSend(c) PROVE Past'
  <2>1. <<c, "recv">> \in Completion /\ cq' = [cq EXCEPT ![<<c, "recv">>] = cq[<<c, "recv">>] + 1]
    BY <1>3 DEF PeerSend, Complete, Completion, Kind
  <2> QED BY <1>3, <2>1 DEF PeerSend, TypeOK, Completion
<1>4. ASSUME NEW c \in Conn, Refuse(c) PROVE Past'
  BY <1>4 DEF Refuse, TypeOK, Completion
<1>5. ASSUME NEW c \in Conn, Deliver(c) PROVE Past'
  <2>1. <<c, "send">> \in Completion /\ cq' = [cq EXCEPT ![<<c, "send">>] = cq[<<c, "send">>] + 1]
    BY <1>5 DEF Deliver, Complete, Completion, Kind
  <2> QED BY <1>5, <2>1 DEF Deliver, TypeOK, Completion
<1>6. ASSUME NEW c \in Conn, SendFails(c) PROVE Past'
  <2>1. <<c, "error">> \in Completion /\ cq' = [cq EXCEPT ![<<c, "error">>] = cq[<<c, "error">>] + 1]
    BY <1>6 DEF SendFails, Complete, Completion, Kind
  <2> QED BY <1>6, <2>1 DEF SendFails, TypeOK, Completion
<1>7. ASSUME NEW c \in Conn, Disconnect(c) PROVE Past'
  BY <1>7 DEF Disconnect, TypeOK, Completion
<1>8. CASE GetEvent
  BY <1>8 DEF GetEvent
<1>9. CASE OnEvent
  BY <1>9 DEF OnEvent
<1>10. CASE BuildContext
  BY <1>10 DEF BuildContext
<1>11. CASE PrepareConn
  BY <1>11, IdsAreConn DEF PrepareConn, TypeOK
<1>12. CASE PostReceives
  BY <1>12 DEF PostReceives
<1>13. CASE Accept
  <2>1. peer[cur.id] \in {"requesting", "withdrawn"} /\ cur.id \in Conn
    BY <1>13, IdsAreConn DEF Accept, Current, Handling
  <2> QED BY <1>13, <2>1 DEF Accept, TypeOK, Completion
<1>14. CASE OnConnection
  BY <1>14 DEF OnConnection
<1>15. CASE DestroyQp
  BY <1>15 DEF DestroyQp, EndRequests, TypeOK
<1>16. CASE FreeConn
  <2>1. peer[cur.id] = "gone" /\ cur.id \in Conn
    BY <1>16, IdsAreConn DEF FreeConn, Current, Handling, LastKind
  <2> QED BY <1>16, <2>1 DEF FreeConn, TypeOK
<1>17. CASE DestroyId
  <2>1. peer[cur.id] = "gone" /\ cur.id \in Conn
    BY <1>17, IdsAreConn DEF DestroyId, Current, Handling, LastKind
  <2> QED BY <1>17, <2>1 DEF DestroyId, TypeOK
<1>18. CASE GetCqEvent
  BY <1>18 DEF GetCqEvent
<1>19. CASE ReqNotify
  BY <1>19 DEF ReqNotify
<1>20. CASE PollCq
  BY <1>20 DEF PollCq, TypeOK
<1>21. CASE OnCompletion
  BY <1>21 DEF OnCompletion, die
<1>22. CASE LoopEnds
  BY <1>22 DEF LoopEnds, die
<1>23. CASE VerbFails
  BY <1>23 DEF VerbFails, die
<1>24. CASE UNCHANGED vars
  BY <1>24 DEF vars
<1>25. CASE Listen
  BY <1>25 DEF Listen
<1>26. CASE PollFails
  BY <1>26 DEF PollFails
<1> QED BY <1>1, <1>2, <1>3, <1>4, <1>5, <1>6, <1>7, <1>8, <1>9, <1>10, <1>11, <1>12,
       <1>13, <1>14, <1>15, <1>16, <1>17, <1>18, <1>19, <1>20, <1>21, <1>22, <1>23, <1>24,
       <1>25, <1>26,
       StepCases

-----------------------------------------------------------------------------
(* The theorems                                                            *)

\* The invariant holds at the start.
LEMMA InitHolds == Init => IInv
<1> SUFFICES ASSUME Init PROVE IInv
  OBVIOUS
<1>1. PICK c \in Conn : c = (CHOOSE d \in Conn : TRUE)
  BY ConnAssumption
<1>2. cur \in Event /\ wc \in (Conn \cup {NoConn}) \X Kind /\ cur.kind = "request"
  BY <1>1 DEF Init, Event
<1>3. TypeOK
  <2>1. cur \in Event /\ wc \in (Conn \cup {NoConn}) \X Kind /\ cmq \in Seq(Event) /\ dev \in [Conn -> Device]
    BY <1>2 DEF Init
  <2>2. armed \in BOOLEAN /\ events \in Nat /\ cq \in [Completion -> Nat]
    BY DEF Init
  <2> QED BY <2>1, <2>2 DEF Init, TypeOK
<1>4. Wake /\ Unstarted
  BY <1>2 DEF Init, Wake, Unstarted, Empty
<1>5. Order
  BY DEF Init, Order, Queued, Current, Handling
<1>6. Memory
  BY DEF Init, Memory, Alive, Ready, CqOnlyLive, ReceiveReady
<1> QED BY <1>3, <1>4, <1>5, <1>6 DEF IInv

\* Every step keeps the invariant.
LEMMA StepKeeps == IInv /\ [Next]_vars => IInv'
BY TypeStep, WakeStep, UnstartedStep, QueuedStep, CurrentStep, AliveStep, CqStep, ReadyStep
   DEF IInv, Order, Memory

\* The invariant holds in every reachable state.
LEMMA Invariance == Spec => []IInv
BY InitHolds, StepKeeps, PTL DEF Spec

\* Every variable keeps its type, in every step of both threads and all faults.
THEOREM TypeCorrect == Spec => []TypeOK
<1>1. IInv => TypeOK
  BY DEF IInv
<1> QED BY <1>1, Invariance, PTL

\* The completion thread never sleeps with a completion in the queue (poll_cq,
\* ib-conn.c:52-67): it asks for the next event before it drains the queue.
THEOREM NeverSleepsOnWork == Spec => []WakesUp
<1>1. IInv => WakesUp
  BY DEF IInv, Wake, WakesUp
<1> QED BY <1>1, Invariance, PTL

\* No completion in the queue points to a connection that on_disconnect
\* (cm-conn.c:212-231) has freed: the queue pair is destroyed first.
THEOREM NoStaleCompletion == Spec => []CqOnlyLive
<1>1. IInv => CqOnlyLive
  BY DEF IInv, Memory
<1> QED BY <1>1, Invariance, PTL

\* The first message of a peer is never refused: on_connect_request
\* (ib-conn.c:92-141) posts the receive before it accepts.
THEOREM FirstMessageReceived == Spec => []ReceiveReady
<1>1. IInv => ReceiveReady
  BY DEF IInv, Memory
<1> QED BY <1>1, Invariance, PTL

-----------------------------------------------------------------------------
(* ConnLife                                                                *)

LInv == IInv /\ Once /\ Past

\* So does what the refinement needs besides.
LEMMA LifeInvariance == Spec => []LInv
<1>1. Init => Once /\ Past
  <2> SUFFICES ASSUME Init PROVE Once /\ Past
    OBVIOUS
  <2>1. \A x \in Completion : wc # x
    BY ConnAssumption DEF Init, Completion
  <2> QED BY <2>1 DEF Init, Once, Past
<1>2. LInv /\ [Next]_vars => LInv'
  BY StepKeeps, OnceStep, PastStep DEF LInv, IInv, Order
<1> QED BY <1>1, <1>2, InitHolds, PTL DEF Spec, LInv

\* The steps of the abstract specification, in terms of the concrete state.
Same == \A d \in Conn : Stage(d)' = Stage(d)

\* A step that moves no connection is a stutter of ConnLife.
LEMMA Stutters ==
    ASSUME Same, UNCHANGED <<printed, Running>>
    PROVE  UNCHANGED Life!vars
BY DEF Same, Life!vars

\* The end of the server.
LEMMA Stops ==
    ASSUME Same, UNCHANGED printed, ~Running'
    PROVE  Life!Stop
BY DEF Same, Life!Stop

\* One connection moves to a next stage.
LEMMA Advances ==
    ASSUME NEW c \in Conn, Running, UNCHANGED <<printed, Running>>,
           \A d \in Conn : d # c => Stage(d)' = Stage(d),
           Stage(c)' \in Life!Follows(Stage(c))
    PROVE  Life!Next
<1>1. [d \in Conn |-> Stage(d)]' = [[d \in Conn |-> Stage(d)] EXCEPT ![c] = Stage(c)']
  OBVIOUS
<1>2. Life!Advance(c)
  BY <1>1 DEF Life!Advance
<1> QED BY <1>2 DEF Life!Next

\* One message is printed.
LEMMA Reports ==
    ASSUME NEW c \in Conn, Running, UNCHANGED Running, Same,
           printed' = printed \cup {c}, Stage(c) \in {"open", "served", "left", "released"}
    PROVE  Life!Next
<1>1. Life!Report(c)
  BY DEF Life!Report, Same
<1> QED BY <1>1 DEF Life!Next

\* Every step maps to a step of ConnLife or to a stutter.
LEMMA LifeStep == LInv /\ [Next]_vars => [Life!Next]_Life!vars
<1> SUFFICES ASSUME LInv, [Next]_vars PROVE [Life!Next]_Life!vars
  OBVIOUS
<1>0. TypeOK /\ Current /\ Alive /\ Once /\ Past
  BY DEF LInv, IInv, Order, Memory
<1> USE DEF mainVars, cqVars, connVars, peerVars
<1>1. ASSUME NEW c \in Conn, Request(c), Running PROVE [Life!Next]_Life!vars
  <2>1. Running /\ UNCHANGED <<printed, Running>> /\ c \in Conn
    BY <1>1, <1>0 DEF Request, Running
  <2>2. /\ \A d \in Conn : d # c => Stage(d)' = Stage(d)
        /\ Stage(c)' \in Life!Follows(Stage(c))
    BY <1>1, <1>0 DEF Request, Stage, Life!Follows, TypeOK, Past, Once
  <2> QED BY <2>1, <2>2, Advances
<1>2. ASSUME NEW c \in Conn, Establish(c), Running PROVE [Life!Next]_Life!vars
  BY <1>2, <1>0, Stutters DEF Establish, Same, Stage, Running, TypeOK
<1>3. ASSUME NEW c \in Conn, PeerSend(c), Running PROVE [Life!Next]_Life!vars
  BY <1>3, <1>0, Stutters DEF PeerSend, Same, Stage, Running, TypeOK
<1>4. ASSUME NEW c \in Conn, Refuse(c), Running PROVE [Life!Next]_Life!vars
  <2>1. Running /\ UNCHANGED <<printed, Running>> /\ c \in Conn
    BY <1>4, <1>0 DEF Refuse, Running
  <2>2. /\ \A d \in Conn : d # c => Stage(d)' = Stage(d)
        /\ Stage(c)' \in Life!Follows(Stage(c))
    BY <1>4, <1>0 DEF Refuse, Stage, Life!Follows, TypeOK, Past, Once
  <2> QED BY <2>1, <2>2, Advances
<1>5. ASSUME NEW c \in Conn, Deliver(c), Running PROVE [Life!Next]_Life!vars
  <2>1. Running /\ UNCHANGED <<printed, Running>> /\ c \in Conn
    BY <1>5, <1>0 DEF Deliver, Running
  <2>2. /\ \A d \in Conn : d # c => Stage(d)' = Stage(d)
        /\ Stage(c)' \in Life!Follows(Stage(c))
    BY <1>5, <1>0 DEF Deliver, Stage, Life!Follows, TypeOK, Past, Once
  <2> QED BY <2>1, <2>2, Advances
<1>6. ASSUME NEW c \in Conn, SendFails(c), Running PROVE [Life!Next]_Life!vars
  BY <1>6, <1>0, Stutters DEF SendFails, Same, Stage, Running, TypeOK
<1>7. ASSUME NEW c \in Conn, Disconnect(c), Running PROVE [Life!Next]_Life!vars
  <2>1. Running /\ UNCHANGED <<printed, Running>> /\ c \in Conn
    BY <1>7, <1>0 DEF Disconnect, Running
  <2>2. /\ \A d \in Conn : d # c => Stage(d)' = Stage(d)
        /\ Stage(c)' \in Life!Follows(Stage(c))
    BY <1>7, <1>0 DEF Disconnect, Stage, Life!Follows, TypeOK, Past, Once
  <2> QED BY <2>1, <2>2, Advances
<1>8. CASE GetEvent
  BY <1>8, <1>0, Stutters DEF GetEvent, Same, Stage, Running, TypeOK
<1>9. CASE OnEvent
  <2>1. Same /\ UNCHANGED printed
    BY <1>9 DEF OnEvent, Same, Stage, handler
  <2> QED BY <1>9, <2>1, Stutters, Stops DEF OnEvent, Running, Life!Next, handler
<1>10. CASE BuildContext
  <2>1. Same /\ UNCHANGED printed
    BY <1>10 DEF BuildContext, Same, Stage
  <2> QED BY <1>10, <2>1, Stutters, Stops DEF BuildContext, Running, Life!Next
<1>11. CASE PrepareConn
  <2>1. Same
    BY <1>11, <1>0, IdsAreConn DEF PrepareConn, Same, Stage, TypeOK, Current, Handling, LastKind, Once, Past
  <2>2. UNCHANGED <<printed, Running>>
    BY <1>11 DEF PrepareConn, Running
  <2> QED BY <2>1, <2>2, Stutters
<1>12. CASE PostReceives
  BY <1>12, <1>0, Stutters DEF PostReceives, Same, Stage, Running, TypeOK
<1>13. CASE Accept
  <2>0. PICK c \in Conn : c = cur.id
    BY <1>0, IdsAreConn
  <2>1. /\ Running /\ UNCHANGED <<printed, Running, cur, conn, sends>>
        /\ peer' = [peer EXCEPT ![c] = IF @ = "requesting" THEN "accepted" ELSE @]
    BY <1>13, <2>0 DEF Accept, Running
  <2>2. CASE peer[c] = "requesting"
    <3>1. /\ \A d \in Conn : d # c => Stage(d)' = Stage(d)
          /\ Stage(c)' \in Life!Follows(Stage(c))
      BY <1>0, <2>1, <2>2 DEF Stage, Life!Follows, TypeOK, Past, Once
    <3> QED BY <2>1, <3>1, Advances
  <2>3. CASE peer[c] # "requesting"
    <3>1. peer' = peer
      BY <1>0, <2>1, <2>3 DEF TypeOK
    <3>2. Same
      BY <2>1, <3>1 DEF Same, Stage
    <3> QED BY <2>1, <3>2, Stutters
  <2> QED BY <2>2, <2>3
<1>14. CASE OnConnection
  <2>1. Same
    BY <1>14, <1>0, IdsAreConn DEF OnConnection, Same, Stage, TypeOK, Current, Handling, LastKind, Once, Past
  <2>2. UNCHANGED <<printed, Running>>
    BY <1>14 DEF OnConnection, Running
  <2> QED BY <2>1, <2>2, Stutters
<1>15. CASE DestroyQp
  <2>1. Same
    BY <1>15, <1>0, IdsAreConn DEF DestroyQp, Same, Stage, TypeOK, Current, Handling, LastKind, Once, Past, EndRequests
  <2>2. UNCHANGED <<printed, Running>>
    BY <1>15 DEF DestroyQp, Running
  <2> QED BY <2>1, <2>2, Stutters
<1>16. CASE FreeConn
  <2>1. Same
    BY <1>16, <1>0, IdsAreConn DEF FreeConn, Same, Stage, TypeOK, Current, Handling, LastKind, Alive
  <2>2. UNCHANGED <<printed, Running>>
    BY <1>16 DEF FreeConn, Running
  <2> QED BY <2>1, <2>2, Stutters
<1>17. CASE DestroyId
  <2>0. PICK c \in Conn : c = cur.id
    BY <1>0, IdsAreConn
  <2>1. Running /\ UNCHANGED <<printed, Running, cur>>
    BY <1>17 DEF DestroyId, Running
  <2>2. /\ \A d \in Conn : d # c => Stage(d)' = Stage(d)
        /\ Stage(c)' \in Life!Follows(Stage(c))
    BY <1>17, <1>0, <2>0 DEF DestroyId, Stage, Life!Follows, TypeOK, Past, Once, Current, Handling, LastKind, Alive
  <2> QED BY <2>1, <2>2, Advances
<1>18. CASE GetCqEvent
  BY <1>18, <1>0, Stutters DEF GetCqEvent, Same, Stage, Running, TypeOK
<1>19. CASE ReqNotify
  BY <1>19, <1>0, Stutters DEF ReqNotify, Same, Stage, Running, TypeOK
<1>20. CASE PollCq
  BY <1>20, <1>0, Stutters DEF PollCq, Same, Stage, Running, TypeOK
<1>21. CASE OnCompletion
  <2>1. Same /\ Running
    BY <1>21 DEF OnCompletion, Same, Stage
  <2>2. CASE wc[2] = "recv" /\ wc[1] # NoConn /\ printed' = printed \cup {wc[1]} /\ UNCHANGED mainVars
    <3>1. wc[1] \in Conn /\ wc \in Completion
      BY <1>0, <2>2 DEF TypeOK, Completion
    <3>2. peer[wc[1]] \in {"connected", "gone"}
      BY <1>0, <2>2, <3>1 DEF Past
    <3>3. Stage(wc[1]) \in {"open", "served", "left", "released"}
      BY <3>2 DEF Stage
    <3>4. UNCHANGED Running
      BY <2>2 DEF Running
    <3> QED BY <2>1, <2>2, <3>1, <3>3, <3>4, Reports
  <2>3. CASE UNCHANGED printed /\ (mpc' = mpc \/ mpc' = "exited")
    BY <2>1, <2>3, Stutters, Stops DEF Running, Life!Next
  <2> QED BY <1>21, <2>2, <2>3 DEF OnCompletion, die
<1>22. CASE LoopEnds
  <2>1. Same /\ UNCHANGED printed
    BY <1>22 DEF LoopEnds, Same, Stage, die
  <2> QED BY <1>22, <2>1, Stutters, Stops DEF LoopEnds, Running, Life!Next, die
<1>23. CASE VerbFails
  <2>1. Same /\ UNCHANGED printed
    BY <1>23 DEF VerbFails, Same, Stage, die
  <2> QED BY <1>23, <2>1, Stutters, Stops DEF VerbFails, Running, Life!Next, die
<1>24. CASE UNCHANGED vars
  BY <1>24, Stutters DEF vars, Same, Stage, Running
<1>25. CASE Listen
  BY <1>25, <1>0, Stutters DEF Listen, Same, Stage, Running, TypeOK
<1>26. CASE PollFails
  BY <1>26, <1>0, Stutters DEF PollFails, Same, Stage, Running, TypeOK
<1>27. Next \/ UNCHANGED vars
  OBVIOUS
<1>28. CASE Peers
  BY <1>28, <1>1, <1>2, <1>3, <1>4, <1>5, <1>6, <1>7 DEF Peers, Network
<1>29. CASE Main
  BY <1>29, <1>8, <1>9, <1>10, <1>11, <1>12, <1>13, <1>14, <1>15, <1>16, <1>17, <1>25 DEF Main
<1>30. CASE Poller
  BY <1>30, <1>18, <1>19, <1>20, <1>21 DEF Poller
<1> QED BY <1>22, <1>23, <1>24, <1>26, <1>27, <1>28, <1>29, <1>30 DEF Next

\* The server implements ConnLife (ib-conn.c:143-187, cm-conn.c:186-231): for any
\* number of peers and adapters, and all faults, no peer is accepted, served or
\* released out of turn, and none is reported that was not accepted.
THEOREM PromiseKept == Spec => KeepsPromise
<1>1. Init => Life!Init
  <2> SUFFICES ASSUME Init PROVE Life!Init
    OBVIOUS
  <2>1. \A c \in Conn : Stage(c) = "idle"
    BY DEF Init, Stage
  <2> QED BY <2>1 DEF Init, Life!Init, Running
<1>2. LInv /\ [Next]_vars => [Life!Next]_Life!vars
  BY LifeStep
<1> QED BY <1>1, <1>2, LifeInvariance, PTL DEF Spec, KeepsPromise, Life!Spec
-----------------------------------------------------------------------------
(* Nothing is forgotten                                                    *)

\* An event of c, of one of these kinds, is queued or in the hand of main.
Told(kinds, c) ==
    \/ \E k \in DOMAIN cmq : cmq[k].id = c /\ cmq[k].kind \in kinds
    \/ mpc \in Handling /\ cur.id = c /\ cur.kind \in kinds

\* What a peer waits for is under way.
Owed(c) ==
    /\ peer[c] = "requesting" => Told({"request"}, c)
    /\ peer[c] = "connected" => Told({"established"}, c) \/ sends[c] \in {"flight", "delivered"}
    /\ peer[c] \in Away => conn[c] = "destroyed" \/ Told(LastKind, c)

\* What a peer has sent was reported, or its completion is queued or in the hand of
\* the completion thread.
Heard(c) ==
    \/ c \in printed \/ cq[<<c, "recv">>] > 0
    \/ ppc = "completion" /\ wc = <<c, "recv">>

Kept(c) ==
    text[c] = "message" => \/ peer[c] = "gone"
                           \/ peer[c] = "connected" /\ Heard(c)

\* Only an event that is not copied yet is unacknowledged.
Acked == unacked = IF mpc = "event" THEN {cur.id} ELSE {}

Pending == Running => Acked /\ \A c \in Conn : Owed(c) /\ Kept(c)

\* An event that is raised is known, and so are those before it.
LEMMA RaiseTells ==
    ASSUME TypeOK, NEW c \in Conn, NEW kind, Raise(kind, c), UNCHANGED <<mpc, cur>>
    PROVE  /\ \A kinds : kind \in kinds => Told(kinds, c)'
           /\ \A kinds : \A d \in Conn : Told(kinds, d) => Told(kinds, d)'
<1>1. cmq \in Seq(Event) /\ cmq' = Append(cmq, [kind |-> kind, id |-> c])
  BY DEF Raise, TypeOK
<1> DEFINE n == Len(cmq) + 1
<1>2. /\ n \in DOMAIN cmq' /\ cmq'[n].kind = kind /\ cmq'[n].id = c
      /\ \A k \in DOMAIN cmq : k \in DOMAIN cmq' /\ cmq'[k] = cmq[k]
  BY <1>1
<1> QED BY <1>2 DEF Told

\* An event stays known until its handler has ended.
LEMMA ToldStep ==
    ASSUME TypeOK, [Next]_vars, Running', NEW c \in Conn, NEW kinds, Told(kinds, c)
    PROVE  \/ Told(kinds, c)'
           \/ cur.id = c /\ cur.kind \in kinds /\ (Accept \/ OnConnection \/ DestroyId)
<1> USE DEF mainVars, cqVars, connVars, peerVars
<1>0. CASE UNCHANGED cmq /\ UNCHANGED cur /\ (mpc \in Handling => mpc' \in Handling)
  BY <1>0 DEF Told
<1>1. ASSUME NEW d \in Conn, Request(d) \/ Establish(d) \/ Refuse(d) \/ Disconnect(d)
      PROVE  Told(kinds, c)'
  <2>1. PICK kind : Raise(kind, d) /\ UNCHANGED <<mpc, cur>>
    BY <1>1 DEF Request, Establish, Refuse, Disconnect
  <2> QED BY <2>1, RaiseTells
<1>2. ASSUME NEW d \in Conn, PeerSend(d) \/ Deliver(d) \/ SendFails(d) PROVE Told(kinds, c)'
  <2>1. UNCHANGED <<cmq, cur, mpc>>
    BY <1>2 DEF PeerSend, Deliver, SendFails
  <2> QED BY <2>1 DEF Told
<1>3. CASE GetEvent
  <2>1. cmq \in Seq(Event) /\ cmq # <<>> /\ mpc' = "event" /\ cur' = cmq[1] /\ cmq' = Tail(cmq)
    BY <1>3 DEF GetEvent, TypeOK
  <2>2. PICK k \in DOMAIN cmq : cmq[k].id = c /\ cmq[k].kind \in kinds
    BY <1>3 DEF GetEvent, Told, Handling
  <2>3. CASE k = 1
    BY <2>1, <2>2, <2>3 DEF Told, Handling
  <2>4. CASE k # 1
    <3>1. k - 1 \in DOMAIN cmq' /\ cmq'[k - 1] = cmq[k]
      BY <2>1, <2>4
    <3> QED BY <2>2, <3>1 DEF Told
  <2> QED BY <2>3, <2>4
<1>4. CASE OnEvent
  BY <1>0, <1>4 DEF OnEvent, handler, Handling, Running
<1>5. CASE BuildContext \/ PrepareConn \/ PostReceives \/ DestroyQp \/ FreeConn
  BY <1>0, <1>5 DEF BuildContext, PrepareConn, PostReceives, DestroyQp, FreeConn, Handling, Running
<1>6. CASE Accept \/ OnConnection \/ DestroyId
  BY <1>6 DEF Accept, OnConnection, DestroyId, Told
<1>7. CASE GetCqEvent \/ ReqNotify \/ PollCq \/ PollFails
  BY <1>0, <1>7 DEF GetCqEvent, ReqNotify, PollCq, PollFails
<1>8. CASE OnCompletion
  BY <1>0, <1>8 DEF OnCompletion, die, Running
<1>9. CASE LoopEnds \/ VerbFails
  BY <1>9 DEF LoopEnds, VerbFails, die, Running
<1>10. CASE Listen
  BY <1>0, <1>10 DEF Listen, Handling
<1>11. CASE UNCHANGED vars
  BY <1>0, <1>11 DEF vars
<1> QED BY <1>1, <1>2, <1>3, <1>4, <1>5, <1>6, <1>7, <1>8, <1>9, <1>10, <1>11, StepCases

\* No step forgets what a peer waits for.
LEMMA OwedStep ==
    ASSUME TypeOK, Current, Alive, Past, [Next]_vars, Running', NEW c \in Conn, Owed(c)
    PROVE  Owed(c)'
<1> USE DEF mainVars, cqVars, connVars, peerVars
<1>0. /\ Told({"request"}, c) => Told({"request"}, c)' \/ (Accept /\ cur.id = c)
      /\ Told({"established"}, c) => Told({"established"}, c)' \/ (OnConnection /\ cur.id = c)
      /\ Told(LastKind, c) => Told(LastKind, c)' \/ (DestroyId /\ cur.id = c)
  <2>1. /\ Accept => cur.kind = "request"
        /\ OnConnection => cur.kind = "established"
        /\ DestroyId => cur.kind = "disconnected"
    BY DEF Accept, OnConnection, DestroyId, Current, Handling
  <2>2. Told({"request"}, c) => Told({"request"}, c)' \/ (Accept /\ cur.id = c)
    BY <2>1, ToldStep
  <2>3. Told({"established"}, c) => Told({"established"}, c)' \/ (OnConnection /\ cur.id = c)
    BY <2>1, ToldStep
  <2>4. Told(LastKind, c) => Told(LastKind, c)' \/ (DestroyId /\ cur.id = c)
    BY <2>1, ToldStep DEF LastKind
  <2> QED BY <2>2, <2>3, <2>4
<1>1. ASSUME NEW d \in Conn, Request(d) \/ Establish(d) \/ Refuse(d) \/ Disconnect(d)
      PROVE  Owed(c)'
  <2>1. UNCHANGED <<conn, sends, mpc, cur>> /\ (d # c => peer'[c] = peer[c])
    BY <1>1 DEF Request, Establish, Refuse, Disconnect, TypeOK
  <2>2. ~Accept /\ ~OnConnection /\ ~DestroyId
    BY <2>1 DEF Accept, OnConnection, DestroyId, TypeOK
  <2>3. CASE d # c
    BY <1>0, <2>1, <2>2, <2>3 DEF Owed, Away
  <2>4. CASE d = c
    <3>1. \/ Raise("request", c) /\ peer'[c] = "requesting"
          \/ Raise("established", c) /\ peer'[c] = "connected"
          \/ (Raise("disconnected", c) \/ Raise("other", c)) /\ peer'[c] \in Away
      BY <1>1, <2>4 DEF Request, Establish, Refuse, Disconnect, TypeOK, Away
    <3> QED BY <2>1, <3>1, RaiseTells DEF Owed, LastKind, Away
  <2> QED BY <2>3, <2>4
<1>2. CASE UNCHANGED <<peer, sends, conn>> /\ mpc' = mpc
  <2>1. ~Accept /\ ~OnConnection /\ ~DestroyId
    BY <1>2 DEF Accept, OnConnection, DestroyId
  <2> QED BY <1>0, <1>2, <2>1 DEF Owed, Away
<1>3. CASE UNCHANGED <<peer, sends, conn>> /\ mpc \in {"listen", "wait", "event", "context", "receives"}
  <2>1. ~Accept /\ ~OnConnection /\ ~DestroyId
    BY <1>3 DEF Accept, OnConnection, DestroyId
  <2> QED BY <1>0, <1>3, <2>1 DEF Owed
<1>4. ASSUME NEW d \in Conn, PeerSend(d) PROVE Owed(c)'
  BY <1>2, <1>4 DEF PeerSend
<1>5. ASSUME NEW d \in Conn, Deliver(d) \/ SendFails(d) PROVE Owed(c)'
  <2>1. UNCHANGED <<peer, conn, mpc>>
    BY <1>5 DEF Deliver, SendFails
  <2>2. ~Accept /\ ~OnConnection /\ ~DestroyId
    BY <2>1 DEF Accept, OnConnection, DestroyId
  <2>3. peer[c] = "connected" /\ sends[c] \in {"flight", "delivered"} => sends'[c] \in {"flight", "delivered"}
    BY <1>5 DEF Deliver, SendFails, TypeOK
  <2> QED BY <1>0, <2>1, <2>2, <2>3 DEF Owed, Away
<1>6. CASE GetEvent \/ OnEvent \/ BuildContext \/ PostReceives \/ Listen
  BY <1>3, <1>6 DEF GetEvent, OnEvent, BuildContext, PostReceives, Listen
<1>7. CASE PrepareConn
  <2>1. ~Accept /\ ~OnConnection /\ ~DestroyId /\ /\ cur.id \in Conn /\ peer[cur.id] \in {"requesting", "withdrawn"} /\ conn[cur.id] # "destroyed"
    BY <1>7, IdsAreConn DEF PrepareConn, Accept, OnConnection, DestroyId, Current, Handling, Past
  <2> QED BY <1>0, <1>7, <2>1 DEF PrepareConn, Owed, Away, TypeOK
<1>8. CASE Accept
  <2>1. ~OnConnection /\ ~DestroyId /\ cur.id \in Conn /\ UNCHANGED <<conn, sends>>
    BY <1>8, IdsAreConn DEF Accept, OnConnection, DestroyId
  <2>2. CASE cur.id = c
    <3>1. /\ peer[c] \in {"requesting", "withdrawn"}
          /\ peer'[c] = IF peer[c] = "requesting" THEN "accepted" ELSE peer[c]
      BY <1>8, <2>2 DEF Accept, TypeOK, Current, Handling
    <3> QED BY <1>0, <2>1, <3>1 DEF Owed, Away
  <2>3. CASE cur.id # c
    BY <1>0, <1>8, <2>1, <2>3 DEF Accept, Owed, Away, TypeOK
  <2> QED BY <2>2, <2>3
<1>9. CASE OnConnection
  <2>1. ~Accept /\ ~DestroyId /\ cur.id \in Conn /\ UNCHANGED <<conn, peer>>
    BY <1>9, IdsAreConn DEF Accept, OnConnection, DestroyId
  <2>2. /\ cur.id = c => sends'[c] = "flight"
        /\ cur.id # c => sends'[c] = sends[c]
    BY <1>9, <2>1 DEF OnConnection, TypeOK
  <2> QED BY <1>0, <2>1, <2>2 DEF Owed, Away
<1>10. CASE DestroyQp
  <2>1. ~Accept /\ ~OnConnection /\ ~DestroyId /\ cur.id \in Conn /\ peer[cur.id] = "gone"
    BY <1>10, IdsAreConn DEF DestroyQp, Accept, OnConnection, DestroyId, Current, Handling, LastKind
  <2>2. UNCHANGED <<peer, conn>> /\ (cur.id # c => sends'[c] = sends[c])
    BY <1>10 DEF DestroyQp, EndRequests, TypeOK
  <2> QED BY <1>0, <2>1, <2>2 DEF Owed, Away
<1>11. CASE FreeConn
  <2>1. ~Accept /\ ~OnConnection /\ ~DestroyId /\ cur.id \in Conn /\ conn[cur.id] = "live"
    BY <1>11, IdsAreConn DEF FreeConn, Accept, OnConnection, DestroyId, Alive
  <2> QED BY <1>0, <1>11, <2>1 DEF FreeConn, Owed, Away, TypeOK
<1>12. CASE DestroyId
  <2>1. ~Accept /\ ~OnConnection /\ UNCHANGED <<peer, sends>>
    BY <1>12 DEF DestroyId, Accept, OnConnection
  <2>2. /\ cur.id = c => conn'[c] = "destroyed"
        /\ cur.id # c => conn'[c] = conn[c]
    BY <1>12, IdsAreConn DEF DestroyId, TypeOK
  <2> QED BY <1>0, <2>1, <2>2 DEF Owed, Away
<1>13. CASE GetCqEvent \/ ReqNotify \/ PollCq \/ PollFails
  BY <1>2, <1>13 DEF GetCqEvent, ReqNotify, PollCq, PollFails
<1>14. CASE OnCompletion
  BY <1>2, <1>14 DEF OnCompletion, die, Running
<1>15. CASE LoopEnds \/ VerbFails
  BY <1>15 DEF LoopEnds, VerbFails, die, Running
<1>16. CASE UNCHANGED vars
  BY <1>2, <1>16 DEF vars
<1> QED BY <1>1, <1>4, <1>5, <1>6, <1>7, <1>8, <1>9, <1>10, <1>11, <1>12, <1>13, <1>14,
       <1>15, <1>16, StepCases

\* No step loses a message that arrived.
LEMMA KeptStep ==
    ASSUME TypeOK, Wake, Current, Alive, [Next]_vars, Running', NEW c \in Conn, Kept(c)
    PROVE  Kept(c)'
<1> USE DEF Kept, Heard, mainVars, cqVars, connVars, peerVars
<1> DEFINE x == <<c, "recv">>
<1>0. x \in Completion
  BY DEF Completion, Kind
<1> HIDE DEF x
<1>1. ASSUME NEW d \in Conn, Request(d) \/ Establish(d) \/ Refuse(d) \/ Disconnect(d)
      PROVE  Kept(c)'
  <2>1. /\ UNCHANGED <<text, cq, ppc, wc, printed>>
        /\ peer'[c] \in {peer[c], "gone"} \/ peer[c] \in {"idle", "requesting", "accepted"}
    BY <1>1 DEF Request, Establish, Refuse, Disconnect, TypeOK
  <2> QED BY <2>1
<1>3. ASSUME NEW d \in Conn, PeerSend(d) PROVE Kept(c)'
  <2>1. /\ UNCHANGED <<peer, ppc, wc, printed>> /\ (d # c => text'[c] = text[c])
        /\ peer[d] = "connected"
    BY <1>3 DEF PeerSend, TypeOK
  <2>2. <<d, "recv">> \in Completion /\ cq' = [cq EXCEPT ![<<d, "recv">>] = @ + 1]
    BY <1>3 DEF PeerSend, Complete, Completion, Kind
  <2>3. cq \in [Completion -> Nat] /\ cq[x] \in Nat
    BY <1>0 DEF TypeOK
  <2>4. d = c => cq'[x] = cq[x] + 1
    BY <2>2, <2>3 DEF x
  <2>5. d # c => cq'[x] = cq[x]
    <3>1. d # c => <<d, "recv">> # x
      BY DEF x
    <3> QED BY <1>0, <2>2, <2>3, <3>1
  <2> QED BY <2>1, <2>3, <2>4, <2>5 DEF x
<1>4. ASSUME NEW d \in Conn, Deliver(d) \/ SendFails(d) PROVE Kept(c)'
  <2>1. PICK y \in Completion : cq' = [cq EXCEPT ![y] = @ + 1]
    BY <1>4 DEF Deliver, SendFails, Complete, Completion, Kind
  <2>2. cq'[x] >= cq[x] /\ cq[x] \in Nat /\ cq'[x] \in Nat
    BY <1>0, <2>1 DEF TypeOK
  <2>3. UNCHANGED <<text, peer, ppc, wc, printed>>
    BY <1>4 DEF Deliver, SendFails
  <2> QED BY <2>2, <2>3 DEF x
<1>5. CASE GetEvent \/ OnEvent \/ PrepareConn \/ PostReceives \/ OnConnection \/ FreeConn \/ DestroyId
           \/ Listen
  BY <1>5 DEF GetEvent, OnEvent, PrepareConn, PostReceives, OnConnection, FreeConn, DestroyId, Listen
<1>6. CASE BuildContext
  <2>1. ppc = "completion" => ppc' = ppc
    BY <1>6 DEF BuildContext, Wake
  <2> QED BY <1>6, <2>1 DEF BuildContext
<1>7. CASE Accept
  <2>1. cur.id \in Conn /\ peer[cur.id] \in {"requesting", "withdrawn"}
    BY <1>7, IdsAreConn DEF Accept, Current, Handling
  <2> QED BY <1>7, <2>1 DEF Accept, TypeOK
<1>8. CASE DestroyQp
  <2>1. peer[cur.id] = "gone" /\ UNCHANGED <<text, peer, ppc, wc, printed>>
    BY <1>8 DEF DestroyQp, Current, Handling, LastKind
  <2>2. cur.id # c => cq'[x] = cq[x]
    BY <1>0, <1>8 DEF DestroyQp, EndRequests, x
  <2> QED BY <2>1, <2>2 DEF x
<1>9. CASE GetCqEvent \/ ReqNotify
  BY <1>9 DEF GetCqEvent, ReqNotify
<1>10. CASE PollCq
  <2>1. UNCHANGED <<text, peer, printed>> /\ ppc = "poll"
    BY <1>10 DEF PollCq
  <2>2. cq'[x] = cq[x] \/ (ppc' = "completion" /\ wc' = x)
    <3>1. CASE UNCHANGED cq
      BY <3>1
    <3>2. ASSUME NEW y \in Completion, cq' = [cq EXCEPT ![y] = @ - 1], ppc' = "completion", wc' = y
          PROVE  cq'[x] = cq[x] \/ (ppc' = "completion" /\ wc' = x)
      BY <1>0, <3>2 DEF TypeOK
    <3> QED BY <1>10, <3>1, <3>2 DEF PollCq
  <2> QED BY <2>1, <2>2 DEF x
<1>11. CASE OnCompletion
  <2>1. UNCHANGED <<text, peer, cq>> /\ printed \subseteq printed'
    BY <1>11 DEF OnCompletion
  <2>2. ASSUME peer[c] = "connected", wc = x PROVE c \in printed'
    <3>1. conn[c] = "live"
      BY <2>2 DEF Alive
    <3> QED BY <1>11, <2>2, <3>1, ConnAssumption DEF OnCompletion, Readable, x
  <2> QED BY <2>1, <2>2 DEF x
<1>12. CASE PollFails
  BY <1>12 DEF PollFails
<1>13. CASE LoopEnds \/ VerbFails
  BY <1>13 DEF LoopEnds, VerbFails, die, Running
<1>14. CASE UNCHANGED vars
  BY <1>14 DEF vars
<1> QED BY <1>1, <1>3, <1>4, <1>5, <1>6, <1>7, <1>8, <1>9, <1>10, <1>11, <1>12, <1>13, <1>14,
       StepCases

\* Every step of main leaves the acknowledgement to on_event.
LEMMA AckedStep == TypeOK /\ Acked /\ [Next]_vars /\ Running' => Acked'
<1> SUFFICES ASSUME TypeOK, Acked, [Next]_vars, Running' PROVE Acked'
  OBVIOUS
<1> USE DEF Acked, mainVars, cqVars, connVars, peerVars
<1>1. CASE UNCHANGED <<mpc, cur, unacked>>
  BY <1>1
<1>2. ASSUME NEW c \in Conn,
             \/ Request(c) \/ Establish(c) \/ PeerSend(c) \/ Refuse(c)
             \/ Deliver(c) \/ SendFails(c) \/ Disconnect(c)
      PROVE  Acked'
  BY <1>1, <1>2 DEF Request, Establish, PeerSend, Refuse, Deliver, SendFails, Disconnect
<1>3. CASE GetEvent
  BY <1>3 DEF GetEvent
<1>4. CASE OnEvent
  BY <1>4 DEF OnEvent, handler
<1>5. CASE BuildContext
  BY <1>5 DEF BuildContext
<1>6. CASE PrepareConn \/ PostReceives \/ Accept \/ OnConnection \/ DestroyQp \/ FreeConn \/ DestroyId
           \/ Listen
  BY <1>6 DEF PrepareConn, PostReceives, Accept, OnConnection, DestroyQp, FreeConn, DestroyId, Listen
<1>7. CASE GetCqEvent \/ ReqNotify \/ PollCq \/ PollFails
  BY <1>1, <1>7 DEF GetCqEvent, ReqNotify, PollCq, PollFails
<1>8. CASE OnCompletion
  BY <1>1, <1>8 DEF OnCompletion, die, Running
<1>9. CASE LoopEnds \/ VerbFails
  BY <1>9 DEF LoopEnds, VerbFails, die, Running
<1>10. CASE UNCHANGED vars
  BY <1>10 DEF vars
<1> QED BY <1>2, <1>3, <1>4, <1>5, <1>6, <1>7, <1>8, <1>9, <1>10, StepCases

\* A server that runs has always run.
LEMMA StillRunning ==
    ASSUME [Next]_vars, Running'
    PROVE  Running
<1> USE DEF Running, mainVars, cqVars, connVars, peerVars
<1>1. ASSUME NEW c \in Conn,
             \/ Request(c) \/ Establish(c) \/ PeerSend(c) \/ Refuse(c)
             \/ Deliver(c) \/ SendFails(c) \/ Disconnect(c)
      PROVE  Running
  BY <1>1 DEF Request, Establish, PeerSend, Refuse, Deliver, SendFails, Disconnect
<1>2. CASE GetEvent \/ OnEvent \/ BuildContext \/ PrepareConn \/ PostReceives \/ Accept
           \/ OnConnection \/ DestroyQp \/ FreeConn \/ DestroyId \/ Listen
  BY <1>2 DEF GetEvent, OnEvent, BuildContext, PrepareConn, PostReceives, Accept, OnConnection,
              DestroyQp, FreeConn, DestroyId, Listen
<1>3. CASE GetCqEvent \/ ReqNotify \/ PollCq \/ PollFails \/ OnCompletion
  BY <1>3 DEF GetCqEvent, ReqNotify, PollCq, PollFails, OnCompletion
<1>4. CASE LoopEnds \/ VerbFails
  BY <1>4 DEF LoopEnds, VerbFails, die
<1>5. CASE UNCHANGED vars
  BY <1>5 DEF vars
<1> QED BY <1>1, <1>2, <1>3, <1>4, <1>5, StepCases

\* As long as the server runs, nothing is forgotten (ib-conn.c:143-187,
\* cm-conn.c:165-231): a peer that asked, was told of its connection or went has an
\* event queued or in hand, or its message under way, or is released; a message that
\* arrived was reported or its completion is queued or in hand; and rdma_destroy_id
\* never waits for an event that nobody would acknowledge.
THEOREM NothingForgotten == Spec => []Pending
<1>1. Init => Pending
  <2> SUFFICES ASSUME Init PROVE Pending
    OBVIOUS
  <2>1. Acked
    BY DEF Init, Acked
  <2>2. \A c \in Conn : Owed(c) /\ Kept(c)
    BY DEF Init, Owed, Kept, Away
  <2> QED BY <2>1, <2>2 DEF Pending
<1>2. LInv /\ Pending /\ [Next]_vars => Pending'
  <2> SUFFICES ASSUME LInv, Pending, [Next]_vars, Running' PROVE Pending'
    BY DEF Pending
  <2>1. TypeOK /\ Wake /\ Current /\ Alive /\ Past
    BY DEF LInv, IInv, Order, Memory
  <2>2. Running
    BY <2>1, StillRunning
  <2>3. Acked'
    BY <2>1, <2>2, AckedStep DEF Pending
  <2>4. ASSUME NEW c \in Conn PROVE Owed(c)' /\ Kept(c)'
    <3>1. Owed(c) /\ Kept(c)
      BY <2>2 DEF Pending
    <3> QED BY <2>1, <3>1, OwedStep, KeptStep
  <2> QED BY <2>3, <2>4 DEF Pending
<1> QED BY <1>1, <1>2, LifeInvariance, PTL DEF Spec
=============================================================================
