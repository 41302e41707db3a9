------------------------------- MODULE IbvRc -------------------------------
(***************************************************************************)
(* The RDMA "reliable connection" test of c/ibtest/ibv-rc.c: the same      *)
(* program runs as a server and as a client on two hosts.  The processes   *)
(* keep step with dummy bytes on a TCP socket (sock_sync_data) and move    *)
(* one message buffer with a SEND, an RDMA READ and an RDMA WRITE, waiting *)
(* for each with poll_completion.                                          *)
(*                                                                         *)
(* One action per call of main and connect_qp; the HCA and the kernel's    *)
(* side of TCP are external and modelled from what the code relies on.     *)
(* resources_create / resources_destroy are one step each here, the inner  *)
(* steps are in module IbvResources.                                       *)
(***************************************************************************)
EXTENDS Integers, Sequences

CONSTANTS Client,    \* the process started with a server name
          Server,    \* the process started without one
          ConSize,   \* sizeof(struct cm_con_data_t), in bytes
          VerbErrs,  \* what a failing verb may return: -1, or a positive errno
          Faults     \* the faults the environment may inject

FaultKinds == {"create", "modify", "post", "poll", "link", "timeout",
               "short_read", "refused", "destroy"}

ASSUME NodeAssumption == Client # Server
ASSUME ConSizeAssumption == ConSize \in Nat \ {0}
ASSUME VerbErrAssumption == VerbErrs \subseteq Int \ {0} /\ VerbErrs # {}
ASSUME FaultAssumption == Faults \subseteq FaultKinds

VARIABLES
    pc,       \* the call each process executes next
    sock,     \* res->sockfd as the kernel knows it
    sent,     \* bytes each process has written to the socket
    rcvd,     \* bytes each process has read from it (TCP keeps their order)
    wrote,    \* TRUE while inside sock_sync_data, after the write
    nread,    \* nbytes_read of sock_sync_data
    qp,       \* state of res->qp
    rq,       \* receive requests posted and not consumed
    wr,       \* the send request in flight, or "none"
    applied,  \* it took effect at the responder, the ack is pending
    cq,       \* res->cq, a sequence of completions
    buf,      \* contents of res->buf
    out,      \* the buffer contents each process has printed
    rc        \* rc of main

tcp  == <<sock, sent, rcvd, wrote, nread>>
hca  == <<qp, rq, wr, applied, cq>>
vars == <<pc, sock, sent, rcvd, wrote, nread, qp, rq, wr, applied, cq, buf, out, rc>>

Node == {Client, Server}
Peer(p) == IF p = Client THEN Server ELSE Client

-----------------------------------------------------------------------------
(* The stages of main, grouped by the number of sock_sync_data calls the   *)
(* process has completed.                                                  *)

Stage0 == {"bind", "connect", "accept", "create", "C"}
Stage1 == {"init", "recv", "rtr", "rts", "Q"}
Stage2 == {"send", "poll1", "show1", "refill", "R"}
Stage3 == {"read", "poll2", "show2", "write", "poll3", "W"}
Stage4 == {"finish"}
Running == Stage0 \cup Stage1 \cup Stage2 \cup Stage3 \cup Stage4
Ended   == {"destroy", "close", "exited", "killed"}
SyncStage == {"C", "Q", "R", "W"}

Phase(s) == IF s \in Stage0 THEN 0
            ELSE IF s \in Stage1 THEN 1
            ELSE IF s \in Stage2 THEN 2
            ELSE IF s \in Stage3 THEN 3 ELSE 4

\* Bytes that k complete calls of sock_sync_data exchange in one direction.
Total(k) == IF k = 0 THEN 0 ELSE ConSize + k - 1

SyncSize(s) == IF s = "C" THEN ConSize ELSE 1

\* Mutant: the client does not poll for the message.
AfterSyncNoPoll(p, s) ==
    CASE s = "C" -> "init"
      [] s = "Q" -> IF p = Server THEN "send" ELSE "R"
      [] s = "R" -> IF p = Server THEN "W" ELSE "read"
      [] OTHER   -> "finish"

AfterSync(p, s) ==
    CASE s = "C" -> "init"
      [] s = "Q" -> IF p = Server THEN "send" ELSE "poll1"
      [] s = "R" -> IF p = Server THEN "W" ELSE "read"
      [] OTHER   -> "finish"

\* poll_completion is called after the SEND (both sides), the READ and the WRITE.
PollStage == {"poll1", "poll2", "poll3"}
\* Mutant: the server keeps its message in the buffer.
AfterPollNoRefill(p, s) ==
    CASE s = "poll1" -> IF p = Server THEN "R" ELSE "show1"
      [] s = "poll2" -> "show2"
      [] OTHER       -> "W"

AfterPoll(p, s) ==
    CASE s = "poll1" -> IF p = Server THEN "refill" ELSE "show1"
      [] s = "poll2" -> "show2"
      [] OTHER       -> "W"

Opcode == {"SEND", "READ", "WRITE"}
Wc     == [op : Opcode \cup {"RECV"}, ok : BOOLEAN]
Text   == {"zero", "MSG", "RDMAMSGR", "RDMAMSGW"}
CqSize == 1

Goto(p, s) == pc' = [pc EXCEPT ![p] = s]
\* goto main_exit
Fail(p) == Goto(p, "destroy")

Avail(p) == sent[Peer(p)] - rcvd[p]
PeerClosed(p) == sock[Peer(p)] = "closed"
-----------------------------------------------------------------------------
Init ==
    /\ pc = [p \in Node |-> IF p = Server THEN "bind" ELSE "connect"]
    /\ sock = [p \in Node |-> "none"]
    /\ sent = [p \in Node |-> 0]
    /\ rcvd = [p \in Node |-> 0]
    /\ wrote = [p \in Node |-> FALSE]
    /\ nread = [p \in Node |-> 0]
    /\ qp = [p \in Node |-> "NONE"]
    /\ rq = [p \in Node |-> 0]
    /\ wr = [p \in Node |-> "none"]
    /\ applied = [p \in Node |-> FALSE]
    /\ cq = [p \in Node |-> <<>>]
    /\ buf = [p \in Node |-> "zero"]
    /\ out = [p \in Node |-> <<>>]
    /\ rc = [p \in Node |-> 1]

-----------------------------------------------------------------------------
(* sock_connect: a failing connect, bind or accept leads to main_exit, a   *)
(* failing socket(), which is its first call, to exit(1).                  *)

Refused(p) == "refused" \in Faults /\ Fail(p)
NoSocket(p) == "refused" \in Faults /\ Goto(p, "exited")

Bind ==
    /\ pc[Server] = "bind"
    /\ Goto(Server, "accept") \/ Refused(Server) \/ NoSocket(Server)
    /\ UNCHANGED <<tcp, hca, buf, out, rc>>

\* The kernel completes the handshake from the backlog of listen(sockfd, 1),
\* whether or not the server has returned from accept.
Connect ==
    /\ pc[Client] = "connect"
    /\ pc[Server] = "accept"
    /\ sock' = [p \in Node |-> "open"]
    /\ Goto(Client, "create")
    /\ UNCHANGED <<sent, rcvd, wrote, nread, hca, buf, out, rc>>

ConnectRefused ==
    /\ pc[Client] = "connect"
    /\ Refused(Client) \/ NoSocket(Client)
    /\ UNCHANGED <<tcp, hca, buf, out, rc>>

\* accept may fail with a client in the backlog, whose connection lasts until the
\* server exits.
Accept ==
    /\ pc[Server] = "accept"
    /\ (sock[Server] = "open" /\ Goto(Server, "create")) \/ Refused(Server)
    /\ UNCHANGED <<tcp, hca, buf, out, rc>>

(* the rest of resources_create *)

Create(p) ==
    /\ pc[p] = "create"
    /\ qp' = [qp EXCEPT ![p] = "RESET"]
    /\ buf' = [buf EXCEPT ![p] = IF p = Server THEN "MSG" ELSE "zero"]
    /\ Goto(p, "C")
    /\ UNCHANGED <<tcp, rq, wr, applied, cq, out, rc>>

\* resources_create_exit releases what was created, the socket included.
CreateFail(p) ==
    /\ "create" \in Faults
    /\ pc[p] = "create"
    /\ sock' = [sock EXCEPT ![p] = "closed"]
    /\ Fail(p)
    /\ UNCHANGED <<sent, rcvd, wrote, nread, hca, buf, out, rc>>
-----------------------------------------------------------------------------
(* sock_sync_data                                                          *)

SyncWrite(p) ==
    /\ pc[p] \in SyncStage
    /\ ~wrote[p]
    /\ sent' = [sent EXCEPT ![p] = @ + SyncSize(pc[p])]
    /\ wrote' = [wrote EXCEPT ![p] = TRUE]
    /\ UNCHANGED <<pc, sock, rcvd, nread, hca, buf, out, rc>>

\* write returns -1 on a socket the peer has reset.
SyncWriteFail(p) ==
    /\ pc[p] \in SyncStage
    /\ ~wrote[p]
    /\ PeerClosed(p)
    /\ Fail(p)
    /\ UNCHANGED <<tcp, hca, buf, out, rc>>

\* The process holds no handler for SIGPIPE: a write to a closed connection may
\* kill it, and the kernel releases its socket and its verbs objects.
SyncWriteKilled(p) ==
    /\ pc[p] \in SyncStage
    /\ ~wrote[p]
    /\ PeerClosed(p)
    /\ Goto(p, "killed")
    /\ sock' = [sock EXCEPT ![p] = "closed"]
    /\ qp' = [qp EXCEPT ![p] = "NONE"]
    /\ rq' = [rq EXCEPT ![p] = 0]
    /\ wr' = [wr EXCEPT ![p] = "none"]
    /\ applied' = [applied EXCEPT ![p] = FALSE]
    /\ cq' = [cq EXCEPT ![p] = <<>>]
    /\ UNCHANGED <<sent, rcvd, wrote, nread, buf, out, rc>>

\* k bytes arrive in the buffer; the call ends when nbytes_read >= xfer_size.
Take(p, k) ==
    /\ rcvd' = [rcvd EXCEPT ![p] = @ + k]
    /\ \/ /\ nread[p] + k >= SyncSize(pc[p])
          /\ nread' = [nread EXCEPT ![p] = 0]
          /\ wrote' = [wrote EXCEPT ![p] = FALSE]
          /\ Goto(p, AfterSync(p, pc[p]))
       \/ /\ nread[p] + k < SyncSize(pc[p])
          /\ nread' = [nread EXCEPT ![p] = @ + k]
          /\ UNCHANGED <<pc, wrote>>

\* Mutant: the call returns once its bytes are written.
SyncReadSkipped(p) ==
    /\ pc[p] \in SyncStage
    /\ wrote[p]
    /\ wrote' = [wrote EXCEPT ![p] = FALSE]
    /\ Goto(p, AfterSync(p, pc[p]))
    /\ UNCHANGED <<sock, sent, rcvd, nread, hca, buf, out, rc>>

\* Mutant: a read takes whatever has arrived.
SyncReadGreedy(p) ==
    /\ pc[p] \in SyncStage
    /\ wrote[p]
    /\ Avail(p) > 0
    /\ Take(p, Avail(p))
    /\ UNCHANGED <<sock, sent, hca, buf, out, rc>>

\* Every read asks for xfer_size bytes, also after a partial one, so a call may
\* take bytes that belong to the next call.
SyncRead(p) ==
    /\ pc[p] \in SyncStage
    /\ wrote[p]
    /\ \E k \in 1 .. SyncSize(pc[p]) :
        /\ k <= Avail(p)
        /\ "short_read" \in Faults \/ k = SyncSize(pc[p])
        /\ Take(p, k)
    /\ UNCHANGED <<sock, sent, hca, buf, out, rc>>

\* The peer closed its end with bytes of ours unread: read returns -1.
SyncReset(p) ==
    /\ pc[p] \in SyncStage
    /\ wrote[p]
    /\ PeerClosed(p)
    /\ rcvd[Peer(p)] < sent[p]
    /\ Fail(p)
    /\ UNCHANGED <<tcp, hca, buf, out, rc>>

\* End of file: read returns 0, which is not EOF (-1), and the loop goes round.
EofSpin(p) ==
    /\ pc[p] \in SyncStage
    /\ wrote[p]
    /\ PeerClosed(p)
    /\ Avail(p) = 0
    /\ rcvd[Peer(p)] >= sent[p]

SyncEof(p) == EofSpin(p) /\ UNCHANGED vars
-----------------------------------------------------------------------------
(* connect_qp after the exchange (gid_idx at its default, -1)              *)

\* modify_qp_to_*: only a negative return of ibv_modify_qp is an error.
Modify(p, at, from, to, next) ==
    /\ pc[p] = at
    /\ \/ /\ qp[p] = from
          /\ qp' = [qp EXCEPT ![p] = to]
          /\ Goto(p, next)
       \/ /\ "modify" \in Faults \/ qp[p] # from
          /\ \E e \in VerbErrs : IF e < 0 THEN Fail(p) ELSE Goto(p, next)
          /\ UNCHANGED qp
    /\ UNCHANGED <<tcp, rq, wr, applied, cq, buf, out, rc>>

\* Mutant: the client does not post its receive.
ModifyToInitNoRecv(p) == Modify(p, "init", "RESET", "INIT", "rtr")

ModifyToInit(p) == Modify(p, "init", "RESET", "INIT", IF p = Client THEN "recv" ELSE "rtr")
ModifyToRtr(p)  == Modify(p, "rtr", "INIT", "RTR", "rts")
ModifyToRts(p)  == Modify(p, "rts", "RTR", "RTS", "Q")

\* connect_qp compares the result of post_receive with -1.
PostReceive ==
    /\ pc[Client] = "recv"
    /\ \/ /\ qp[Client] = "INIT"
          /\ rq' = [rq EXCEPT ![Client] = 1]
          /\ Goto(Client, "rtr")
       \/ /\ "post" \in Faults \/ qp[Client] # "INIT"
          /\ \E e \in VerbErrs : IF e = -1 THEN Fail(Client) ELSE Goto(Client, "rtr")
          /\ UNCHANGED rq
    /\ UNCHANGED <<tcp, qp, wr, applied, cq, buf, out, rc>>

-----------------------------------------------------------------------------
(* main after connect_qp                                                   *)

\* main treats any non-zero result of post_send as an error.
PostSend(p, at, op, next) ==
    /\ pc[p] = at
    /\ \/ /\ qp[p] = "RTS" /\ wr[p] = "none"
          /\ wr' = [wr EXCEPT ![p] = op]
          /\ applied' = [applied EXCEPT ![p] = FALSE]
          /\ Goto(p, next)
       \/ /\ "post" \in Faults \/ qp[p] # "RTS" \/ wr[p] # "none"
          /\ Fail(p)
          /\ UNCHANGED <<wr, applied>>
    /\ UNCHANGED <<tcp, qp, rq, cq, buf, out, rc>>

\* Mutant: the client does not wait for its WRITE.
WriteNotAwaited == PostSend(Client, "write", "WRITE", "W")

SendMsg   == PostSend(Server, "send", "SEND", "poll1")
ReadPeer  == PostSend(Client, "read", "READ", "poll2")
WritePeer == PostSend(Client, "write", "WRITE", "poll3")

\* poll_completion takes the first completion, whatever it completes.
PollFound(p) ==
    /\ pc[p] \in PollStage
    /\ cq[p] # <<>>
    /\ cq' = [cq EXCEPT ![p] = Tail(@)]
    /\ IF Head(cq[p]).ok THEN Goto(p, AfterPoll(p, pc[p])) ELSE Fail(p)
    /\ UNCHANGED <<tcp, qp, rq, wr, applied, buf, out, rc>>

\* A process that waits for a byte nobody has sent, or that has no socket left.
Stalled(p) == \/ sock[p] = "closed"
              \/ pc[p] \in Ended
              \/ pc[p] \in SyncStage /\ wrote[p] /\ Avail(p) = 0

\* Mutant: poll_completion without a deadline.
PollForever(p) ==
    /\ pc[p] \in PollStage
    /\ cq[p] = <<>>
    /\ UNCHANGED vars

\* Two seconds without a completion: the peer is slow, or nothing is in flight
\* and the peer will not start anything.
PollTimeout(p) ==
    /\ pc[p] \in PollStage
    /\ cq[p] = <<>>
    /\ \/ "timeout" \in Faults
       \/ wr[p] = "none" /\ wr[Peer(p)] = "none" /\ Stalled(Peer(p))
    /\ Fail(p)
    /\ UNCHANGED <<tcp, hca, buf, out, rc>>

\* ibv_poll_cq fails.
PollError(p) ==
    /\ "poll" \in Faults
    /\ pc[p] \in PollStage
    /\ Fail(p)
    /\ UNCHANGED <<tcp, hca, buf, out, rc>>

Show(p) == out' = [out EXCEPT ![p] = Append(@, buf[p])]

ShowMessage ==
    /\ pc[Client] = "show1"
    /\ Show(Client)
    /\ Goto(Client, "R")
    /\ UNCHANGED <<tcp, hca, buf, rc>>

Refill ==
    /\ pc[Server] = "refill"
    /\ buf' = [buf EXCEPT ![Server] = "RDMAMSGR"]
    /\ Goto(Server, "R")
    /\ UNCHANGED <<tcp, hca, out, rc>>

ShowAndReplace ==
    /\ pc[Client] = "show2"
    /\ Show(Client)
    /\ buf' = [buf EXCEPT ![Client] = "RDMAMSGW"]
    /\ Goto(Client, "write")
    /\ UNCHANGED <<tcp, hca, rc>>

Finish(p) ==
    /\ pc[p] = "finish"
    /\ IF p = Server THEN Show(p) ELSE UNCHANGED out
    /\ rc' = [rc EXCEPT ![p] = 0]
    /\ Goto(p, "destroy")
    /\ UNCHANGED <<tcp, hca, buf>>

\* main_exit: resources_destroy releases the verbs objects, then the socket.
Destroy(p) ==
    /\ pc[p] = "destroy"
    /\ qp' = [qp EXCEPT ![p] = "NONE"]
    /\ rq' = [rq EXCEPT ![p] = 0]
    /\ wr' = [wr EXCEPT ![p] = "none"]
    /\ applied' = [applied EXCEPT ![p] = FALSE]
    /\ cq' = [cq EXCEPT ![p] = <<>>]
    /\ \/ UNCHANGED rc
       \/ "destroy" \in Faults /\ rc' = [rc EXCEPT ![p] = 1]
    /\ Goto(p, "close")
    /\ UNCHANGED <<tcp, buf, out>>

Close(p) ==
    /\ pc[p] = "close"
    /\ sock' = [sock EXCEPT ![p] = IF @ = "none" THEN "none" ELSE "closed"]
    /\ Goto(p, "exited")
    /\ UNCHANGED <<sent, rcvd, wrote, nread, hca, buf, out, rc>>
-----------------------------------------------------------------------------
(* The HCAs (external): a reliable connection with one request in flight.  *)

Responds(p) == qp[p] \in {"RTR", "RTS"}

DeliverSend(p) ==
    /\ wr[p] = "SEND" /\ ~applied[p]
    /\ Responds(Peer(p)) /\ rq[Peer(p)] = 1
    /\ rq' = [rq EXCEPT ![Peer(p)] = 0]
    /\ buf' = [buf EXCEPT ![Peer(p)] = buf[p]]
    /\ cq' = [cq EXCEPT ![Peer(p)] = Append(@, [op |-> "RECV", ok |-> TRUE])]
    /\ applied' = [applied EXCEPT ![p] = TRUE]
    /\ UNCHANGED <<pc, tcp, qp, wr, out, rc>>

DeliverRdma(p) ==
    /\ wr[p] \in {"READ", "WRITE"} /\ ~applied[p]
    /\ Responds(Peer(p))
    /\ buf' = IF wr[p] = "READ" THEN [buf EXCEPT ![p] = buf[Peer(p)]]
                                ELSE [buf EXCEPT ![Peer(p)] = buf[p]]
    /\ applied' = [applied EXCEPT ![p] = TRUE]
    /\ UNCHANGED <<pc, tcp, qp, rq, wr, cq, out, rc>>

Retire(p, ok) ==
    /\ cq' = [cq EXCEPT ![p] = Append(@, [op |-> wr[p], ok |-> ok])]
    /\ wr' = [wr EXCEPT ![p] = "none"]
    /\ applied' = [applied EXCEPT ![p] = FALSE]

Complete(p) ==
    /\ wr[p] # "none" /\ applied[p]
    /\ Retire(p, TRUE)
    /\ UNCHANGED <<pc, tcp, qp, rq, buf, out, rc>>

\* The responder cannot take the request (rnr_retry is 0, retry_cnt runs out),
\* or the link drops packets, acknowledgements included, for too long.
RequestFails(p) ==
    /\ wr[p] # "none"
    /\ \/ "link" \in Faults
       \/ ~applied[p] /\ ~Responds(Peer(p))
       \/ ~applied[p] /\ wr[p] = "SEND" /\ rq[Peer(p)] = 0
    /\ Retire(p, FALSE)
    /\ qp' = [qp EXCEPT ![p] = "ERR"]
    /\ UNCHANGED <<pc, tcp, rq, buf, out, rc>>

Hca(p) == DeliverSend(p) \/ DeliverRdma(p) \/ Complete(p) \/ RequestFails(p)
-----------------------------------------------------------------------------
Sync(p) == \/ SyncWrite(p) \/ SyncWriteFail(p) \/ SyncWriteKilled(p)
           \/ SyncRead(p) \/ SyncReset(p)

\* connect_qp, with the Sync of its two exchanges; the client posts its receive
\* between the first two steps (PostReceive).
ConnectQp(p) == ModifyToInit(p) \/ ModifyToRtr(p) \/ ModifyToRts(p)

Both(p) == \/ Create(p) \/ CreateFail(p) \/ Sync(p) \/ ConnectQp(p)
           \/ PollFound(p) \/ PollTimeout(p)
           \/ Finish(p) \/ Destroy(p) \/ Close(p)

ClientStep == \/ Connect \/ ConnectRefused \/ PostReceive \/ ShowMessage
              \/ ReadPeer \/ ShowAndReplace \/ WritePeer \/ Both(Client)

ServerStep == Bind \/ Accept \/ SendMsg \/ Refill \/ Both(Server)

\* A process has left, or listens for a client that will not come any more.
Stopped(p) == \/ pc[p] \in {"exited", "killed"}
              \/ p = Client /\ pc[p] = "connect" /\ pc[Server] \in Ended
              \/ p = Server /\ pc[p] = "accept" /\ sock[p] = "none"
                   /\ pc[Client] \in {"exited", "killed"}

Terminated == (\A p \in Node : Stopped(p)) /\ UNCHANGED vars

Next == \/ ClientStep
        \/ ServerStep
        \/ \E p \in Node : Hca(p) \/ SyncEof(p) \/ PollError(p)
        \/ Terminated

Spec == Init /\ [][Next]_vars

\* Each process is scheduled, and the two HCAs make progress.  Nothing obliges
\* ibv_poll_cq to fail.
FairSpec == /\ Spec
            /\ WF_vars(ClientStep)
            /\ WF_vars(ServerStep)
            /\ \A p \in Node : WF_vars(Hca(p))
-----------------------------------------------------------------------------
(* Properties                                                              *)

\* Types of all variables; both processes run the same stages.
TypeOK ==
    /\ pc \in [Node -> Running \cup Ended]
    /\ sock \in [Node -> {"none", "open", "closed"}]
    /\ sent \in [Node -> Nat]
    /\ rcvd \in [Node -> Nat]
    /\ wrote \in [Node -> BOOLEAN]
    /\ nread \in [Node -> Nat]
    /\ qp \in [Node -> {"NONE", "RESET", "INIT", "RTR", "RTS", "ERR"}]
    /\ rq \in [Node -> {0, 1}]
    /\ wr \in [Node -> Opcode \cup {"none"}]
    /\ applied \in [Node -> BOOLEAN]
    /\ cq \in [Node -> Seq(Wc)]
    /\ buf \in [Node -> Text]
    /\ out \in [Node -> Seq(Text)]
    /\ rc \in [Node -> {0, 1}]

\* The dummy bytes are a barrier (ibv-rc.c:773, 811): no process is past a
\* sock_sync_data call that the other one has not entered and written.
Barrier ==
    \A p \in Node :
        pc[p] \in Running /\ pc[Peer(p)] \in Running =>
            Phase(pc[p]) <= Phase(pc[Peer(p)]) + (IF wrote[Peer(p)] THEN 1 ELSE 0)

\* Every call of sock_sync_data consumes the bytes the peer wrote in the same
\* call, so a process between two calls has read exactly what was exchanged.
SyncAligned ==
    \A p \in Node :
        pc[p] \in Running =>
            rcvd[p] = Total(Phase(pc[p])) + nread[p]

\* The inductive form of Barrier: the bytes a process has written and read are
\* at least those of the calls it has completed, and none is read before it is
\* written (sock_sync_data, ibv-rc.c:91).
SyncInv ==
    \A p \in Node :
        /\ rcvd[p] <= sent[Peer(p)]
        /\ pc[p] \in Running =>
              /\ rcvd[p] >= Total(Phase(pc[p])) + nread[p]
              /\ sent[p] = Total(Phase(pc[p])) + (IF wrote[p] THEN SyncSize(pc[p]) ELSE 0)
              /\ wrote[p] => pc[p] \in SyncStage
              /\ ~wrote[p] => nread[p] = 0

\* "there is a Receive Request in the responder side, so we won't get andy into
\* RNR flow" (ibv-rc.c:464): a SEND in flight finds a receive posted for it.
ReceiverReady ==
    wr[Server] = "SEND" /\ ~applied[Server] /\ Responds(Client) => rq[Client] = 1

\* The inductive form of ReceiverReady when a failing verb returns -1: until the
\* server posts its SEND nothing is in flight, and the client enters RTR only
\* with its receive posted (connect_qp, ibv-rc.c:578-589).
Early == Stage0 \cup Stage1 \cup {"send"}
ReceiverInv ==
    /\ ReceiverReady
    /\ pc[Server] \in Early =>
          wr[Server] = "none" /\ (Responds(Client) => rq[Client] = 1)
    /\ pc[Client] \in {"C", "init"} => qp[Client] = "RESET"
    /\ pc[Client] = "recv" => qp[Client] = "INIT"
    /\ pc[Client] = "rtr"  => qp[Client] = "INIT" /\ rq[Client] = 1
    /\ pc[Client] \in Stage0 \cup Stage1 => wr[Client] = "none"
    /\ wr[Client] # "SEND"

\* Operations of either side that read or write the buffer of p.
Touches(p) == \/ wr[p] # "none"
              \/ wr[Peer(p)] # "none" /\ ~applied[Peer(p)] /\ Responds(p)

\* The program reads or writes res->buf itself only while no posted operation,
\* its own or one of the peer, can still touch it (ibv-rc.c:773, 811).
QuiescentBuffer ==
    \A p \in Node :
        pc[p] \in {"show1", "refill", "show2", "finish"} => ~Touches(p)

\* The completion each poll_completion call waits for.
Expected(p, s) == CASE s = "poll1" -> IF p = Server THEN "SEND" ELSE "RECV"
                    [] s = "poll2" -> "READ"
                    [] OTHER       -> "WRITE"

\* poll_completion does not look at the opcode or wr_id of what it takes from the
\* CQ shared by both queues; it always is the operation just posted.
PollsOwnCompletion ==
    \A p \in Node :
        pc[p] \in PollStage /\ cq[p] # <<>> => Head(cq[p]).op = Expected(p, pc[p])

\* A completion queue of one entry is enough (FIXME at ibv-rc.c:257): it never
\* holds a second completion.
CqWithinCapacity == \A p \in Node : Len(cq[p]) <= CqSize

\* Every result in a process that reports success was printed by both sides, in
\* the order the operations are run: the abstract view of the test.
Exchange == INSTANCE RcExchange
ImplementsExchange == Exchange!Spec

\* Without faults both processes leave with result 0.
BothSucceed == <>(\A p \in Node : pc[p] = "exited" /\ rc[p] = 0)

\* "in both sides we expect to get a completion" (ibv-rc.c:761): a client that
\* waits for the message gets it.
ClientGetsMessage == pc[Client] = "poll1" ~> pc[Client] = "show1"

\* Whatever fails, each process leaves, keeps listening for a client that has
\* gone, or spins on the end of file of a dead peer (ibv-rc.c:109).
Settles == \A p \in Node : <>[](Stopped(p) \/ EofSpin(p))
=============================================================================
