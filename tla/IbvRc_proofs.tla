---------------------------- MODULE IbvRc_proofs ----------------------------
(***************************************************************************)
(* Theorems about IbvRc, for every size of the connection data, every      *)
(* return value of a failing verb and every set of faults: the exchanges   *)
(* of bytes, the queues, the buffers, and that it implements RcExchange.   *)
(***************************************************************************)
EXTENDS IbvRc, TLAPS, SequenceTheorems

\* The stages, expanded together where the step of a process is followed.
LEMMA PeerProperty ==
    \A p \in Node : Peer(p) \in Node /\ Peer(p) # p /\ Peer(Peer(p)) = p
BY NodeAssumption DEF Node, Peer

-----------------------------------------------------------------------------
(* Type correctness                                                        *)

\* The initial state has the types of TypeOK.
LEMMA InitType == Init => TypeOK
BY NodeAssumption DEF Init, TypeOK, Running, Ended, Stage0, Stage1, Stage2, Stage3,
   Stage4, Node, Opcode, Text

\* What the steps both processes take preserve.
LEMMA BothType ==
    ASSUME TypeOK, NEW p \in Node, Both(p) \/ PollError(p)
    PROVE  TypeOK'
<1> USE DEF TypeOK, Goto, Fail, Running, Ended, Stage0, Stage1, Stage2, Stage3, Stage4
<1>1. CASE Create(p)
  BY <1>1 DEF Create, tcp, Text
<1>2. CASE CreateFail(p)
  BY <1>2 DEF CreateFail, hca
<1>3. CASE Sync(p)
  <2>1. CASE SyncWrite(p)
    <3>1. SyncSize(pc[p]) \in Nat
      BY ConSizeAssumption DEF SyncSize
    <3>2. sent[p] + SyncSize(pc[p]) \in Nat
      BY <3>1
    <3> QED
      BY <2>1, <3>2 DEF SyncWrite, hca
  <2>2. CASE SyncWriteFail(p)
    BY <2>2 DEF SyncWriteFail, tcp, hca
  <2>3. CASE SyncWriteKilled(p)
    BY <2>3 DEF SyncWriteKilled, Opcode
  <2>4. CASE SyncRead(p)
    <3>1. PICK k \in 1 .. SyncSize(pc[p]) : Take(p, k)
      BY <2>4 DEF SyncRead
    <3>2. k \in Nat
      BY ConSizeAssumption DEF SyncSize
    <3>3. rcvd[p] + k \in Nat /\ nread[p] + k \in Nat
      BY <3>2
    <3>4. AfterSync(p, pc[p]) \in Running
      BY DEF AfterSync
    <3>5. rcvd' \in [Node -> Nat] /\ nread' \in [Node -> Nat]
      <4>1. CASE nread' = [nread EXCEPT ![p] = 0]
        BY <3>1, <3>3, <4>1 DEF Take
      <4>2. CASE nread' = [nread EXCEPT ![p] = @ + k]
        BY <3>1, <3>3, <4>2 DEF Take
      <4> QED
        BY <3>1, <4>1, <4>2 DEF Take
    <3>6. wrote' \in [Node -> BOOLEAN]
      BY <3>1 DEF Take
    <3>7. pc' \in [Node -> Running \cup Ended]
      BY <3>1, <3>4 DEF Take
    <3> QED
      BY <2>4, <3>5, <3>6, <3>7 DEF SyncRead, hca
  <2>5. CASE SyncReset(p)
    BY <2>5 DEF SyncReset, tcp, hca
  <2> QED
    BY <1>3, <2>1, <2>2, <2>3, <2>4, <2>5 DEF Sync
<1>4. CASE ModifyToInit(p)
  BY <1>4 DEF ModifyToInit, Modify, tcp
<1>5. CASE ModifyToRtr(p)
  BY <1>5 DEF ModifyToRtr, Modify, tcp
<1>6. CASE ModifyToRts(p)
  BY <1>6 DEF ModifyToRts, Modify, tcp
<1>7. CASE PollFound(p)
  <2>1. AfterPoll(p, pc[p]) \in Running
    BY DEF AfterPoll
  <2>2. cq[p] \in Seq(Wc) /\ cq[p] # <<>>
    BY <1>7 DEF PollFound
  <2>3. Tail(cq[p]) \in Seq(Wc)
    BY <2>2
  <2>4. cq' \in [Node -> Seq(Wc)]
    BY <1>7, <2>3 DEF PollFound
  <2>5. pc' = [pc EXCEPT ![p] = AfterPoll(p, pc[p])] \/ pc' = [pc EXCEPT ![p] = "destroy"]
    BY <1>7 DEF PollFound
  <2>6. pc' \in [Node -> Running \cup Ended]
    BY <2>1, <2>5
  <2> QED
    BY <1>7, <2>4, <2>6 DEF PollFound, tcp
<1>8. CASE PollTimeout(p)
  BY <1>8 DEF PollTimeout, tcp, hca
<1>9. CASE PollError(p)
  BY <1>9 DEF PollError, tcp, hca
<1>10. CASE Finish(p)
  <2>1. Append(out[p], buf[p]) \in Seq(Text)
    OBVIOUS
  <2>2. out' \in [Node -> Seq(Text)]
    BY <1>10, <2>1 DEF Finish, Show
  <2>3. rc' \in [Node -> {0, 1}]
    BY <1>10 DEF Finish
  <2> QED
    BY <1>10, <2>2, <2>3 DEF Finish, tcp, hca
<1>11. CASE Destroy(p)
  <2>1. rc' \in [Node -> {0, 1}]
    BY <1>11 DEF Destroy
  <2>2. wr' \in [Node -> Opcode \cup {"none"}]
    BY <1>11 DEF Destroy
  <2> QED
    BY <1>11, <2>1, <2>2 DEF Destroy, tcp
<1>12. CASE Close(p)
  BY <1>12 DEF Close, hca
<1> QED
  BY <1>1, <1>2, <1>3, <1>4, <1>5, <1>6, <1>7, <1>8, <1>9, <1>10, <1>11, <1>12 DEF Both, ConnectQp

\* Printing the buffer appends a text to what the process has shown.
LEMMA PrintType ==
    ASSUME TypeOK, NEW p \in Node, Show(p)
    PROVE  out' \in [Node -> Seq(Text)]
<1>1. Append(out[p], buf[p]) \in Seq(Text)
  BY DEF TypeOK
<1> QED
  BY <1>1 DEF Show, TypeOK

\* Posting any request at a stage that is followed by a stage of the program.
LEMMA PostSendType ==
    ASSUME TypeOK, NEW p \in Node, NEW at, NEW op \in Opcode, NEW next \in Running,
           PostSend(p, at, op, next)
    PROVE  TypeOK'
<1>1. wr' \in [Node -> Opcode \cup {"none"}]
  <2>1. wr \in [Node -> Opcode \cup {"none"}]
    BY DEF TypeOK
  <2>2. wr' = [wr EXCEPT ![p] = op] \/ wr' = wr
    BY DEF PostSend
  <2> QED
    BY <2>1, <2>2
<1>2. applied' \in [Node -> BOOLEAN]
  BY DEF PostSend, TypeOK
<1>3. pc' = [pc EXCEPT ![p] = next] \/ pc' = [pc EXCEPT ![p] = "destroy"]
  BY DEF PostSend, Fail, Goto
<1>4. pc' \in [Node -> Running \cup Ended]
  <2>1. pc \in [Node -> Running \cup Ended] /\ "destroy" \in Ended
    BY DEF TypeOK, Ended
  <2> QED
    BY <1>3, <2>1
<1> QED
  BY <1>1, <1>2, <1>4 DEF PostSend, TypeOK, tcp

\* What the steps of one side only preserve.
LEMMA OneSideType ==
    ASSUME TypeOK,
           \/ Bind \/ Connect \/ ConnectRefused \/ Accept \/ PostReceive \/ SendMsg
           \/ ReadPeer \/ WritePeer \/ ShowMessage \/ Refill \/ ShowAndReplace
    PROVE  TypeOK'
<1> USE DEF TypeOK, Goto, Fail, Running, Ended, Stage0, Stage1, Stage2, Stage3, Stage4, Node
<1>1. CASE Bind
  BY <1>1 DEF Bind, Refused, NoSocket, tcp, hca
<1>2. CASE Connect
  BY <1>2 DEF Connect, hca
<1>3. CASE ConnectRefused
  BY <1>3 DEF ConnectRefused, Refused, NoSocket, tcp, hca
<1>4. CASE Accept
  BY <1>4 DEF Accept, Refused, NoSocket, tcp, hca
<1>5. CASE PostReceive
  BY <1>5 DEF PostReceive, tcp
<1>6. CASE SendMsg
  BY <1>6, PostSendType DEF SendMsg, Opcode
<1>7. CASE ReadPeer
  BY <1>7, PostSendType DEF ReadPeer, Opcode
<1>8. CASE WritePeer
  BY <1>8, PostSendType DEF WritePeer, Opcode
<1>9. CASE ShowMessage
  BY <1>9, PrintType DEF ShowMessage, tcp, hca
<1>10. CASE Refill
  BY <1>10 DEF Refill, tcp, hca, Text
<1>11. CASE ShowAndReplace
  <2>1. out' \in [Node -> Seq(Text)]
    BY <1>11, PrintType DEF ShowAndReplace
  <2>2. buf' \in [Node -> Text]
    BY <1>11 DEF ShowAndReplace, Text
  <2> QED
    BY <1>11, <2>1, <2>2 DEF ShowAndReplace, tcp, hca
<1> QED
  BY <1>1, <1>2, <1>3, <1>4, <1>5, <1>6, <1>7, <1>8, <1>9, <1>10, <1>11

\* What the steps of the two HCAs preserve.
LEMMA HcaType ==
    ASSUME TypeOK, NEW p \in Node, Hca(p)
    PROVE  TypeOK'
<1>1. Peer(p) \in Node
  BY PeerProperty
<1>2. CASE DeliverSend(p)
  <2>1. [op |-> "RECV", ok |-> TRUE] \in Wc
    BY DEF Wc
  <2>2. cq' \in [Node -> Seq(Wc)]
    BY <1>1, <1>2, <2>1 DEF DeliverSend, TypeOK
  <2>3. rq' \in [Node -> {0, 1}] /\ buf' \in [Node -> Text] /\ applied' \in [Node -> BOOLEAN]
    BY <1>1, <1>2 DEF DeliverSend, TypeOK
  <2> QED
    BY <1>2, <2>2, <2>3 DEF DeliverSend, TypeOK, tcp
<1>3. CASE DeliverRdma(p)
  BY <1>1, <1>3 DEF DeliverRdma, TypeOK, tcp
<1>4. ASSUME NEW ok \in BOOLEAN, Retire(p, ok), wr[p] # "none"
      PROVE  /\ cq' \in [Node -> Seq(Wc)]
             /\ wr' \in [Node -> Opcode \cup {"none"}]
             /\ applied' \in [Node -> BOOLEAN]
  <2>1. [op |-> wr[p], ok |-> ok] \in Wc
    BY <1>4 DEF TypeOK, Wc
  <2> QED
    BY <1>4, <2>1 DEF Retire, TypeOK
<1>5. CASE Complete(p)
  BY <1>4, <1>5 DEF Complete, TypeOK, tcp
<1>6. CASE RequestFails(p)
  BY <1>4, <1>6 DEF RequestFails, TypeOK, tcp
<1> QED
  BY <1>2, <1>3, <1>5, <1>6 DEF Hca

\* Every step keeps the types.
LEMMA NextType == TypeOK /\ [Next]_vars => TypeOK'
<1> SUFFICES ASSUME TypeOK, [Next]_vars PROVE TypeOK'
  OBVIOUS
<1>1. CASE UNCHANGED vars
  BY <1>1 DEF vars, TypeOK
<1>2. CASE ClientStep
  BY <1>2, OneSideType, BothType DEF ClientStep, Node
<1>3. CASE ServerStep
  BY <1>3, OneSideType, BothType DEF ServerStep, Node
<1>4. ASSUME NEW p \in Node, Hca(p) \/ PollError(p) PROVE TypeOK'
  BY <1>4, HcaType, BothType
<1> QED
  BY <1>1, <1>2, <1>3, <1>4 DEF Next, SyncEof, Terminated

\* Every state the two processes and their HCAs reach has the types of TypeOK.
THEOREM TypeCorrect == Spec => []TypeOK
<1>1. Init => TypeOK
  BY InitType
<1>2. TypeOK /\ [Next]_vars => TypeOK'
  BY NextType
<1> QED
  BY <1>1, <1>2, PTL DEF Spec
-----------------------------------------------------------------------------
(* The barrier                                                             *)

\* A step of p that touches no byte of the socket: it stays in its phase outside
\* of sock_sync_data, or leaves for main_exit.
Local(p) ==
    /\ UNCHANGED <<sent, rcvd, wrote, nread>>
    /\ \A r \in Node \ {p} : pc'[r] = pc[r]
    /\ \/ pc'[p] = pc[p]
       \/ pc'[p] \in Ended
       \/ /\ pc[p] \in Running \ SyncStage
          /\ pc'[p] \in Running
          /\ Phase(pc'[p]) = Phase(pc[p])

\* Byte counts of successive calls.
LEMMA TotalProperty ==
    /\ \A k \in 0 .. 4 : Total(k) \in Nat
    /\ \A j, k \in 0 .. 4 : Total(j) <= Total(k) => j <= k
    /\ \A s \in SyncStage : Total(Phase(s) + 1) = Total(Phase(s)) + SyncSize(s)
    /\ \A s \in Running \cup Ended : Phase(s) \in 0 .. 4
    /\ \A s \in SyncStage : Phase(s) \in 0 .. 3 /\ s \in Running
    /\ \A p \in Node, s \in SyncStage :
          /\ Phase(AfterSync(p, s)) = Phase(s) + 1
          /\ AfterSync(p, s) \in Running
<1>1. \A k \in 0 .. 4 : Total(k) \in Nat
  BY ConSizeAssumption DEF Total
<1>2. \A j, k \in 0 .. 4 : Total(j) <= Total(k) => j <= k
  BY ConSizeAssumption DEF Total
<1>3. \A s \in SyncStage : Phase(s) \in 0 .. 3 /\ s \in Running
  BY DEF SyncStage, Phase, Running, Stage0, Stage1, Stage2, Stage3, Stage4
<1>4. \A s \in SyncStage : Total(Phase(s) + 1) = Total(Phase(s)) + SyncSize(s)
  BY ConSizeAssumption DEF Total, SyncStage, Phase, SyncSize, Stage0, Stage1, Stage2, Stage3
<1>5. \A s \in Running \cup Ended : Phase(s) \in 0 .. 4
  BY DEF Phase
<1>6. ASSUME NEW p \in Node, NEW s \in SyncStage
      PROVE  /\ Phase(AfterSync(p, s)) = Phase(s) + 1
             /\ AfterSync(p, s) \in Running
  BY DEF AfterSync, SyncStage, Phase, Running, Stage0, Stage1, Stage2, Stage3, Stage4
<1> QED
  BY <1>1, <1>2, <1>3, <1>4, <1>5, <1>6

\* No stage belongs both to the program's run and to its end.
LEMMA Disjoint == Running \cap Ended = {}
BY DEF Running, Ended, Stage0, Stage1, Stage2, Stage3, Stage4

\* Local steps keep the byte counts in order.
LEMMA LocalKeeps ==
    ASSUME TypeOK, SyncInv, NEW p \in Node, Local(p)
    PROVE  SyncInv'
<1>1. SUFFICES ASSUME NEW r \in Node
               PROVE  /\ rcvd[r] <= sent[Peer(r)]
                      /\ pc'[r] \in Running =>
                           /\ rcvd[r] >= Total(Phase(pc'[r])) + nread[r]
                           /\ sent[r] = Total(Phase(pc'[r])) +
                                          (IF wrote[r] THEN SyncSize(pc'[r]) ELSE 0)
                           /\ wrote[r] => pc'[r] \in SyncStage
                           /\ ~wrote[r] => nread[r] = 0
  BY DEF SyncInv, Local
<1>2. CASE pc'[r] = pc[r]
  BY <1>2 DEF SyncInv
<1>3. CASE pc'[r] # pc[r]
  <2>1. r = p
    BY <1>3 DEF Local
  <2>2. CASE pc'[p] \in Ended
    BY <2>1, <2>2, Disjoint DEF SyncInv
  <2>3. CASE /\ pc[p] \in Running \ SyncStage
             /\ pc'[p] \in Running
             /\ Phase(pc'[p]) = Phase(pc[p])
    BY <2>1, <2>3 DEF SyncInv
  <2> QED
    BY <1>3, <2>1, <2>2, <2>3 DEF Local
<1> QED
  BY <1>2, <1>3

\* The write of sock_sync_data adds the bytes of the current call.
LEMMA WriteKeeps ==
    ASSUME TypeOK, SyncInv, NEW p \in Node, SyncWrite(p)
    PROVE  SyncInv'
<1>1. /\ SyncSize(pc[p]) \in Nat
      /\ sent[p] \in Nat /\ sent'[p] = sent[p] + SyncSize(pc[p]) /\ wrote'[p] = TRUE
      /\ \A r \in Node \ {p} : sent'[r] = sent[r] /\ wrote'[r] = wrote[r]
      /\ UNCHANGED <<pc, rcvd, nread>>
  BY ConSizeAssumption DEF SyncWrite, SyncSize, TypeOK
<1>2. ASSUME NEW r \in Node
      PROVE  rcvd[r] <= sent'[Peer(r)]
  <2>1. rcvd[r] <= sent[Peer(r)] /\ Peer(r) \in Node
    BY PeerProperty DEF SyncInv
  <2>2. rcvd[r] \in Nat /\ sent[Peer(r)] \in Nat
    BY <2>1 DEF TypeOK
  <2> QED
    BY <1>1, <2>1, <2>2
<1>3. ASSUME NEW r \in Node, pc[r] \in Running
      PROVE  /\ rcvd[r] >= Total(Phase(pc[r])) + nread[r]
             /\ sent'[r] = Total(Phase(pc[r])) + (IF wrote'[r] THEN SyncSize(pc[r]) ELSE 0)
             /\ wrote'[r] => pc[r] \in SyncStage
             /\ ~wrote'[r] => nread[r] = 0
  <2>1. CASE r = p
    <3>1. Total(Phase(pc[p])) \in Nat
      BY <1>3, <2>1, TotalProperty
    <3> QED
      BY <1>1, <1>3, <2>1, <3>1 DEF SyncInv, SyncWrite
  <2>2. CASE r # p
    BY <1>1, <1>3, <2>2 DEF SyncInv
  <2> QED
    BY <2>1, <2>2
<1> QED
  BY <1>1, <1>2, <1>3 DEF SyncInv

\* A read adds at most the bytes that have arrived, and the call ends when at
\* least xfer_size of them have been read.
LEMMA ReadKeeps ==
    ASSUME TypeOK, SyncInv, NEW p \in Node, SyncRead(p)
    PROVE  SyncInv'
<1> DEFINE s == pc[p]
<1>1. PICK k \in 1 .. SyncSize(s) : k <= Avail(p) /\ Take(p, k)
  BY DEF SyncRead
<1>2. /\ k \in Nat /\ SyncSize(s) \in Nat /\ s \in SyncStage /\ s \in Running /\ wrote[p]
      /\ Phase(s) \in 0 .. 3 /\ Total(Phase(s)) \in Nat
  BY ConSizeAssumption, TotalProperty DEF SyncSize, SyncRead
<1>3. /\ rcvd' = [rcvd EXCEPT ![p] = rcvd[p] + k]
      /\ UNCHANGED sent
  BY <1>1 DEF Take, SyncRead
<1>4. ASSUME NEW r \in Node
      PROVE  rcvd'[r] <= sent[Peer(r)]
  <2>1. rcvd[r] <= sent[Peer(r)] /\ Peer(r) \in Node
    BY PeerProperty DEF SyncInv
  <2>2. rcvd[r] \in Nat /\ sent[Peer(r)] \in Nat
    BY <2>1 DEF TypeOK
  <2>3. CASE r = p
    BY <1>1, <1>2, <1>3, <2>2, <2>3 DEF Avail, TypeOK
  <2>4. CASE r # p
    BY <1>3, <2>1, <2>4 DEF TypeOK
  <2> QED
    BY <2>3, <2>4
<1>5. ASSUME NEW r \in Node \ {p}
      PROVE  /\ pc'[r] = pc[r] /\ wrote'[r] = wrote[r]
             /\ nread'[r] = nread[r] /\ rcvd'[r] = rcvd[r]
  BY <1>1 DEF Take, Goto, TypeOK
<1>6. rcvd[p] >= Total(Phase(s)) + nread[p] /\ sent[p] = Total(Phase(s)) + SyncSize(s)
  BY <1>2 DEF SyncInv
<1>7. /\ rcvd[p] \in Nat /\ nread[p] \in Nat
      /\ rcvd'[p] = rcvd[p] + k
  BY <1>3 DEF TypeOK
<1>8. /\ pc'[p] \in Running
      /\ rcvd'[p] >= Total(Phase(pc'[p])) + nread'[p]
      /\ sent[p] = Total(Phase(pc'[p])) + (IF wrote'[p] THEN SyncSize(pc'[p]) ELSE 0)
      /\ wrote'[p] => pc'[p] \in SyncStage
      /\ ~wrote'[p] => nread'[p] = 0
  <2>1. CASE nread[p] + k >= SyncSize(s)
    <3>1. pc'[p] = AfterSync(p, s) /\ nread'[p] = 0 /\ wrote'[p] = FALSE
      <4>1. ~ (nread[p] + k < SyncSize(s))
        BY <1>2, <1>7, <2>1
      <4>2. /\ nread' = [nread EXCEPT ![p] = 0] /\ wrote' = [wrote EXCEPT ![p] = FALSE]
            /\ Goto(p, AfterSync(p, s))
        BY <1>1, <4>1 DEF Take
      <4> QED
        BY <4>2 DEF Goto, TypeOK
    <3>2. pc'[p] \in Running /\ Total(Phase(pc'[p])) = Total(Phase(s)) + SyncSize(s)
      BY <1>2, <3>1, TotalProperty
    <3> QED
      BY <1>2, <1>6, <1>7, <2>1, <3>1, <3>2
  <2>2. CASE nread[p] + k < SyncSize(s)
    <3>1. pc'[p] = s /\ nread'[p] = nread[p] + k /\ wrote'[p] = wrote[p]
      <4>1. ~ (nread[p] + k >= SyncSize(s))
        BY <1>2, <1>7, <2>2
      <4>2. nread' = [nread EXCEPT ![p] = nread[p] + k] /\ UNCHANGED <<pc, wrote>>
        BY <1>1, <4>1 DEF Take
      <4> QED
        BY <4>2 DEF TypeOK
    <3> QED
      BY <1>2, <1>6, <1>7, <3>1
  <2> QED
    BY <1>2, <1>7, <2>1, <2>2
<1>9. ASSUME NEW r \in Node, pc'[r] \in Running
      PROVE  /\ rcvd'[r] >= Total(Phase(pc'[r])) + nread'[r]
             /\ sent[r] = Total(Phase(pc'[r])) + (IF wrote'[r] THEN SyncSize(pc'[r]) ELSE 0)
             /\ wrote'[r] => pc'[r] \in SyncStage
             /\ ~wrote'[r] => nread'[r] = 0
  <2>1. CASE r = p
    BY <1>8, <2>1
  <2>2. CASE r # p
    BY <1>5, <1>9, <2>2 DEF SyncInv
  <2> QED
    BY <2>1, <2>2
<1> QED
  BY <1>3, <1>4, <1>9 DEF SyncInv

\* Every step of the code both sides run is local, but for the reads and writes
\* of sock_sync_data.
LEMMA BothIsLocal ==
    ASSUME TypeOK, NEW p \in Node, Both(p) \/ PollError(p)
    PROVE  Local(p) \/ SyncWrite(p) \/ SyncRead(p)
<1> USE DEF Local, TypeOK, Goto, Fail, Running, Ended, Stage0, Stage1, Stage2, Stage3, Stage4
<1>1. CASE Create(p)
  BY <1>1 DEF Create, tcp, SyncStage, Phase
<1>2. CASE CreateFail(p)
  BY <1>2 DEF CreateFail
<1>3. CASE SyncWriteFail(p) \/ SyncReset(p)
  BY <1>3 DEF SyncWriteFail, SyncReset, tcp
<1>4. CASE SyncWriteKilled(p)
  BY <1>4 DEF SyncWriteKilled
<1>5. CASE ModifyToInit(p)
  BY <1>5 DEF ModifyToInit, Modify, tcp, SyncStage, Phase
<1>6. CASE ModifyToRtr(p)
  BY <1>6 DEF ModifyToRtr, Modify, tcp, SyncStage, Phase
<1>7. CASE ModifyToRts(p)
  BY <1>7 DEF ModifyToRts, Modify, tcp, SyncStage, Phase
<1>8. CASE PollFound(p)
  <2>1. /\ UNCHANGED <<sent, rcvd, wrote, nread>>
        /\ pc' = [pc EXCEPT ![p] = AfterPoll(p, pc[p])] \/ pc' = [pc EXCEPT ![p] = "destroy"]
    BY <1>8 DEF PollFound, tcp
  <2>2. /\ pc[p] \in Running \ SyncStage /\ AfterPoll(p, pc[p]) \in Running
        /\ Phase(AfterPoll(p, pc[p])) = Phase(pc[p])
    BY <1>8 DEF PollFound, PollStage, AfterPoll, SyncStage, Phase
  <2> QED
    BY <2>1, <2>2
<1>9. CASE PollTimeout(p) \/ PollError(p)
  BY <1>9 DEF PollTimeout, PollError, tcp
<1>10. CASE Finish(p) \/ Destroy(p)
  BY <1>10 DEF Finish, Destroy, tcp
<1>11. CASE Close(p)
  BY <1>11 DEF Close
<1> QED
  BY <1>1, <1>2, <1>3, <1>4, <1>5, <1>6, <1>7, <1>8, <1>9, <1>10, <1>11
  DEF Both, ConnectQp, Sync

\* The steps only the client takes are local.
LEMMA ClientIsLocal ==
    ASSUME TypeOK, ClientStep
    PROVE  Local(Client) \/ Both(Client)
<1> USE DEF Local, TypeOK, Goto, Fail, Running, Ended, Stage0, Stage1, Stage2, Stage3, Stage4
<1>1. CASE Connect \/ ConnectRefused
  BY <1>1 DEF Connect, ConnectRefused, Refused, NoSocket, tcp, Node, SyncStage, Phase
<1>2. CASE PostReceive
  BY <1>2 DEF PostReceive, tcp, Node, SyncStage, Phase
<1>3. CASE ShowMessage \/ ShowAndReplace
  BY <1>3 DEF ShowMessage, ShowAndReplace, tcp, Node, SyncStage, Phase
<1>4. CASE ReadPeer \/ WritePeer
  BY <1>4 DEF ReadPeer, WritePeer, PostSend, tcp, Node, SyncStage, Phase
<1> QED
  BY <1>1, <1>2, <1>3, <1>4 DEF ClientStep

\* The steps only the server takes are local.
LEMMA ServerIsLocal ==
    ASSUME TypeOK, ServerStep
    PROVE  Local(Server) \/ Both(Server)
<1> USE DEF Local, TypeOK, Goto, Fail, Running, Ended, Stage0, Stage1, Stage2, Stage3, Stage4
<1>1. CASE Bind \/ Accept
  BY <1>1 DEF Bind, Accept, Refused, NoSocket, tcp, Node, SyncStage, Phase
<1>2. CASE SendMsg
  BY <1>2 DEF SendMsg, PostSend, tcp, Node, SyncStage, Phase
<1>3. CASE Refill
  BY <1>3 DEF Refill, tcp, Node, SyncStage, Phase
<1> QED
  BY <1>1, <1>2, <1>3 DEF ServerStep

\* Every step keeps the byte counts in order.
LEMMA NextSync == TypeOK /\ SyncInv /\ [Next]_vars => SyncInv'
<1> SUFFICES ASSUME TypeOK, SyncInv, [Next]_vars PROVE SyncInv'
  OBVIOUS
<1>1. ASSUME NEW p \in Node, Both(p) \/ PollError(p) \/ Local(p) PROVE SyncInv'
  BY <1>1, BothIsLocal, LocalKeeps, WriteKeeps, ReadKeeps
<1>2. CASE ClientStep
  BY <1>1, <1>2, ClientIsLocal DEF Node
<1>3. CASE ServerStep
  BY <1>1, <1>3, ServerIsLocal DEF Node
<1>4. ASSUME NEW p \in Node, Hca(p) PROVE SyncInv'
  BY <1>4 DEF Hca, DeliverSend, DeliverRdma, Complete, RequestFails, tcp, SyncInv
<1>5. CASE UNCHANGED vars
  BY <1>5 DEF vars, SyncInv
<1> QED
  BY <1>1, <1>2, <1>3, <1>4, <1>5 DEF Next, SyncEof, Terminated

\* The byte counts imply that nobody runs ahead of the barrier.
LEMMA SyncImpliesBarrier == TypeOK /\ SyncInv => Barrier
<1> SUFFICES ASSUME TypeOK, SyncInv, NEW p \in Node,
                    pc[p] \in Running, pc[Peer(p)] \in Running
             PROVE  Phase(pc[p]) <= Phase(pc[Peer(p)]) + (IF wrote[Peer(p)] THEN 1 ELSE 0)
  BY DEF Barrier
<1> DEFINE q == Peer(p)
           i == Phase(pc[p])
           j == Phase(pc[q])
<1>1. q \in Node
  BY PeerProperty
<1>2. i \in 0 .. 4 /\ j \in 0 .. 4 /\ Total(i) \in Nat /\ Total(j) \in Nat
  BY <1>1, TotalProperty DEF TypeOK
<1>3. rcvd[p] \in Nat /\ sent[q] \in Nat /\ nread[p] \in Nat
  BY <1>1 DEF TypeOK
<1>4. rcvd[p] >= Total(i) + nread[p] /\ rcvd[p] <= sent[q]
  BY DEF SyncInv
<1>5. Total(i) <= sent[q]
  BY <1>2, <1>3, <1>4
<1>6. CASE wrote[q]
  <2>1. pc[q] \in SyncStage /\ sent[q] = Total(j) + SyncSize(pc[q])
    BY <1>1, <1>6 DEF SyncInv
  <2>2. sent[q] = Total(j + 1) /\ j + 1 \in 0 .. 4
    BY <2>1, TotalProperty
  <2>3. i <= j + 1
    BY <1>2, <1>5, <2>2, TotalProperty
  <2> QED
    BY <1>6, <2>3
<1>7. CASE ~wrote[q]
  <2>1. sent[q] = Total(j)
    BY <1>1, <1>2, <1>7 DEF SyncInv
  <2>2. i <= j
    BY <1>2, <1>5, <2>1, TotalProperty
  <2> QED
    BY <1>2, <1>7, <2>2
<1> QED
  BY <1>6, <1>7

\* The byte counts of SyncInv hold in every reachable state.
THEOREM SyncOrder == Spec => []SyncInv
<1>1. Init => SyncInv
  BY PeerProperty DEF Init, SyncInv, Total, Phase, Stage0
<1>2. TypeOK /\ SyncInv /\ [Next]_vars => SyncInv'
  BY NextSync
<1> QED
  BY <1>1, <1>2, TypeCorrect, PTL DEF Spec

\* No process passes a sock_sync_data call its peer has not entered, whatever
\* fails, and also when reads are short.
THEOREM BarrierHolds == Spec => []Barrier
<1>1. TypeOK /\ SyncInv => Barrier
  BY SyncImpliesBarrier
<1> QED
  BY <1>1, TypeCorrect, SyncOrder, PTL
-----------------------------------------------------------------------------
(* The receive request is there before the message                         *)

\* Every step keeps ReceiverInv, if post_receive reports its failures as -1.
LEMMA NextReceiver ==
    ASSUME VerbErrs = {-1}, TypeOK, ReceiverInv, [Next]_vars
    PROVE  ReceiverInv'
<1>1. Peer(Client) = Server /\ Peer(Server) = Client /\ Client # Server
  BY NodeAssumption DEF Peer
<1> USE <1>1 DEF ReceiverInv, ReceiverReady, Responds, Early, TypeOK, Node, Goto, Fail,
                 Stage0, Stage1
<1>2. ASSUME NEW p \in Node, Sync(p) PROVE ReceiverInv'
  <2>1. CASE SyncWrite(p) \/ SyncWriteFail(p) \/ SyncReset(p)
    BY <2>1 DEF SyncWrite, SyncWriteFail, SyncReset, tcp, hca
  <2>2. CASE SyncWriteKilled(p)
    BY <2>2 DEF SyncWriteKilled
  <2>3. CASE SyncRead(p)
    <3>1. UNCHANGED <<qp, rq, wr, applied>>
      BY <2>3 DEF SyncRead, hca
    <3>2. CASE UNCHANGED pc
      BY <3>1, <3>2
    <3>3. CASE Goto(p, AfterSync(p, pc[p]))
      BY <2>3, <3>1, <3>3 DEF SyncRead, SyncStage, AfterSync
    <3> QED
      BY <2>3, <3>2, <3>3 DEF SyncRead, Take
  <2> QED
    BY <1>2, <2>1, <2>2, <2>3 DEF Sync
<1>3. ASSUME NEW p \in Node, ModifyToInit(p) \/ ModifyToRtr(p) \/ ModifyToRts(p)
      PROVE  ReceiverInv'
  <2>1. CASE ModifyToInit(p)
    BY <2>1 DEF ModifyToInit, Modify
  <2>2. CASE ModifyToRtr(p)
    BY <2>2 DEF ModifyToRtr, Modify
  <2>3. CASE ModifyToRts(p)
    BY <2>3 DEF ModifyToRts, Modify
  <2> QED
    BY <1>3, <2>1, <2>2, <2>3
<1>4. ASSUME NEW p \in Node, Both(p) \/ PollError(p) PROVE ReceiverInv'
  <2>1. CASE Create(p)
    BY <2>1 DEF Create
  <2>2. CASE CreateFail(p)
    BY <2>2 DEF CreateFail, hca
  <2>3. CASE PollFound(p)
    BY <2>3 DEF PollFound, PollStage, AfterPoll
  <2>4. CASE PollTimeout(p) \/ PollError(p)
    BY <2>4 DEF PollTimeout, PollError, hca
  <2>5. CASE Finish(p) \/ Close(p)
    BY <2>5 DEF Finish, Close, hca
  <2>6. CASE Destroy(p)
    BY <2>6 DEF Destroy
  <2> QED
    BY <1>2, <1>3, <1>4, <2>1, <2>2, <2>3, <2>4, <2>5, <2>6 DEF Both, ConnectQp
<1>5. CASE ClientStep
  <2>1. CASE Connect \/ ConnectRefused
    BY <2>1 DEF Connect, ConnectRefused, Refused, NoSocket, hca
  <2>2. CASE PostReceive
    BY <2>2 DEF PostReceive
  <2>3. CASE ShowMessage \/ ShowAndReplace
    BY <2>3 DEF ShowMessage, ShowAndReplace, hca
  <2>4. CASE ReadPeer \/ WritePeer
    BY <2>4 DEF ReadPeer, WritePeer, PostSend
  <2> QED
    BY <1>4, <1>5, <2>1, <2>2, <2>3, <2>4 DEF ClientStep
<1>6. CASE ServerStep
  <2>1. CASE Bind \/ Accept
    BY <2>1 DEF Bind, Accept, Refused, NoSocket, hca
  <2>2. CASE SendMsg
    BY <2>2 DEF SendMsg, PostSend
  <2>3. CASE Refill
    BY <2>3 DEF Refill, hca
  <2> QED
    BY <1>4, <1>6, <2>1, <2>2, <2>3 DEF ServerStep
<1>7. ASSUME NEW p \in Node, Hca(p) PROVE ReceiverInv'
  <2>1. CASE DeliverSend(p)
    BY <2>1 DEF DeliverSend
  <2>2. CASE DeliverRdma(p)
    BY <2>2 DEF DeliverRdma
  <2>3. CASE Complete(p)
    BY <2>3 DEF Complete, Retire
  <2>4. CASE RequestFails(p)
    <3>1. /\ wr' = [wr EXCEPT ![p] = "none"] /\ applied' = [applied EXCEPT ![p] = FALSE]
          /\ qp' = [qp EXCEPT ![p] = "ERR"] /\ UNCHANGED <<pc, rq>>
          /\ wr[p] # "none"
      BY <2>4 DEF RequestFails, Retire
    <3>2. CASE p = Client
      BY <3>1, <3>2
    <3>3. CASE p = Server
      BY <3>1, <3>3
    <3> QED
      BY <3>2, <3>3
  <2> QED
    BY <1>7, <2>1, <2>2, <2>3, <2>4 DEF Hca
<1>8. CASE UNCHANGED vars
  BY <1>8 DEF vars
<1> QED
  BY <1>4, <1>5, <1>6, <1>7, <1>8 DEF Next, SyncEof, Terminated

\* "there is a Receive Request in the responder side" (ibv-rc.c:464) is true of
\* every run in which a failing verb returns -1, whatever else fails.
THEOREM NoRnrFlow ==
    ASSUME VerbErrs = {-1}
    PROVE  Spec => []ReceiverReady
<1>1. Init => ReceiverInv
  BY NodeAssumption DEF Init, ReceiverInv, ReceiverReady, Responds, Early, Node, Stage0, Stage1
<1>2. TypeOK /\ ReceiverInv /\ [Next]_vars => ReceiverInv'
  BY NextReceiver
<1>3. ReceiverInv => ReceiverReady
  BY DEF ReceiverInv
<1> QED
  BY <1>1, <1>2, <1>3, TypeCorrect, PTL DEF Spec

-----------------------------------------------------------------------------
(* The calls of sock_sync_data stay aligned                                *)

\* Without short reads a call takes its bytes at once.
AlignInv ==
    \A p \in Node :
        pc[p] \in Running => rcvd[p] = Total(Phase(pc[p])) /\ nread[p] = 0

\* Local steps and writes read nothing.
LEMMA LocalAligned ==
    ASSUME TypeOK, AlignInv, NEW p \in Node, Local(p) \/ SyncWrite(p)
    PROVE  AlignInv'
<1>1. CASE SyncWrite(p)
  BY <1>1 DEF SyncWrite, AlignInv
<1>2. CASE Local(p)
  <2>1. SUFFICES ASSUME NEW r \in Node, pc'[r] \in Running
                 PROVE  rcvd[r] = Total(Phase(pc'[r])) /\ nread[r] = 0
    BY <1>2 DEF AlignInv, Local
  <2>2. CASE r = p
    BY <1>2, <2>1, <2>2, Disjoint DEF Local, AlignInv
  <2>3. CASE r # p
    BY <1>2, <2>1, <2>3 DEF Local, AlignInv
  <2> QED
    BY <2>2, <2>3
<1> QED
  BY <1>1, <1>2

\* A read that is not short completes the call.
LEMMA ReadAligned ==
    ASSUME "short_read" \notin Faults, TypeOK, AlignInv, NEW p \in Node, SyncRead(p)
    PROVE  AlignInv'
<1> DEFINE s == pc[p]
<1>1. s \in SyncStage /\ Take(p, SyncSize(s))
  BY DEF SyncRead
<1>2. /\ s \in Running /\ Total(Phase(s)) \in Nat /\ SyncSize(s) \in Nat
      /\ Total(Phase(AfterSync(p, s))) = Total(Phase(s)) + SyncSize(s)
  BY <1>1, ConSizeAssumption, TotalProperty DEF SyncSize
<1>3. nread[p] = 0 /\ rcvd[p] = Total(Phase(s))
  BY <1>2 DEF AlignInv
<1>4. ~ (nread[p] + SyncSize(s) < SyncSize(s))
  BY <1>2, <1>3
<1>5. /\ rcvd' = [rcvd EXCEPT ![p] = rcvd[p] + SyncSize(s)]
      /\ nread' = [nread EXCEPT ![p] = 0]
      /\ pc' = [pc EXCEPT ![p] = AfterSync(p, s)]
  BY <1>1, <1>4 DEF Take, Goto
<1> QED
  BY <1>2, <1>3, <1>5 DEF AlignInv, TypeOK

\* Without short reads the calls stay aligned whatever else fails.
LEMMA AlignOrder ==
    ASSUME "short_read" \notin Faults
    PROVE  Spec => []AlignInv
<1>1. Init => AlignInv
  BY DEF Init, AlignInv, Total, Phase, Stage0
<1>2. ASSUME TypeOK, AlignInv, [Next]_vars PROVE AlignInv'
  <2>1. ASSUME NEW p \in Node, Both(p) \/ PollError(p) \/ Local(p) PROVE AlignInv'
    BY <1>2, <2>1, BothIsLocal, LocalAligned, ReadAligned
  <2>2. CASE ClientStep
    BY <1>2, <2>1, <2>2, ClientIsLocal DEF Node
  <2>3. CASE ServerStep
    BY <1>2, <2>1, <2>3, ServerIsLocal DEF Node
  <2>4. ASSUME NEW p \in Node, Hca(p) PROVE AlignInv'
    BY <1>2, <2>4 DEF Hca, DeliverSend, DeliverRdma, Complete, RequestFails, tcp, AlignInv
  <2>5. CASE UNCHANGED vars
    BY <1>2, <2>5 DEF vars, AlignInv
  <2> QED
    BY <1>2, <2>1, <2>2, <2>3, <2>4, <2>5 DEF Next, SyncEof, Terminated
<1> QED
  BY <1>1, <1>2, TypeCorrect, PTL DEF Spec

\* Without short reads every call of sock_sync_data takes exactly the bytes of
\* the peer's matching call, whatever else fails.
THEOREM Alignment ==
    ASSUME "short_read" \notin Faults
    PROVE  Spec => []SyncAligned
<1>1. TypeOK /\ AlignInv => SyncAligned
  <2>1. SUFFICES ASSUME TypeOK, AlignInv, NEW p \in Node, pc[p] \in Running
                 PROVE  rcvd[p] = Total(Phase(pc[p])) + nread[p]
    BY DEF SyncAligned
  <2>2. Total(Phase(pc[p])) \in Nat
    BY <2>1, TotalProperty
  <2> QED
    BY <2>1, <2>2 DEF AlignInv
<1> QED
  BY <1>1, AlignOrder, TypeCorrect, PTL

-----------------------------------------------------------------------------
(* The queues                                                              *)

\* Nothing posted, nothing to be polled.
Idle(p) == cq[p] = <<>> /\ wr[p] = "none" /\ rq[p] = 0

\* The stages at which something may be posted or be completed.
Waiting(p) == PollStage \cup {"destroy"} \cup (IF p = Client THEN {"rtr", "rts", "Q"} ELSE {})

\* At most one of a request, a receive and a completion is there, and it is the one
\* the next poll_completion waits for.
Queue(p) ==
    /\ cq[p] # <<>> => Len(cq[p]) = 1 /\ wr[p] = "none" /\ rq[p] = 0
    /\ wr[p] # "none" => rq[p] = 0
    /\ pc[p] \notin Waiting(p) => Idle(p)
    /\ pc[p] \in {"poll2", "poll3"} \/ p = Server => rq[p] = 0
    /\ wr[p] \in (IF p = Server THEN {"none", "SEND"} ELSE {"none", "READ", "WRITE"})
    /\ pc[p] \in {"rtr", "rts", "Q"} =>
          wr[p] = "none" /\ (cq[p] # <<>> => Head(cq[p]).op = "RECV")
    /\ pc[p] \in PollStage =>
          /\ wr[p] # "none" => wr[p] = Expected(p, pc[p])
          /\ cq[p] # <<>> => Head(cq[p]).op = Expected(p, pc[p])

QueueInv == \A p \in Node : Queue(p)

\* Queues of one entry.
LEMMA OneEntry ==
    /\ \A x \in Wc : Append(<<>>, x) # <<>> /\ Len(Append(<<>>, x)) = 1 /\ Head(Append(<<>>, x)) = x
    /\ \A s \in Seq(Wc) : Len(s) = 1 => Tail(s) = <<>>
<1>1. ASSUME NEW x \in Wc
      PROVE  Append(<<>>, x) # <<>> /\ Len(Append(<<>>, x)) = 1 /\ Head(Append(<<>>, x)) = x
  <2>1. Append(<<>>, x) = <<x>>
    OBVIOUS
  <2> QED BY <2>1
<1>2. ASSUME NEW s \in Seq(Wc), Len(s) = 1 PROVE Tail(s) = <<>>
  <2>1. s # <<>> /\ Tail(s) \in Seq(Wc) /\ Len(Tail(s)) = 0
    BY <1>2
  <2> QED BY <2>1, EmptySeq
<1> QED BY <1>1, <1>2

\* A process whose stage and queues stay.
LEMMA QueueKept ==
    ASSUME NEW p \in Node, Queue(p), pc'[p] = pc[p], UNCHANGED <<cq[p], wr[p], rq[p]>>
    PROVE  Queue(p)'
BY DEF Queue, Idle, Waiting

\* The stage changes, but nothing was posted and nothing is.
LEMMA QueueIdle ==
    ASSUME NEW p \in Node, Idle(p)'
    PROVE  Queue(p)'
BY DEF Queue, Idle

\* To main_exit.
LEMMA QueueFails ==
    ASSUME NEW p \in Node, Queue(p), pc'[p] = "destroy", UNCHANGED <<cq[p], wr[p], rq[p]>>
    PROVE  Queue(p)'
BY DEF Queue, Idle, Waiting, PollStage
\* The steps of the code both sides run.
LEMMA BothQueue ==
    ASSUME TypeOK, QueueInv, NEW p \in Node, Both(p) \/ PollError(p)
    PROVE  QueueInv'
<1>1. Queue(p)
  BY DEF QueueInv
<1>2. \A r \in Node \ {p} : pc'[r] = pc[r] /\ UNCHANGED <<cq[r], wr[r], rq[r]>>
  BY DEF Both, ConnectQp, Create, CreateFail, Sync, SyncWrite, SyncWriteFail, SyncWriteKilled, SyncRead, Take,
         SyncReset, ModifyToInit, ModifyToRtr, ModifyToRts, Modify, PollFound, PollTimeout, PollError,
         Finish, Destroy, Close, Goto, Fail, TypeOK, hca
<1>3. Queue(p)'
  <2> USE <1>1 DEF Goto, Fail, TypeOK
  <2>1. CASE Create(p) \/ Close(p)
    BY <2>1, QueueIdle DEF Create, Close, hca, Queue, Idle, Waiting, PollStage
  <2>2. CASE CreateFail(p) \/ SyncWriteFail(p) \/ SyncReset(p) \/ PollTimeout(p) \/ PollError(p)
    BY <2>2, QueueFails DEF CreateFail, SyncWriteFail, SyncReset, PollTimeout, PollError, hca
  <2>3. CASE Finish(p)
    BY <2>3, QueueFails DEF Finish, hca
  <2>4. CASE SyncWrite(p)
    BY <2>4, QueueKept DEF SyncWrite, hca
  <2>5. CASE SyncWriteKilled(p) \/ Destroy(p)
    BY <2>5, QueueIdle DEF SyncWriteKilled, Destroy, Idle
  <2>6. CASE SyncRead(p)
    <3>1. UNCHANGED <<cq, wr, rq>>
      BY <2>6 DEF SyncRead, hca
    <3>2. CASE UNCHANGED pc
      BY <3>1, <3>2, QueueKept
    <3>3. CASE Goto(p, AfterSync(p, pc[p]))
      <4>1. CASE pc[p] = "Q" /\ p = Client
        <5>1. pc'[p] = "poll1"
          BY <3>3, <4>1, NodeAssumption DEF AfterSync
        <5> QED BY <3>1, <4>1, <5>1, NodeAssumption DEF Queue, Waiting, PollStage, Expected
      <4>2. CASE ~(pc[p] = "Q" /\ p = Client)
        BY <2>6, <3>1, <4>2, QueueIdle DEF SyncRead, SyncStage, Queue, Idle, Waiting, PollStage, Node
      <4> QED BY <4>1, <4>2
    <3> QED BY <2>6, <3>2, <3>3 DEF SyncRead, Take
  <2>7. CASE ModifyToInit(p)
    BY <2>7, QueueIdle, QueueFails DEF ModifyToInit, Modify, Queue, Idle, Waiting, PollStage
  <2>8. CASE ModifyToRtr(p)
    BY <2>8, QueueFails DEF ModifyToRtr, Modify, Queue, Idle, Waiting, PollStage
  <2>9. CASE ModifyToRts(p)
    BY <2>9, QueueFails DEF ModifyToRts, Modify, Queue, Idle, Waiting, PollStage
  <2>10. CASE PollFound(p)
    <3>1. cq[p] \in Seq(Wc) /\ cq[p] # <<>> /\ Len(cq[p]) = 1
      BY <2>10 DEF PollFound, Queue
    <3>2. Tail(cq[p]) = <<>>
      BY <3>1, OneEntry
    <3>3. cq'[p] = <<>> /\ wr'[p] = "none" /\ rq'[p] = 0
      BY <2>10, <3>1, <3>2 DEF PollFound, Queue
    <3> QED BY <3>3, QueueIdle DEF Idle
  <2> QED BY <2>1, <2>2, <2>3, <2>4, <2>5, <2>6, <2>7, <2>8, <2>9, <2>10 DEF Both, ConnectQp, Sync
<1> QED BY <1>2, <1>3, QueueKept DEF QueueInv

\* Posting the request of the next poll_completion.
LEMMA PostQueue ==
    ASSUME TypeOK, QueueInv, NEW p \in Node, NEW at, at \notin Waiting(p), NEW op \in Opcode,
           NEW next \in PollStage, PostSend(p, at, op, next), op = Expected(p, next),
           op = (IF p = Server THEN "SEND" ELSE op), p = Client => op # "SEND"
    PROVE  QueueInv'
<1>1. Queue(p) /\ Idle(p)
  BY DEF QueueInv, Queue, PostSend
<1>2. \A r \in Node \ {p} : pc'[r] = pc[r] /\ UNCHANGED <<cq[r], wr[r], rq[r]>>
  BY DEF PostSend, Goto, Fail, TypeOK
<1>3. Queue(p)'
  <2>1. CASE wr' = [wr EXCEPT ![p] = op] /\ Goto(p, next)
    BY <1>1, <2>1, NodeAssumption DEF PostSend, Queue, Idle, Waiting, Goto, TypeOK, PollStage, Opcode, Node
  <2>2. CASE Fail(p) /\ UNCHANGED wr
    BY <1>1, <2>2, QueueFails DEF PostSend, Goto, Fail, TypeOK
  <2> QED BY <2>1, <2>2 DEF PostSend
<1> QED BY <1>2, <1>3, QueueKept DEF QueueInv

\* The steps of one side only.
LEMMA OneSideQueue ==
    ASSUME TypeOK, QueueInv,
           \/ Bind \/ Connect \/ ConnectRefused \/ Accept \/ PostReceive \/ SendMsg
           \/ ReadPeer \/ WritePeer \/ ShowMessage \/ Refill \/ ShowAndReplace
    PROVE  QueueInv'
<1> USE NodeAssumption DEF Goto, Fail, TypeOK, Node
<1>0. Queue(Client) /\ Queue(Server)
  BY DEF QueueInv
<1>1. CASE Bind \/ Accept \/ Refill
  <2>1. pc'[Client] = pc[Client] /\ UNCHANGED <<cq, wr, rq>>
    BY <1>1 DEF Bind, Accept, Refused, NoSocket, Refill, hca
  <2>2. pc[Server] \notin Waiting(Server)
    BY <1>1 DEF Bind, Accept, Refused, NoSocket, Refill, Waiting, PollStage
  <2> QED BY <1>0, <2>1, <2>2, QueueKept, QueueIdle DEF QueueInv, Queue, Idle
<1>2. CASE Connect \/ ConnectRefused \/ ShowMessage \/ ShowAndReplace
  <2>1. pc'[Server] = pc[Server] /\ UNCHANGED <<cq, wr, rq>>
    BY <1>2 DEF Connect, ConnectRefused, Refused, NoSocket, ShowMessage, ShowAndReplace, hca
  <2>2. pc[Client] \notin Waiting(Client)
    BY <1>2 DEF Connect, ConnectRefused, Refused, NoSocket, ShowMessage, ShowAndReplace, Waiting, PollStage
  <2> QED BY <1>0, <2>1, <2>2, QueueKept, QueueIdle DEF QueueInv, Queue, Idle
<1>3. CASE PostReceive
  <2>1. pc'[Server] = pc[Server] /\ UNCHANGED <<cq, wr, rq[Server]>>
    BY <1>3 DEF PostReceive
  <2>2. Idle(Client)
    BY <1>0, <1>3 DEF PostReceive, Queue, Waiting, PollStage
  <2>3. pc'[Client] \in {"rtr", "destroy"} /\ rq'[Client] \in {0, 1}
    BY <1>3 DEF PostReceive
  <2>4. Queue(Client)'
    BY <2>1, <2>2, <2>3 DEF Queue, Idle, Waiting, PollStage
  <2> QED BY <1>0, <2>1, <2>4, QueueKept DEF QueueInv
<1>4. CASE SendMsg
  BY <1>4, PostQueue DEF SendMsg, Waiting, PollStage, Opcode, Expected
<1>5. CASE ReadPeer
  BY <1>5, PostQueue DEF ReadPeer, Waiting, PollStage, Opcode, Expected
<1>6. CASE WritePeer
  BY <1>6, PostQueue DEF WritePeer, Waiting, PollStage, Opcode, Expected
<1> QED BY <1>1, <1>2, <1>3, <1>4, <1>5, <1>6

\* The steps of the adapters.
LEMMA HcaQueue ==
    ASSUME TypeOK, QueueInv, NEW p \in Node, Hca(p)
    PROVE  QueueInv'
<1>0. Queue(p) /\ pc' = pc
  BY DEF QueueInv, Hca, DeliverSend, DeliverRdma, Complete, RequestFails
<1>1. CASE DeliverSend(p)
  <2> DEFINE q == Peer(p)
             w == [op |-> "RECV", ok |-> TRUE]
  <2>1. q \in Node /\ q # p /\ w \in Wc /\ rq[q] = 1
    BY <1>1, PeerProperty DEF DeliverSend, Wc
  <2>2. Queue(q) /\ q = Client
    BY <2>1 DEF QueueInv, Queue, Node
  <2>3. cq[q] = <<>> /\ wr[q] = "none" /\ pc[q] \in Waiting(q) /\ pc[q] \notin {"poll2", "poll3"}
    BY <2>1, <2>2 DEF Queue, Idle
  <2>4. cq'[q] = Append(<<>>, w) /\ rq'[q] = 0 /\ wr' = wr
    BY <1>1, <2>1, <2>3 DEF DeliverSend, TypeOK
  <2>5. cq'[q] # <<>> /\ Len(cq'[q]) = 1 /\ Head(cq'[q]).op = "RECV"
    BY <2>1, <2>4, OneEntry
  <2>6. Queue(q)'
    BY <1>0, <2>2, <2>3, <2>4, <2>5, NodeAssumption DEF Queue, Waiting, PollStage, Expected
  <2>7. \A r \in Node \ {q} : UNCHANGED <<cq[r], wr[r], rq[r]>>
    BY <1>1, <2>1 DEF DeliverSend, TypeOK
  <2> QED BY <1>0, <2>6, <2>7, QueueKept DEF QueueInv
<1>2. CASE DeliverRdma(p)
  BY <1>0, <1>2, QueueKept DEF QueueInv, DeliverRdma
<1>3. ASSUME NEW ok \in BOOLEAN, Retire(p, ok), wr[p] # "none", rq' = rq
      PROVE  QueueInv'
  <2> DEFINE w == [op |-> wr[p], ok |-> ok]
  <2>1. w \in Wc
    BY <1>3 DEF Wc, TypeOK
  <2>2. cq[p] = <<>> /\ rq[p] = 0
    BY <1>0, <1>3 DEF Queue
  <2>3. cq'[p] = Append(<<>>, w) /\ wr'[p] = "none" /\ rq'[p] = 0
    BY <1>3, <2>2 DEF Retire, TypeOK
  <2>4. cq'[p] # <<>> /\ Len(cq'[p]) = 1 /\ Head(cq'[p]).op = wr[p]
    BY <2>1, <2>3, OneEntry
  <2>5. Queue(p)'
    BY <1>0, <1>3, <2>2, <2>3, <2>4 DEF Queue, Idle, Waiting, PollStage, Expected
  <2>6. \A r \in Node \ {p} : UNCHANGED <<cq[r], wr[r], rq[r]>>
    BY <1>3 DEF Retire, TypeOK
  <2> QED BY <1>0, <2>5, <2>6, QueueKept DEF QueueInv
<1>4. CASE Complete(p)
  BY <1>3, <1>4 DEF Complete
<1>5. CASE RequestFails(p)
  BY <1>3, <1>5 DEF RequestFails
<1> QED BY <1>1, <1>2, <1>4, <1>5 DEF Hca

\* Every step leaves the queues as Queue says.
LEMMA QueueStep == TypeOK /\ QueueInv /\ [Next]_vars => QueueInv'
<1> SUFFICES ASSUME TypeOK, QueueInv, [Next]_vars PROVE QueueInv'
  OBVIOUS
<1>1. CASE UNCHANGED vars
  BY <1>1, QueueKept DEF vars, QueueInv
<1>2. CASE ClientStep
  BY <1>2, OneSideQueue, BothQueue DEF ClientStep, Node
<1>3. CASE ServerStep
  BY <1>3, OneSideQueue, BothQueue DEF ServerStep, Node
<1>4. ASSUME NEW p \in Node, Hca(p) \/ PollError(p) PROVE QueueInv'
  BY <1>4, HcaQueue, BothQueue
<1> QED BY <1>1, <1>2, <1>3, <1>4 DEF Next, SyncEof, Terminated

\* The queues are as Queue says in every reachable state.
LEMMA QueueOrder == Spec => []QueueInv
<1>1. Init => QueueInv
  BY NodeAssumption DEF Init, QueueInv, Queue, Idle, Waiting, PollStage, Node
<1>2. TypeOK /\ QueueInv /\ [Next]_vars => QueueInv'
  BY QueueStep
<1> QED BY <1>1, <1>2, TypeCorrect, PTL DEF Spec

\* poll_completion (ibv-rc.c:123-158) never takes the completion of another
\* operation, although both queues share one completion queue.
THEOREM PollsItsOwn == Spec => []PollsOwnCompletion
<1>1. QueueInv => PollsOwnCompletion
  BY DEF QueueInv, Queue, PollsOwnCompletion
<1> QED BY <1>1, QueueOrder, PTL

\* One entry is enough for the completion queue (ibv-rc.c:257).
THEOREM OneIsEnough == Spec => []CqWithinCapacity
<1>1. QueueInv => CqWithinCapacity
  <2> SUFFICES ASSUME QueueInv, NEW p \in Node PROVE Len(cq[p]) <= 1
    BY DEF CqWithinCapacity, CqSize
  <2>1. CASE cq[p] = <<>>
    BY <2>1
  <2>2. CASE cq[p] # <<>>
    <3>1. Len(cq[p]) = 1
      BY <2>2 DEF QueueInv, Queue
    <3> QED BY <3>1
  <2> QED BY <2>1, <2>2
<1> QED BY <1>1, QueueOrder, PTL
-----------------------------------------------------------------------------
(* The buffers are quiet                                                   *)

\* The stages of the client after it has polled for the message.
Later == {"show1", "refill", "R", "read", "poll2", "show2", "write", "poll3", "W", "finish"}

\* The client has its message.
Received ==
    \/ pc[Client] \in {"rtr", "rts", "Q", "poll1"} /\ cq[Client] # <<>>
    \/ pc[Client] \in Later
    \/ wr[Client] # "none"

Unapplied == wr[Server] # "none" /\ ~applied[Server]

\* Stages the server never comes to.
Foreign == {"show1", "read", "poll2", "show2", "write", "poll3"}

\* The server's request is over once the client has its message; the client has a
\* request in flight only between the third and the fourth exchange.
QuietInv ==
    /\ pc[Server] \notin Foreign
    /\ Received => pc[Server] \notin Early /\ ~Unapplied
    /\ wr[Client] # "none" => rcvd[Client] >= Total(3) /\ sent[Client] = Total(3)
    /\ sent[Client] >= Total(4) => rcvd[Client] >= Total(3)

\* What a step does to the bytes.
LEMMA BytesMove ==
    ASSUME TypeOK, [Next]_vars
    PROVE  UNCHANGED <<sent, rcvd>> \/ \E p \in Node : SyncWrite(p) \/ SyncRead(p)
<1>1. ASSUME NEW p \in Node, Both(p) \/ PollError(p) \/ Local(p)
      PROVE  UNCHANGED <<sent, rcvd>> \/ SyncWrite(p) \/ SyncRead(p)
  BY <1>1, BothIsLocal DEF Local
<1>2. CASE ClientStep
  BY <1>1, <1>2, ClientIsLocal DEF Node
<1>3. CASE ServerStep
  BY <1>1, <1>3, ServerIsLocal DEF Node
<1>4. ASSUME NEW p \in Node, Hca(p) PROVE UNCHANGED <<sent, rcvd>>
  BY <1>4 DEF Hca, DeliverSend, DeliverRdma, Complete, RequestFails, tcp
<1>5. CASE UNCHANGED vars
  BY <1>5 DEF vars
<1> QED BY <1>1, <1>2, <1>3, <1>4, <1>5 DEF Next, SyncEof, Terminated

\* What a step does to the requests and the stages.
Moves ==
    /\ wr'[Client] # "none" => wr[Client] # "none" \/ pc[Client] \in {"read", "write"}
    /\ Received' => Received \/ DeliverSend(Server)
    /\ pc'[Server] \in Foreign => pc[Server] \in Foreign
    /\ pc'[Server] \in Early => pc[Server] \in Early
    /\ Unapplied' => Unapplied \/ pc[Server] = "send"

\* A step of the server that is no call of post_send.
LEMMA ServerMoves ==
    ASSUME pc'[Client] = pc[Client], UNCHANGED <<cq[Client], wr[Client]>>,
           pc'[Server] \in Early => pc[Server] \in Early, Unapplied' => Unapplied,
           pc'[Server] \in Foreign => pc[Server] \in Foreign
    PROVE  Moves
BY DEF Moves, Received

\* A step of the client that is no call of post_send.
LEMMA ClientMoves ==
    ASSUME pc'[Server] = pc[Server], UNCHANGED <<wr[Server], applied[Server]>>,
           wr'[Client] # "none" => wr[Client] # "none", Received' => Received
    PROVE  Moves
BY DEF Moves, Unapplied

\* The steps both processes take.
LEMMA BothMoves ==
    ASSUME TypeOK, QueueInv, NEW p \in Node, Both(p) \/ PollError(p)
    PROVE  Moves
<1> USE DEF Goto, Fail, TypeOK
<1>0. Client # Server /\ Client \in Node /\ Server \in Node /\ Queue(Client) /\ Queue(Server)
  BY NodeAssumption DEF Node, QueueInv
<1>1. CASE p = Server
  <2> DEFINE Quiet == /\ pc'[Client] = pc[Client] /\ UNCHANGED <<cq[Client], wr[Client]>>
                      /\ pc'[Server] \in Early => pc[Server] \in Early
                      /\ Unapplied' => Unapplied
                      /\ pc'[Server] \in Foreign => pc[Server] \in Foreign
  <2> USE DEF Unapplied, Early, Stage0, Stage1, Foreign
  <2>1. CASE Create(Server) \/ CreateFail(Server) \/ Finish(Server) \/ Close(Server)
    <3>1. Quiet
      BY <1>0, <2>1 DEF Create, CreateFail, Finish, Close, hca
    <3> QED BY <3>1, ServerMoves
  <2>2. CASE SyncWrite(Server) \/ SyncWriteFail(Server) \/ SyncWriteKilled(Server) \/ SyncReset(Server)
    <3>1. CASE SyncWrite(Server)
      <4>1. Quiet
        BY <1>0, <3>1 DEF SyncWrite, hca
      <4> QED BY <4>1, ServerMoves
    <3>2. CASE SyncWriteFail(Server)
      <4>1. Quiet
        BY <1>0, <3>2 DEF SyncWriteFail, hca
      <4> QED BY <4>1, ServerMoves
    <3>3. CASE SyncWriteKilled(Server)
      <4>1. Quiet
        BY <1>0, <3>3 DEF SyncWriteKilled
      <4> QED BY <4>1, ServerMoves
    <3>4. CASE SyncReset(Server)
      <4>1. Quiet
        BY <1>0, <3>4 DEF SyncReset, hca
      <4> QED BY <4>1, ServerMoves
    <3> QED BY <2>2, <3>1, <3>2, <3>3, <3>4
  <2>3. CASE SyncRead(Server)
    <3>1. UNCHANGED <<cq, wr, applied>> /\ pc[Server] \in SyncStage
      BY <2>3 DEF SyncRead, hca
    <3>2. pc' = pc \/ pc' = [pc EXCEPT ![Server] = AfterSync(Server, pc[Server])]
      BY <2>3 DEF SyncRead, Take
    <3>3. AfterSync(Server, pc[Server]) \notin Foreign
          /\ (AfterSync(Server, pc[Server]) \in Early => pc[Server] \in Early)
      BY <3>1 DEF AfterSync, SyncStage
    <3>4. Quiet
      BY <1>0, <3>1, <3>2, <3>3
    <3> QED BY <3>4, ServerMoves
  <2>4. CASE ModifyToInit(Server)
    <3>1. Quiet
      BY <1>0, <2>4 DEF ModifyToInit, Modify
    <3> QED BY <3>1, ServerMoves
  <2>5. CASE ModifyToRtr(Server)
    <3>1. Quiet
      BY <1>0, <2>5 DEF ModifyToRtr, Modify
    <3> QED BY <3>1, ServerMoves
  <2>6. CASE ModifyToRts(Server)
    <3>1. Quiet
      BY <1>0, <2>6 DEF ModifyToRts, Modify
    <3> QED BY <3>1, ServerMoves
  <2>7. CASE PollFound(Server)
    <3>1. /\ UNCHANGED <<wr, applied>> /\ cq'[Client] = cq[Client] /\ pc[Server] \in PollStage
          /\ pc' = [pc EXCEPT ![Server] = "destroy"]
             \/ pc' = [pc EXCEPT ![Server] = AfterPoll(Server, pc[Server])]
      BY <1>0, <2>7 DEF PollFound
    <3>2. AfterPoll(Server, pc[Server]) \notin Early
          /\ (AfterPoll(Server, pc[Server]) \in Foreign => pc[Server] \in Foreign)
      BY <3>1 DEF AfterPoll, PollStage
    <3>3. Quiet
      BY <1>0, <3>1, <3>2
    <3> QED BY <3>3, ServerMoves
  <2>8. CASE PollTimeout(Server) \/ PollError(Server)
    <3>1. UNCHANGED <<cq, wr, applied>> /\ pc' = [pc EXCEPT ![Server] = "destroy"]
      BY <2>8 DEF PollTimeout, PollError, hca
    <3>2. Quiet
      BY <1>0, <3>1
    <3> QED BY <3>2, ServerMoves
  <2>9. CASE Destroy(Server)
    <3>1. Quiet
      BY <1>0, <2>9 DEF Destroy
    <3> QED BY <3>1, ServerMoves
  <2> QED BY <1>1, <2>1, <2>2, <2>3, <2>4, <2>5, <2>6, <2>7, <2>8, <2>9 DEF Both, ConnectQp, Sync
<1>2. CASE p = Client
  <2> DEFINE Quiet == /\ pc'[Server] = pc[Server] /\ UNCHANGED <<wr[Server], applied[Server]>>
                      /\ wr'[Client] # "none" => wr[Client] # "none"
                      /\ Received' => Received
  <2> USE DEF Received, Later
  <2>1. CASE Create(Client) \/ CreateFail(Client)
    <3>1. Quiet
      BY <1>0, <2>1 DEF Create, CreateFail, hca
    <3> QED BY <3>1, ClientMoves
  <2>2. CASE Finish(Client) \/ Close(Client)
    <3>1. Quiet
      BY <1>0, <2>2 DEF Finish, Close, hca
    <3> QED BY <3>1, ClientMoves
  <2>3. CASE SyncWrite(Client)
    <3>1. Quiet
      BY <1>0, <2>3 DEF SyncWrite, hca
    <3> QED BY <3>1, ClientMoves
  <2>4. CASE SyncWriteFail(Client) \/ SyncReset(Client)
    <3>1. Quiet
      BY <1>0, <2>4 DEF SyncWriteFail, SyncReset, hca
    <3> QED BY <3>1, ClientMoves
  <2>5. CASE SyncWriteKilled(Client)
    <3>1. Quiet
      BY <1>0, <2>5 DEF SyncWriteKilled
    <3> QED BY <3>1, ClientMoves
  <2>6. CASE SyncRead(Client)
    <3>1. UNCHANGED <<cq, wr, applied>> /\ pc[Client] \in SyncStage
      BY <2>6 DEF SyncRead, hca
    <3>2. pc' = pc \/ pc' = [pc EXCEPT ![Client] = AfterSync(Client, pc[Client])]
      BY <2>6 DEF SyncRead, Take
    <3>3. /\ AfterSync(Client, pc[Client]) \in Later => pc[Client] \in Later
          /\ AfterSync(Client, pc[Client]) \in {"rtr", "rts", "Q", "poll1"} => pc[Client] = "Q"
      BY <1>0, <3>1 DEF AfterSync, SyncStage
    <3>4. CASE pc' = pc
      BY <1>0, <3>1, <3>4, ClientMoves
    <3>5. CASE pc' = [pc EXCEPT ![Client] = AfterSync(Client, pc[Client])]
      BY <1>0, <3>1, <3>3, <3>5, ClientMoves
    <3> QED BY <3>2, <3>4, <3>5
  <2>7. CASE ModifyToInit(Client)
    <3>1. /\ UNCHANGED <<cq, wr, applied>>
          /\ pc' = [pc EXCEPT ![Client] = "destroy"] \/ pc' = [pc EXCEPT ![Client] = "recv"]
      BY <2>7 DEF ModifyToInit, Modify
    <3>2. Quiet
      BY <1>0, <3>1
    <3> QED BY <3>2, ClientMoves
  <2>8. CASE ModifyToRtr(Client)
    <3>1. Quiet
      BY <1>0, <2>8 DEF ModifyToRtr, Modify
    <3> QED BY <3>1, ClientMoves
  <2>9. CASE ModifyToRts(Client)
    <3>1. Quiet
      BY <1>0, <2>9 DEF ModifyToRts, Modify
    <3> QED BY <3>1, ClientMoves
  <2>10. CASE PollFound(Client)
    <3>1. Quiet
      BY <1>0, <2>10 DEF PollFound, PollStage, AfterPoll
    <3> QED BY <3>1, ClientMoves
  <2>11. CASE PollTimeout(Client)
    <3>1. Quiet
      BY <1>0, <2>11 DEF PollTimeout, PollStage, hca
    <3> QED BY <3>1, ClientMoves
  <2>12. CASE PollError(Client)
    <3>1. Quiet
      BY <1>0, <2>12 DEF PollError, PollStage, hca
    <3> QED BY <3>1, ClientMoves
  <2>13. CASE Destroy(Client)
    <3>1. Quiet
      BY <1>0, <2>13 DEF Destroy
    <3> QED BY <3>1, ClientMoves
  <2> QED BY <1>2, <2>1, <2>2, <2>3, <2>4, <2>5, <2>6, <2>7, <2>8, <2>9, <2>10, <2>11, <2>12, <2>13 DEF Both, ConnectQp, Sync
<1> QED BY <1>1, <1>2 DEF Node

\* The steps only one of the processes takes.
LEMMA OneSideMoves ==
    ASSUME TypeOK, QueueInv,
           \/ Bind \/ Connect \/ ConnectRefused \/ Accept \/ PostReceive \/ SendMsg
           \/ ReadPeer \/ WritePeer \/ ShowMessage \/ Refill \/ ShowAndReplace
    PROVE  Moves
<1> USE DEF Goto, Fail, TypeOK
<1>0. Client # Server /\ Client \in Node /\ Server \in Node /\ Queue(Client) /\ Queue(Server)
  BY NodeAssumption DEF Node, QueueInv
<1>1. CASE Bind \/ Accept \/ Refill
  BY <1>0, <1>1, ServerMoves DEF Bind, Accept, Refused, NoSocket, Refill, hca, Early, Stage0, Stage1, Unapplied, Foreign
<1>2. CASE SendMsg
  BY <1>0, <1>2 DEF SendMsg, PostSend, Moves, Received, Early, Stage0, Stage1, Unapplied, Foreign
<1>3. CASE Connect \/ ConnectRefused \/ ShowMessage \/ ShowAndReplace
  BY <1>0, <1>3, ClientMoves DEF Connect, ConnectRefused, Refused, NoSocket, ShowMessage, ShowAndReplace, hca, Received, Later
<1>4. CASE PostReceive
  BY <1>0, <1>4, ClientMoves DEF PostReceive, Received, Later, Queue, Idle, Waiting, PollStage
<1>5. CASE ReadPeer \/ WritePeer
  BY <1>0, <1>5 DEF ReadPeer, WritePeer, PostSend, Moves, Received, Later, Unapplied
<1> QED BY <1>1, <1>2, <1>3, <1>4, <1>5

\* The steps of the adapters.
LEMMA HcaMoves ==
    ASSUME TypeOK, QueueInv, NEW p \in Node, Hca(p)
    PROVE  Moves
<1>0. /\ Client # Server /\ Client \in Node /\ Server \in Node /\ Queue(Client) /\ Queue(Server)
      /\ Peer(Client) = Server /\ Peer(Server) = Client /\ pc' = pc
  BY NodeAssumption DEF Node, QueueInv, Peer, Hca, DeliverSend, DeliverRdma, Complete, RequestFails
<1>1. CASE DeliverSend(p)
  <2>1. p = Server
    BY <1>0, <1>1 DEF DeliverSend, Queue, Node
  <2> QED BY <1>0, <1>1, <2>1 DEF DeliverSend, Moves, Unapplied, TypeOK
<1>2. CASE DeliverRdma(p)
  <2>1. p = Client
    BY <1>0, <1>2 DEF DeliverRdma, Queue, Node
  <2> QED BY <1>0, <1>2, <2>1 DEF DeliverRdma, Moves, Unapplied, Received, TypeOK
<1>3. CASE Complete(p) \/ RequestFails(p)
  <2>1. /\ wr[p] # "none" /\ wr' = [wr EXCEPT ![p] = "none"]
        /\ applied' = [applied EXCEPT ![p] = FALSE]
        /\ \E c : cq' = [cq EXCEPT ![p] = c]
    BY <1>3 DEF Complete, RequestFails, Retire
  <2>2. Unapplied' => Unapplied
    BY <1>0, <2>1 DEF Unapplied, TypeOK, Node
  <2>3. Received' => Received
    BY <1>0, <2>1 DEF Received, TypeOK, Node
  <2>4. wr'[Client] # "none" => wr[Client] # "none"
    BY <1>0, <2>1 DEF TypeOK
  <2> QED BY <1>0, <2>2, <2>3, <2>4 DEF Moves
<1> QED BY <1>1, <1>2, <1>3 DEF Hca

\* All steps.
LEMMA StepMoves ==
    ASSUME TypeOK, QueueInv, [Next]_vars
    PROVE  Moves
<1>1. CASE UNCHANGED vars
  BY <1>1 DEF vars, Moves, Received, Unapplied
<1>2. CASE ClientStep
  BY <1>2, OneSideMoves, BothMoves DEF ClientStep, Node
<1>3. CASE ServerStep
  BY <1>3, OneSideMoves, BothMoves DEF ServerStep, Node
<1>4. ASSUME NEW p \in Node, Hca(p) \/ PollError(p) PROVE Moves
  BY <1>4, HcaMoves, BothMoves
<1> QED BY <1>1, <1>2, <1>3, <1>4 DEF Next, SyncEof, Terminated

\* No step lets the two sides use a buffer at once.
LEMMA QuietStep == TypeOK /\ SyncInv /\ QueueInv /\ QuietInv /\ [Next]_vars => QuietInv'
<1> SUFFICES ASSUME TypeOK, SyncInv, QueueInv, QuietInv, [Next]_vars PROVE QuietInv'
  OBVIOUS
<1>0. /\ Client # Server /\ Client \in Node /\ Server \in Node /\ Queue(Client) /\ Queue(Server) /\ Moves
      /\ Total(3) \in Nat /\ Total(4) = Total(3) + 1
      /\ \A p \in Node : rcvd[p] \in Nat /\ sent[p] \in Nat /\ nread[p] \in Nat
  BY NodeAssumption, ConSizeAssumption, StepMoves DEF Node, QueueInv, TypeOK, Total
<1>1. (Received => pc[Server] \notin Early /\ ~Unapplied)'
  <2>1. CASE DeliverSend(Server)
    BY <1>0, <2>1 DEF DeliverSend, TypeOK, Queue, Idle, Waiting, PollStage, Early, Stage0, Stage1, Unapplied
  <2>2. CASE ~DeliverSend(Server)
    <3> SUFFICES ASSUME Received' PROVE pc'[Server] \notin Early /\ ~Unapplied'
      OBVIOUS
    <3>1. Received /\ pc[Server] \notin Early /\ ~Unapplied
      BY <1>0, <2>2 DEF Moves, QuietInv
    <3> QED BY <1>0, <3>1 DEF Moves, Early
  <2> QED BY <2>1, <2>2
<1>2. CASE UNCHANGED <<sent, rcvd>>
  <2>1. pc[Client] \in {"read", "write"} => rcvd[Client] >= Total(3) /\ sent[Client] = Total(3)
    BY <1>0 DEF SyncInv, Running, Stage0, Stage1, Stage2, Stage3, Stage4, Phase, SyncStage
  <2> QED BY <1>0, <1>1, <1>2, <2>1 DEF Moves, QuietInv
<1>3. ASSUME NEW p \in Node, SyncWrite(p) PROVE QuietInv'
  <2>1. UNCHANGED <<wr, rcvd>> /\ sent'[Server] \in Nat /\ pc[p] \in SyncStage
    <3>1. UNCHANGED <<wr, rcvd>> /\ pc[p] \in SyncStage
      BY <1>3 DEF SyncWrite, hca
    <3>2. SyncSize(pc[p]) \in Nat
      BY ConSizeAssumption DEF SyncSize
    <3>3. sent'[Server] = IF p = Server THEN sent[p] + SyncSize(pc[p]) ELSE sent[Server]
      BY <1>3, <1>0 DEF SyncWrite, TypeOK
    <3>4. sent'[Server] \in Nat
      BY <1>0, <3>2, <3>3
    <3> QED BY <3>1, <3>4
  <2>2. CASE p = Server
    BY <1>0, <1>1, <1>3, <2>1, <2>2 DEF SyncWrite, QuietInv, TypeOK
  <2>3. CASE p = Client
    <3>1. wr[Client] = "none"
      BY <1>0, <2>1, <2>3 DEF Queue, Idle, Waiting, PollStage, SyncStage
    <3>2. sent'[Client] = Total(Phase(pc[Client]) + 1) /\ pc[Client] \in Running /\ Phase(pc[Client]) \in 0 .. 3
      <4>1. sent'[Client] = sent[Client] + SyncSize(pc[Client]) /\ ~wrote[Client]
        BY <1>0, <1>3, <2>3 DEF SyncWrite, TypeOK
      <4>2. pc[Client] \in Running /\ Phase(pc[Client]) \in 0 .. 3 /\ Total(Phase(pc[Client])) \in Nat
        BY <2>1, <2>3, TotalProperty
      <4>3. sent[Client] = Total(Phase(pc[Client]))
        BY <1>0, <4>1, <4>2 DEF SyncInv
      <4> QED BY <2>1, <2>3, <4>1, <4>2, <4>3, TotalProperty
    <3>3. sent'[Client] >= Total(4) => Phase(pc[Client]) = 3
      BY <3>2, TotalProperty
    <3>4. Phase(pc[Client]) = 3 => rcvd[Client] >= Total(3)
      BY <1>0, <3>2 DEF SyncInv
    <3> QED BY <1>0, <1>1, <2>1, <3>1, <3>3, <3>4 DEF QuietInv, Moves
  <2> QED BY <2>2, <2>3 DEF Node
<1>4. ASSUME NEW p \in Node, SyncRead(p) PROVE QuietInv'
  <2>1. PICK k \in 1 .. SyncSize(pc[p]) : Take(p, k)
    BY <1>4 DEF SyncRead
  <2>2. k \in Nat
    BY ConSizeAssumption DEF SyncSize
  <2>3. UNCHANGED <<wr, sent>> /\ rcvd' = [rcvd EXCEPT ![p] = @ + k]
    BY <1>4, <2>1 DEF SyncRead, Take, hca
  <2>4. rcvd'[Client] \in Nat /\ rcvd'[Client] >= rcvd[Client]
    <3>1. rcvd'[Client] = IF p = Client THEN rcvd[Client] + k ELSE rcvd[Client]
      BY <1>0, <2>3 DEF TypeOK
    <3> QED BY <1>0, <2>2, <3>1
  <2> QED BY <1>0, <1>1, <2>3, <2>4 DEF QuietInv, Moves
<1> QED BY <1>2, <1>3, <1>4, BytesMove

\* The buffers are quiet in every reachable state.
LEMMA QuietOrder == Spec => []QuietInv
<1>1. Init => QuietInv
  BY NodeAssumption, ConSizeAssumption
     DEF Init, QuietInv, Received, Later, Unapplied, Node, Total, Foreign
<1>2. TypeOK /\ SyncInv /\ QueueInv /\ QuietInv /\ [Next]_vars => QuietInv'
  BY QuietStep
<1> QED BY <1>1, <1>2, TypeCorrect, SyncOrder, QueueOrder, PTL DEF Spec

\* The program touches its buffer only when no operation of either side can
\* (ibv-rc.c:773, 811), also after one side has given up waiting for its own.
THEOREM BufferIsQuiet == Spec => []QuiescentBuffer
<1>1. TypeOK /\ SyncInv /\ QueueInv /\ QuietInv => QuiescentBuffer
  <2> SUFFICES ASSUME TypeOK, SyncInv, QueueInv, QuietInv, NEW p \in Node,
                      pc[p] \in {"show1", "refill", "show2", "finish"}
               PROVE  ~Touches(p)
    BY DEF QuiescentBuffer
  <2>0. /\ Client # Server /\ Client \in Node /\ Server \in Node
        /\ Peer(Client) = Server /\ Peer(Server) = Client /\ Queue(p)
        /\ Total(3) \in Nat /\ Total(4) = Total(3) + 1 /\ Total(2) + 1 = Total(3) /\ Total(2) \in Nat
        /\ \A r \in Node : rcvd[r] \in Nat /\ sent[r] \in Nat /\ nread[r] \in Nat
    BY NodeAssumption, ConSizeAssumption DEF Node, Peer, QueueInv, TypeOK, Total
  <2>1. wr[p] = "none"
    BY DEF QueueInv, Queue, Idle, Waiting, PollStage
  <2>2. CASE p = Client
    BY <2>0, <2>1, <2>2 DEF QuietInv, Received, Later, Unapplied, Touches
  <2>3. CASE p = Server
    <3> SUFFICES ASSUME wr[Client] # "none" PROVE FALSE
      BY <2>0, <2>1, <2>3 DEF Touches
    <3>1. rcvd[Client] >= Total(3) /\ sent[Client] = Total(3)
      BY DEF QuietInv
    <3>2. rcvd[Client] <= sent[Server] /\ rcvd[Server] <= sent[Client]
      BY <2>0 DEF SyncInv
    <3>3. CASE pc[Server] = "refill"
      <4>1. sent[Server] = Total(2)
        BY <2>0, <3>3 DEF SyncInv, Running, Stage0, Stage1, Stage2, Phase, SyncStage
      <4> QED BY <2>0, <3>1, <3>2, <4>1
    <3>4. CASE pc[Server] = "finish"
      <4>1. rcvd[Server] >= Total(4)
        BY <2>0, <3>4 DEF SyncInv, Running, Stage0, Stage1, Stage2, Stage3, Stage4, Phase
      <4> QED BY <2>0, <3>1, <3>2, <4>1
    <3> QED BY <2>3, <3>3, <3>4 DEF QuietInv, Foreign
  <2> QED BY <2>2, <2>3 DEF Node
<1> QED BY <1>1, TypeCorrect, SyncOrder, QueueOrder, QuietOrder, PTL
-----------------------------------------------------------------------------
(* The contents of the buffers, and the refinement of RcExchange           *)

\* The stages at which the buffer of the server still holds its message.
Before == {"C", "send", "poll1", "refill"} \cup Stage1

\* The operation the client has posted last took effect.
Good == \/ wr[Client] # "none" /\ applied[Client]
        \/ cq[Client] # <<>> /\ Head(cq[Client]).ok

HasMsg ==
    \/ pc[Client] \in {"rtr", "rts", "Q", "poll1"} /\ cq[Client] # <<>>
    \/ pc[Client] \in {"show1", "R", "read"}
HasRead == (pc[Client] = "poll2" /\ Good) \/ pc[Client] = "show2"
HasWritten ==
    \/ pc[Client] = "poll3" /\ Good
    \/ pc[Client] \in {"W", "finish"}
    \/ sent[Client] >= Total(4)

NotWriting == Stage0 \cup Stage1 \cup Stage2 \cup {"read", "poll2", "show2", "write"}

\* The server holds its message until it is received, the text for the READ until
\* the client has it, and in the end what the client wrote.
ServerBuf ==
    /\ pc[Server] \in Before \/ Unapplied => buf[Server] = "MSG"
    /\ pc[Server] = "R" /\ ~wrote[Server] => buf[Server] = "RDMAMSGR"
    /\ sent[Server] >= Total(3) /\ pc[Client] \in NotWriting => buf[Server] = "RDMAMSGR"
    /\ HasWritten => buf[Server] = "RDMAMSGW"

ClientBuf ==
    /\ HasMsg => buf[Client] = "MSG"
    /\ HasRead => buf[Client] = "RDMAMSGR"
    /\ pc[Client] \in {"write", "poll3", "W", "finish"} => buf[Client] = "RDMAMSGW"

\* What each process has shown at each stage.
Shown ==
    /\ pc[Client] \in Stage0 \cup Stage1 \cup {"poll1", "show1"} => out[Client] = <<>>
    /\ pc[Client] \in {"R", "read", "poll2", "show2"} => out[Client] = <<"MSG">>
    /\ pc[Client] \in {"write", "poll3", "W", "finish"} \/ sent[Client] >= Total(4)
          => out[Client] = <<"MSG", "RDMAMSGR">>
    /\ pc[Server] \in Running => out[Server] = <<>>

DataInv == ServerBuf /\ ClientBuf /\ Shown
Earlier == TypeOK /\ SyncInv /\ QueueInv /\ QuietInv

\* Who is who, and the queues of both.
LEMMA Names ==
    Earlier => /\ Client # Server /\ Client \in Node /\ Server \in Node
               /\ Peer(Client) = Server /\ Peer(Server) = Client
               /\ Queue(Client) /\ Queue(Server)
BY NodeAssumption DEF Earlier, Node, Peer, QueueInv

\* What the bytes say of the stages.
LEMMA ByteFacts ==
    ASSUME Earlier
    PROVE  /\ Total(3) \in Nat /\ Total(4) = Total(3) + 1
           /\ \A p \in Node : sent[p] \in Nat
           /\ \/ pc[Server] \in Before \cup {"create"}
              \/ pc[Server] = "R" /\ ~wrote[Server]
              => sent[Server] < Total(3)
           /\ \/ pc[Client] \in Stage3 \cup Stage4
              \/ sent[Client] >= Total(4) \/ wr[Client] # "none"
              => sent[Server] >= Total(3)
           /\ pc[Client] \in Running \ {"W", "finish"} => sent[Client] < Total(4)
           /\ pc[Server] = "finish" => sent[Client] >= Total(4)
<1>0. /\ Total(0) = 0 /\ Total(1) \in Nat /\ Total(2) = Total(1) + 1 /\ Total(3) = Total(2) + 1
      /\ Total(4) = Total(3) + 1 /\ ConSize = Total(1) /\ Total(1) > 0
      /\ \A p \in Node : rcvd[p] \in Nat /\ sent[p] \in Nat /\ nread[p] \in Nat
  BY ConSizeAssumption DEF Total, Earlier, TypeOK
<1>1. pc[Server] \in Before \cup {"create"} \/ (pc[Server] = "R" /\ ~wrote[Server]) => sent[Server] < Total(3)
  BY <1>0, Names DEF Earlier, SyncInv, Before, Running, Stage0, Stage1, Stage2, Phase, SyncStage, SyncSize
<1>2. pc[Client] \in Stage3 \cup Stage4 => rcvd[Client] >= Total(3)
  BY <1>0, Names DEF Earlier, SyncInv, Running, Stage0, Stage1, Stage2, Stage3, Stage4, Phase
<1>3. \/ pc[Client] \in Stage3 \cup Stage4 \/ sent[Client] >= Total(4) \/ wr[Client] # "none"
      => sent[Server] >= Total(3)
  <2>1. rcvd[Client] <= sent[Server]
    BY Names DEF Earlier, SyncInv
  <2> QED BY <1>0, <1>2, <2>1, Names DEF Earlier, QuietInv
<1>4. pc[Client] \in Running \ {"W", "finish"} => sent[Client] < Total(4)
  BY <1>0, Names DEF Earlier, SyncInv, Running, Stage0, Stage1, Stage2, Stage3, Stage4, Phase, SyncStage, SyncSize
<1>5. pc[Server] = "finish" => sent[Client] >= Total(4)
  <2>1. pc[Server] = "finish" => rcvd[Server] >= Total(4)
    BY <1>0, Names DEF Earlier, SyncInv, Running, Stage0, Stage1, Stage2, Stage3, Stage4, Phase
  <2>2. rcvd[Server] <= sent[Client]
    BY Names DEF Earlier, SyncInv
  <2>3. rcvd[Server] \in Nat /\ sent[Client] \in Nat /\ Total(4) \in Nat
    BY <1>0, Names
  <2> QED BY <2>1, <2>2, <2>3
<1>6. Total(3) \in Nat /\ Total(4) = Total(3) + 1 /\ \A p \in Node : sent[p] \in Nat
  BY <1>0
<1> QED BY <1>1, <1>3, <1>4, <1>5, <1>6

\* A write of dummy bytes: which call they belong to.
LEMMA WriteFacts ==
    ASSUME Earlier, NEW p \in Node, SyncWrite(p)
    PROVE  /\ sent'[p] >= Total(3) => sent[p] >= Total(3) \/ pc[p] = "R"
           /\ sent'[p] >= Total(4) => pc[p] = "W"
<1>1. pc[p] \in SyncStage /\ ~wrote[p] /\ sent'[p] = sent[p] + SyncSize(pc[p])
  BY DEF SyncWrite, Earlier, TypeOK
<1>2. sent[p] = Total(Phase(pc[p])) /\ Phase(pc[p]) \in 0 .. 3
  BY <1>1, TotalProperty DEF Earlier, SyncInv
<1>3. sent'[p] = Total(Phase(pc[p]) + 1)
  BY <1>1, <1>2, TotalProperty
<1>4. /\ pc[p] = "C" => Phase(pc[p]) = 0
      /\ pc[p] = "Q" => Phase(pc[p]) = 1
      /\ pc[p] = "R" => Phase(pc[p]) = 2
      /\ pc[p] = "W" => Phase(pc[p]) = 3
  BY DEF Phase, Stage0, Stage1, Stage2, Stage3
<1> QED
  BY <1>1, <1>2, <1>3, <1>4, ConSizeAssumption DEF Total, SyncStage

\* What a step of the server may change of what DataInv speaks of.
ServerFrame ==
    /\ pc'[Client] = pc[Client]
    /\ UNCHANGED <<cq[Client], wr[Client], applied[Client], sent[Client], buf[Client], out[Client]>>
    /\ pc'[Server] \in Running => pc[Server] \in Running /\ out'[Server] = out[Server]
    /\ Unapplied' => Unapplied \/ pc[Server] = "send"
    /\ sent'[Server] >= Total(3) =>
          sent[Server] >= Total(3) \/ (pc[Server] = "R" /\ ~wrote[Server])
    /\ \/ pc[Server] = "create" /\ pc'[Server] = "C" /\ buf'[Server] = "MSG" /\ UNCHANGED sent
       \/ pc[Server] = "refill" /\ pc'[Server] = "R" /\ buf'[Server] = "RDMAMSGR" /\ UNCHANGED sent
             /\ ~Unapplied
       \/ /\ UNCHANGED buf[Server]
          /\ pc'[Server] \in Before => pc[Server] \in Before
          /\ pc'[Server] = "R" /\ ~wrote'[Server] => pc[Server] = "R" /\ ~wrote[Server]

\* The steps of the server that both processes take.
LEMMA BothServerFrame ==
    ASSUME Earlier, Both(Server) \/ PollError(Server)
    PROVE  ServerFrame
<1> USE DEF Goto, Fail, TypeOK
<1>0. /\ Client # Server /\ Client \in Node /\ Server \in Node /\ TypeOK /\ Queue(Server)
  BY Names DEF Earlier
<1>1. /\ pc'[Client] = pc[Client]
      /\ UNCHANGED <<cq[Client], wr[Client], applied[Client], sent[Client], buf[Client], out[Client]>>
  BY <1>0 DEF Both, ConnectQp, Create, CreateFail, Sync, SyncWrite, SyncWriteFail, SyncWriteKilled,
     SyncRead, Take, SyncReset, ModifyToInit, ModifyToRtr, ModifyToRts, Modify, PollFound,
     PollTimeout, PollError, Finish, Show, Destroy, Close, hca, tcp
<1>2. pc'[Server] \in Running => pc[Server] \in Running /\ out'[Server] = out[Server]
  <2>1. CASE Finish(Server) \/ Destroy(Server) \/ Close(Server)
    BY <1>0, <2>1, Disjoint DEF Finish, Destroy, Close, Ended
  <2>2. CASE ~(Finish(Server) \/ Destroy(Server) \/ Close(Server))
    <3>1. UNCHANGED out
      BY <2>2 DEF Both, ConnectQp, Create, CreateFail, Sync, SyncWrite, SyncWriteFail, SyncWriteKilled,
         SyncRead, SyncReset, ModifyToInit, ModifyToRtr, ModifyToRts, Modify, PollFound,
         PollTimeout, PollError
    <3>2. pc[Server] \in Running
      BY <2>2 DEF Both, ConnectQp, Create, CreateFail, Sync, SyncWrite, SyncWriteFail, SyncWriteKilled,
         SyncRead, SyncReset, ModifyToInit, ModifyToRtr, ModifyToRts, Modify, PollFound,
         PollTimeout, PollError, SyncStage, PollStage, Running, Stage0, Stage1, Stage2, Stage3
    <3> QED BY <3>1, <3>2
  <2> QED BY <2>1, <2>2
<1>3. Unapplied' => Unapplied
  BY <1>0 DEF Both, ConnectQp, Create, CreateFail, Sync, SyncWrite, SyncWriteFail, SyncWriteKilled,
     SyncRead, Take, SyncReset, ModifyToInit, ModifyToRtr, ModifyToRts, Modify, PollFound,
     PollTimeout, PollError, Finish, Destroy, Close, hca, Unapplied
<1>4. sent'[Server] >= Total(3) =>
         sent[Server] >= Total(3) \/ (pc[Server] = "R" /\ ~wrote[Server])
  <2>1. CASE SyncWrite(Server)
    BY <1>0, <2>1, WriteFacts DEF SyncWrite
  <2>2. CASE ~SyncWrite(Server)
    <3>1. UNCHANGED sent
      BY <2>2 DEF Both, ConnectQp, Create, CreateFail, Sync, SyncWriteFail, SyncWriteKilled,
         SyncRead, SyncReset, ModifyToInit, ModifyToRtr, ModifyToRts, Modify, PollFound,
         PollTimeout, PollError, Finish, Destroy, Close, tcp
    <3> QED BY <3>1
  <2> QED BY <2>1, <2>2
<1>5. \/ pc[Server] = "create" /\ pc'[Server] = "C" /\ buf'[Server] = "MSG" /\ UNCHANGED sent
      \/ /\ UNCHANGED buf[Server]
         /\ pc'[Server] \in Before => pc[Server] \in Before
         /\ pc'[Server] = "R" /\ ~wrote'[Server] => pc[Server] = "R" /\ ~wrote[Server]
  <2>1. CASE Create(Server)
    BY <1>0, <2>1 DEF Create, tcp
  <2>2. CASE ~Create(Server)
    <3>1. UNCHANGED buf
      BY <2>2 DEF Both, ConnectQp, CreateFail, Sync, SyncWrite, SyncWriteFail, SyncWriteKilled,
         SyncRead, SyncReset, ModifyToInit, ModifyToRtr, ModifyToRts, Modify, PollFound,
         PollTimeout, PollError, Finish, Destroy, Close
    <3>2. pc'[Server] \in Before => pc[Server] \in Before
      BY <1>0, <2>2 DEF Both, ConnectQp, CreateFail, Sync, SyncWrite, SyncWriteFail, SyncWriteKilled,
         SyncRead, Take, AfterSync, SyncStage, SyncReset, ModifyToInit, ModifyToRtr, ModifyToRts,
         Modify, PollFound, AfterPoll, PollTimeout, PollError, Finish, Destroy, Close, Before, Stage1
    <3>3. pc'[Server] = "R" /\ ~wrote'[Server] => pc[Server] = "R" /\ ~wrote[Server]
      BY <1>0, <2>2 DEF Both, ConnectQp, CreateFail, Sync, SyncWrite, SyncWriteFail, SyncWriteKilled,
         SyncRead, Take, AfterSync, SyncStage, SyncReset, ModifyToInit, ModifyToRtr, ModifyToRts,
         Modify, PollFound, AfterPoll, PollTimeout, PollError, Finish, Destroy, Close, tcp
    <3> QED BY <3>1, <3>2, <3>3
  <2> QED BY <2>1, <2>2
<1> QED BY <1>1, <1>2, <1>3, <1>4, <1>5 DEF ServerFrame

\* All steps of the server.
LEMMA ServerStepFrame ==
    ASSUME Earlier, ServerStep \/ PollError(Server)
    PROVE  ServerFrame
<1> USE DEF Goto, Fail, TypeOK, ServerFrame
<1>0. /\ Client # Server /\ Client \in Node /\ Server \in Node /\ TypeOK /\ Queue(Server)
  BY Names DEF Earlier
<1>1. CASE Bind
  BY <1>0, <1>1 DEF Bind, Refused, NoSocket, hca, tcp, Unapplied, Before, Stage1, Running, Stage0, Ended
<1>2. CASE Accept
  BY <1>0, <1>2 DEF Accept, Refused, NoSocket, hca, tcp, Unapplied, Before, Stage1, Running, Stage0, Ended
<1>3. CASE SendMsg
  BY <1>0, <1>3 DEF SendMsg, PostSend, tcp, Unapplied, Before, Stage1, Running, Stage2
<1>4. CASE Refill
  BY <1>0, <1>4 DEF Refill, hca, tcp, Unapplied, Running, Stage2, Queue, Idle, Waiting, PollStage
<1> QED BY <1>1, <1>2, <1>3, <1>4, BothServerFrame DEF ServerStep

\* The contents of the buffers and of the output after a step of the server.
LEMMA ServerData ==
    ASSUME Earlier, DataInv, ServerFrame
    PROVE  DataInv'
<1>0. /\ Total(3) \in Nat /\ sent[Server] \in Nat
      /\ \/ pc[Server] \in Before \cup {"create"}
         \/ pc[Server] = "R" /\ ~wrote[Server]
         => sent[Server] < Total(3)
      /\ HasWritten => sent[Server] >= Total(3)
  BY ByteFacts, Names DEF HasWritten, Stage3, Stage4
<1>1. ClientBuf'
  BY DEF ServerFrame, DataInv, ClientBuf, HasMsg, HasRead, Good
<1>2. Shown'
  BY DEF ServerFrame, DataInv, Shown
<1>3. HasWritten' = HasWritten
  BY DEF ServerFrame, HasWritten, Good
<1>4. ServerBuf'
  <2>1. CASE pc[Server] = "create" /\ pc'[Server] = "C" /\ buf'[Server] = "MSG" /\ UNCHANGED sent
    BY <1>0, <1>3, <2>1 DEF ServerBuf
  <2>2. CASE pc[Server] = "refill" /\ pc'[Server] = "R" /\ buf'[Server] = "RDMAMSGR"
             /\ UNCHANGED sent /\ ~Unapplied
    BY <1>0, <1>3, <2>2 DEF ServerBuf, ServerFrame, Before, Stage1
  <2>3. CASE /\ UNCHANGED buf[Server]
             /\ pc'[Server] \in Before => pc[Server] \in Before
             /\ pc'[Server] = "R" /\ ~wrote'[Server] => pc[Server] = "R" /\ ~wrote[Server]
    BY <1>3, <2>3 DEF DataInv, ServerBuf, ServerFrame, Before
  <2> QED BY <2>1, <2>2, <2>3 DEF ServerFrame
<1> QED BY <1>1, <1>2, <1>4 DEF DataInv

\* What a process has shown after one and after two texts.
LEMMA Two ==
    ASSUME NEW S, NEW a \in S, NEW b \in S
    PROVE  /\ Append(<<a>>, b) = <<a, b>>
           /\ SubSeq(<<a, b>>, 1, 1) = <<a>>
           /\ SubSeq(<<a, b>>, 1, 2) = <<a, b>>
<1> DEFINE s == Append(<<a>>, b)
           t == <<a, b>>
           u == SubSeq(t, 1, 1)
           v == SubSeq(t, 1, 2)
           w == <<a>>
<1>1. /\ s \in Seq(S) /\ Len(s) = 2 /\ s[1] = a /\ s[2] = b
      /\ t \in Seq(S) /\ Len(t) = 2 /\ t[1] = a /\ t[2] = b
      /\ w \in Seq(S) /\ Len(w) = 1 /\ w[1] = a
  OBVIOUS
<1> HIDE DEF t
<1>2. /\ u \in Seq(S) /\ Len(u) = 1 /\ u[1] = a
      /\ v \in Seq(S) /\ Len(v) = 2 /\ v[1] = a /\ v[2] = b
  BY <1>1, SubSeqProperties
<1> HIDE DEF s, u, v, w
<1>3. s = t /\ v = t
  <2>1. \A i \in 1 .. 2 : s[i] = t[i] /\ v[i] = t[i]
    BY <1>1, <1>2
  <2> QED BY <1>1, <1>2, <2>1, SeqEqual
<1>4. u = w
  <2>1. \A i \in 1 .. 1 : u[i] = w[i]
    BY <1>1, <1>2
  <2> QED BY <1>1, <1>2, <2>1, SeqEqual
<1> QED BY <1>3, <1>4 DEF s, t, u, v, w

\* The lines the client shows.
LEMMA Lines ==
    /\ Append(<<"MSG">>, "RDMAMSGR") = <<"MSG", "RDMAMSGR">>
    /\ SubSeq(<<"MSG", "RDMAMSGR">>, 1, 1) = <<"MSG">>
    /\ SubSeq(<<"MSG", "RDMAMSGR">>, 1, 2) = <<"MSG", "RDMAMSGR">>
    /\ Append(<<>>, "MSG") = <<"MSG">> /\ Len(<<>>) = 0 /\ Len(<<"MSG">>) = 1
<1>1. "MSG" \in Text /\ "RDMAMSGR" \in Text
  BY DEF Text
<1>2. /\ Append(<<"MSG">>, "RDMAMSGR") = <<"MSG", "RDMAMSGR">>
      /\ SubSeq(<<"MSG", "RDMAMSGR">>, 1, 1) = <<"MSG">>
      /\ SubSeq(<<"MSG", "RDMAMSGR">>, 1, 2) = <<"MSG", "RDMAMSGR">>
  <2> HIDE DEF Text
  <2> QED BY <1>1, Two
<1>3. Append(<<>>, "MSG") = <<"MSG">> /\ Len(<<>>) = 0 /\ Len(<<"MSG">>) = 1
  OBVIOUS
<1> QED BY <1>2, <1>3

Written == {"write", "poll3", "W", "finish"}
NotShown == Stage0 \cup Stage1 \cup {"poll1", "show1"}
OneShown == {"R", "read", "poll2", "show2"}

\* What a step of the client may change of what DataInv speaks of.
ClientFrame ==
    /\ pc'[Server] = pc[Server]
    /\ UNCHANGED <<wr[Server], applied[Server], wrote[Server], sent[Server], buf[Server], out[Server]>>
    /\ pc'[Client] \in NotWriting => pc[Client] \in NotWriting
    /\ HasMsg' => HasMsg
    /\ HasRead' => HasRead
    /\ HasWritten' => HasWritten
    /\ sent'[Client] >= Total(4) => sent[Client] >= Total(4) \/ pc[Client] = "W"
    /\ \/ pc[Client] = "create" /\ pc'[Client] = "C" /\ UNCHANGED <<out, sent>>
       \/ /\ pc[Client] = "show1" /\ pc'[Client] = "R" /\ UNCHANGED <<buf, sent>>
          /\ out'[Client] = Append(out[Client], buf[Client])
       \/ /\ pc[Client] = "show2" /\ pc'[Client] = "write" /\ buf'[Client] = "RDMAMSGW"
          /\ out'[Client] = Append(out[Client], buf[Client])
       \/ /\ UNCHANGED <<buf[Client], out[Client]>>
          /\ pc'[Client] \in Written => pc[Client] \in Written
          /\ pc'[Client] \in NotShown => pc[Client] \in NotShown
          /\ pc'[Client] \in OneShown => pc[Client] \in OneShown

\* The steps of the client that both processes take.
LEMMA BothClientFrame ==
    ASSUME Earlier, Both(Client) \/ PollError(Client)
    PROVE  ClientFrame
<1> USE DEF Goto, Fail, TypeOK
<1>0. /\ Client # Server /\ Client \in Node /\ Server \in Node /\ TypeOK /\ Queue(Client)
      /\ (cq[Client] # <<>> => Len(cq[Client]) = 1)
  BY Names DEF Earlier, Queue
<1>1. /\ pc'[Server] = pc[Server]
      /\ UNCHANGED <<wr[Server], applied[Server], wrote[Server], sent[Server], buf[Server], out[Server]>>
  BY <1>0 DEF Both, ConnectQp, Create, CreateFail, Sync, SyncWrite, SyncWriteFail, SyncWriteKilled,
     SyncRead, Take, SyncReset, ModifyToInit, ModifyToRtr, ModifyToRts, Modify, PollFound,
     PollTimeout, PollError, Finish, Show, Destroy, Close, hca, tcp
<1>2. sent'[Client] >= Total(4) => sent[Client] >= Total(4) \/ pc[Client] = "W"
  <2>1. CASE SyncWrite(Client)
    BY <1>0, <2>1, WriteFacts
  <2>2. CASE ~SyncWrite(Client)
    <3>1. UNCHANGED sent
      BY <2>2 DEF Both, ConnectQp, Create, CreateFail, Sync, SyncWriteFail, SyncWriteKilled,
         SyncRead, SyncReset, ModifyToInit, ModifyToRtr, ModifyToRts, Modify, PollFound,
         PollTimeout, PollError, Finish, Destroy, Close, tcp
    <3> QED BY <3>1
  <2> QED BY <2>1, <2>2
<1>3. ASSUME Create(Client) PROVE ClientFrame
  BY <1>0, <1>1, <1>2, <1>3
     DEF Create, tcp, ClientFrame, NotWriting, Stage0, HasMsg, HasRead, HasWritten
<1>4. ASSUME UNCHANGED <<sent, cq, wr, applied, buf>>, UNCHANGED out[Client],
             \/ pc'[Client] = pc[Client]
             \/ pc'[Client] \in Ended
             \/ pc[Client] = "init" /\ pc'[Client] = "recv"
             \/ pc[Client] = "rtr" /\ pc'[Client] = "rts"
             \/ pc[Client] = "rts" /\ pc'[Client] = "Q"
             \/ pc[Client] \in SyncStage /\ pc'[Client] = AfterSync(Client, pc[Client])
      PROVE  ClientFrame
  BY <1>0, <1>1, <1>2, <1>4
     DEF ClientFrame, NotWriting, Written, NotShown, OneShown, HasMsg, HasRead, HasWritten, Good,
         Ended, Stage0, Stage1, Stage2, AfterSync, SyncStage
<1>5. CASE CreateFail(Client) \/ SyncWriteFail(Client) \/ SyncReset(Client)
           \/ PollTimeout(Client) \/ PollError(Client) \/ Close(Client)
  BY <1>0, <1>4, <1>5 DEF CreateFail, SyncWriteFail, SyncReset, PollTimeout, PollError, Close,
     hca, tcp, Ended
<1>6. CASE ModifyToInit(Client) \/ ModifyToRtr(Client) \/ ModifyToRts(Client)
  BY <1>0, <1>4, <1>6 DEF ModifyToInit, ModifyToRtr, ModifyToRts, Modify, tcp, Ended
<1>7. CASE SyncRead(Client)
  BY <1>0, <1>4, <1>7 DEF SyncRead, Take, hca
<1>8. CASE SyncWrite(Client)
  BY <1>0, <1>1, <1>2, <1>8
     DEF SyncWrite, hca, ClientFrame, HasMsg, HasRead, HasWritten, Good
<1>9. CASE SyncWriteKilled(Client) \/ Destroy(Client)
  <2> USE <1>0, <1>1, <1>2 DEF ClientFrame, NotWriting, Written, NotShown, OneShown, HasMsg,
         HasRead, HasWritten, Stage0, Stage1, Stage2
  <2>1. CASE SyncWriteKilled(Client)
    BY <2>1 DEF SyncWriteKilled
  <2>2. CASE Destroy(Client)
    BY <2>2 DEF Destroy, tcp
  <2> QED BY <1>9, <2>1, <2>2
<1>10. CASE Finish(Client)
  BY <1>0, <1>4, <1>10 DEF Finish, hca, tcp, Ended
<1>11. CASE PollFound(Client)
  <2>1. UNCHANGED <<sent, wr, applied, buf, out>>
    BY <1>11 DEF PollFound, tcp
  <2>2. cq[Client] # <<>> /\ pc[Client] \in PollStage
    BY <1>11 DEF PollFound
  <2>3. \/ Head(cq[Client]).ok /\ pc'[Client] = AfterPoll(Client, pc[Client])
        \/ pc'[Client] = "destroy"
    BY <1>0, <1>11 DEF PollFound
  <2> QED
    BY <1>0, <1>1, <1>2, <2>1, <2>2, <2>3
       DEF ClientFrame, NotWriting, Written, NotShown, OneShown, HasMsg, HasRead, HasWritten, Good,
           Stage0, Stage1, Stage2, AfterPoll, PollStage
<1> QED
  BY <1>3, <1>5, <1>6, <1>7, <1>8, <1>9, <1>10, <1>11 DEF Both, ConnectQp, Sync

\* All steps of the client.
LEMMA ClientStepFrame ==
    ASSUME Earlier, ClientStep \/ PollError(Client)
    PROVE  ClientFrame
<1> USE DEF Goto, Fail, TypeOK, ClientFrame
<1>0. /\ Client # Server /\ Client \in Node /\ Server \in Node /\ TypeOK /\ Queue(Client)
  BY Names DEF Earlier
<1> USE DEF HasMsg, HasRead, HasWritten, NotWriting, Written, NotShown, OneShown, Stage0, Stage1, Stage2
<1>1. CASE Connect \/ ConnectRefused
  <2>1. CASE Connect
    BY <1>0, <2>1 DEF Connect, hca, Good
  <2>2. CASE ConnectRefused
    BY <1>0, <2>2 DEF ConnectRefused, Refused, NoSocket, hca, tcp, Good
  <2> QED BY <1>1, <2>1, <2>2
<1>2. CASE PostReceive
  BY <1>0, <1>2 DEF PostReceive, tcp, Queue, Idle, Waiting, PollStage
<1>3. CASE ShowMessage
  BY <1>0, <1>3 DEF ShowMessage, Show, hca, tcp
<1>4. CASE ShowAndReplace
  BY <1>0, <1>4 DEF ShowAndReplace, Show, hca, tcp
<1>5. CASE ReadPeer
  BY <1>0, <1>5 DEF ReadPeer, PostSend, tcp, Queue, Idle, Waiting, PollStage, Good
<1>6. CASE WritePeer
  BY <1>0, <1>6 DEF WritePeer, PostSend, tcp, Queue, Idle, Waiting, PollStage, Good
<1> QED BY <1>1, <1>2, <1>3, <1>4, <1>5, <1>6, BothClientFrame DEF ClientStep

\* The contents of the buffers and of the output after a step of the client.
LEMMA ClientData ==
    ASSUME Earlier, DataInv, ClientFrame
    PROVE  DataInv'
<1>0. /\ Client # Server /\ Client \in Node
      /\ pc[Client] \in Running \ {"W", "finish"} => ~(sent[Client] >= Total(4))
  <2>1. Client # Server /\ Client \in Node
    BY Names
  <2>2. sent[Client] \in Nat /\ Total(4) \in Nat
    BY <2>1, ByteFacts
  <2> QED BY <2>1, <2>2, ByteFacts
<1>1. ServerBuf'
  BY DEF ClientFrame, DataInv, ServerBuf, Unapplied
<1>2. ClientBuf'
  <2>1. CASE pc'[Client] = "C"
    BY <2>1 DEF ClientBuf, HasMsg, HasRead
  <2>2. CASE pc[Client] = "show1" /\ pc'[Client] = "R" /\ UNCHANGED buf
    BY <2>2 DEF DataInv, ClientBuf, HasMsg, HasRead
  <2>3. CASE pc'[Client] = "write" /\ buf'[Client] = "RDMAMSGW"
    BY <2>3 DEF ClientBuf, HasMsg, HasRead
  <2>4. CASE UNCHANGED buf[Client] /\ (pc'[Client] \in Written => pc[Client] \in Written)
    BY <2>4 DEF ClientFrame, DataInv, ClientBuf, Written
  <2> QED BY <2>1, <2>2, <2>3, <2>4 DEF ClientFrame
<1>3. Shown'
  <2>1. pc'[Server] \in Running => out'[Server] = <<>>
    BY DEF ClientFrame, DataInv, Shown
  <2>2. CASE pc[Client] = "create" /\ pc'[Client] = "C" /\ UNCHANGED <<out, sent>>
    BY <2>1, <2>2 DEF DataInv, Shown, Stage0
  <2>3. CASE /\ pc[Client] = "show1" /\ pc'[Client] = "R" /\ UNCHANGED <<buf, sent>>
             /\ out'[Client] = Append(out[Client], buf[Client])
    <3>1. out'[Client] = <<"MSG">>
      <4>1. out[Client] = <<>> /\ buf[Client] = "MSG"
        BY <2>3 DEF DataInv, Shown, ClientBuf, HasMsg
      <4> QED BY <2>3, <4>1
    <3>2. ~(sent'[Client] >= Total(4))
      BY <1>0, <2>3 DEF Running, Stage2
    <3> QED BY <2>1, <2>3, <3>1, <3>2 DEF Shown, Stage0, Stage1
  <2>4. CASE /\ pc[Client] = "show2" /\ pc'[Client] = "write"
             /\ out'[Client] = Append(out[Client], buf[Client])
    <3>1. out'[Client] = <<"MSG", "RDMAMSGR">>
      <4>1. out[Client] = <<"MSG">> /\ buf[Client] = "RDMAMSGR"
        BY <2>4 DEF DataInv, Shown, ClientBuf, HasRead
      <4>2. Append(<<"MSG">>, "RDMAMSGR") = <<"MSG", "RDMAMSGR">>
        BY Lines
      <4> QED BY <2>4, <4>1, <4>2
    <3> QED BY <2>1, <2>4, <3>1 DEF Shown, Stage0, Stage1
  <2>5. CASE /\ UNCHANGED <<buf[Client], out[Client]>>
             /\ pc'[Client] \in Written => pc[Client] \in Written
             /\ pc'[Client] \in NotShown => pc[Client] \in NotShown
             /\ pc'[Client] \in OneShown => pc[Client] \in OneShown
    BY <2>1, <2>5 DEF ClientFrame, DataInv, Shown, Written, NotShown, OneShown
  <2> QED BY <2>2, <2>3, <2>4, <2>5 DEF ClientFrame
<1> QED BY <1>1, <1>2, <1>3 DEF DataInv

\* A step of the HCA that serves p.
LEMMA HcaData ==
    ASSUME Earlier, DataInv, NEW p \in Node, Hca(p)
    PROVE  DataInv'
<1>0. /\ Client # Server /\ Client \in Node /\ Server \in Node /\ TypeOK /\ QuietInv
      /\ Queue(Client) /\ Queue(Server) /\ Peer(Client) = Server /\ Peer(Server) = Client
      /\ UNCHANGED <<pc, sent, wrote, out>>
  BY Names DEF Earlier, Hca, DeliverSend, DeliverRdma, Complete, RequestFails, tcp
<1>1. Shown'
  BY <1>0 DEF DataInv, Shown
<1>2. CASE DeliverSend(p)
  <2>1. p = Server /\ Unapplied /\ buf[Server] = "MSG"
    BY <1>0, <1>2 DEF DeliverSend, Queue, Node, DataInv, ServerBuf, Unapplied
  <2>2. ~Received
    BY <1>0, <2>1 DEF QuietInv
  <2>3. buf'[Client] = "MSG" /\ UNCHANGED <<buf[Server], wr, applied[Client]>> /\ ~Unapplied'
    BY <1>0, <1>2, <2>1 DEF DeliverSend, TypeOK, Unapplied
  <2>4. pc[Client] \notin Later /\ wr[Client] = "none"
    BY <2>2 DEF Received
  <2>5. HasWritten' => HasWritten
    BY <1>0, <2>4 DEF HasWritten, Later
  <2>6. ClientBuf'
    BY <1>0, <2>3, <2>4 DEF ClientBuf, HasRead, Later
  <2>7. ServerBuf'
    BY <1>0, <2>3, <2>5 DEF DataInv, ServerBuf
  <2> QED BY <1>1, <2>6, <2>7 DEF DataInv
<1>3. CASE DeliverRdma(p)
  <2>1. p = Client /\ wr[Client] \in {"READ", "WRITE"} /\ UNCHANGED <<wr, cq>>
    BY <1>0, <1>3 DEF DeliverRdma, Queue, Node
  <2>2. pc[Client] \in {"poll2", "poll3", "destroy"} /\ cq[Client] = <<>>
    BY <1>0, <2>1 DEF Queue, Idle, Waiting, PollStage, Expected
  <2>3. ~Unapplied /\ ~Unapplied'
    <3>1. ~Unapplied
      BY <1>0, <2>1 DEF QuietInv, Received
    <3>2. UNCHANGED applied[Server]
      BY <1>0, <1>3, <2>1 DEF DeliverRdma, TypeOK
    <3> QED BY <2>1, <3>1, <3>2 DEF Unapplied
  <2>4. /\ sent[Server] >= Total(3) /\ ~(sent[Client] >= Total(4))
        /\ pc[Server] \notin Before /\ ~(pc[Server] = "R" /\ ~wrote[Server])
    <3>1. sent[Client] = Total(3)
      BY <1>0, <2>1 DEF QuietInv
    <3> QED BY <1>0, <2>1, <3>1, ByteFacts
  <2>5. CASE wr[Client] = "READ"
    <3>1. buf'[Client] = buf[Server] /\ buf'[Server] = buf[Server]
      BY <1>0, <1>3, <2>1, <2>5 DEF DeliverRdma, TypeOK
    <3>2. pc[Client] # "poll3"
      BY <1>0, <2>5 DEF Queue, Expected, PollStage
    <3>3. pc[Client] = "poll2" => buf[Server] = "RDMAMSGR"
      BY <2>4 DEF DataInv, ServerBuf, NotWriting
    <3>4. ClientBuf'
      BY <1>0, <2>2, <3>1, <3>2, <3>3 DEF ClientBuf, HasMsg, HasRead
    <3>5. ServerBuf'
      BY <1>0, <2>2, <2>3, <2>4, <3>1, <3>2 DEF DataInv, ServerBuf, HasWritten
    <3> QED BY <1>1, <3>4, <3>5 DEF DataInv
  <2>6. CASE wr[Client] = "WRITE"
    <3>1. buf'[Server] = buf[Client] /\ buf'[Client] = buf[Client]
      BY <1>0, <1>3, <2>1, <2>6 DEF DeliverRdma, TypeOK
    <3>2. pc[Client] # "poll2"
      BY <1>0, <2>6 DEF Queue, Expected, PollStage
    <3>3. pc[Client] = "poll3" => buf[Client] = "RDMAMSGW"
      BY DEF DataInv, ClientBuf
    <3>4. ClientBuf'
      BY <1>0, <2>2, <3>1, <3>2, <3>3 DEF ClientBuf, HasMsg, HasRead
    <3>5. ServerBuf'
      BY <1>0, <2>2, <2>3, <2>4, <3>1, <3>2, <3>3
         DEF ServerBuf, HasWritten, NotWriting, Stage0, Stage1, Stage2
    <3> QED BY <1>1, <3>4, <3>5 DEF DataInv
  <2> QED BY <2>1, <2>5, <2>6
<1>4. CASE Complete(p) \/ RequestFails(p)
  <2>1. UNCHANGED buf /\ wr[p] # "none" /\ cq[p] = <<>>
    BY <1>0, <1>4, Names DEF Complete, RequestFails, Queue, Node
  <2>2. Unapplied' => Unapplied
    BY <1>0, <1>4 DEF Complete, RequestFails, Retire, TypeOK, Unapplied, Node
  <2>3. CASE p = Server
    <3>1. UNCHANGED <<wr[Client], applied[Client], cq[Client]>>
      BY <1>0, <1>4, <2>3 DEF Complete, RequestFails, Retire, TypeOK
    <3> QED
      BY <1>0, <1>1, <2>1, <2>2, <3>1
         DEF DataInv, ServerBuf, ClientBuf, HasMsg, HasRead, HasWritten, Good
  <2>4. CASE p = Client
    <3>1. Good' => Good
      <4>1. \/ applied[Client]
            \/ cq'[Client] = <<[op |-> wr[Client], ok |-> FALSE]>>
        <5>1. applied[Client] \/ cq'[Client] = Append(cq[Client], [op |-> wr[Client], ok |-> FALSE])
          BY <1>0, <1>4, <2>4 DEF Complete, RequestFails, Retire, TypeOK
        <5> QED BY <2>1, <2>4, <5>1
      <4>2. wr'[Client] = "none" /\ wr[Client] # "none"
        BY <1>0, <1>4, <2>1, <2>4 DEF Complete, RequestFails, Retire, TypeOK
      <4> QED BY <4>1, <4>2 DEF Good
    <3>2. pc[Client] \notin {"rtr", "rts", "Q", "poll1"}
      BY <1>0, <2>1, <2>4 DEF Queue, PollStage, Expected
    <3> QED
      BY <1>0, <1>1, <2>1, <2>2, <3>1, <3>2
         DEF DataInv, ServerBuf, ClientBuf, HasMsg, HasRead, HasWritten
  <2> QED BY <2>3, <2>4 DEF Node
<1> QED BY <1>2, <1>3, <1>4 DEF Hca

\* Every step keeps the contents of the buffers in order.
LEMMA DataStep == Earlier /\ DataInv /\ [Next]_vars => DataInv'
<1> SUFFICES ASSUME Earlier, DataInv, [Next]_vars PROVE DataInv'
  OBVIOUS
<1>1. CASE UNCHANGED vars
  BY <1>1 DEF vars, DataInv, ServerBuf, ClientBuf, Shown, Good, HasMsg, HasRead, HasWritten, Unapplied
<1>2. CASE ClientStep \/ PollError(Client)
  BY <1>2, ClientStepFrame, ClientData
<1>3. CASE ServerStep \/ PollError(Server)
  BY <1>3, ServerStepFrame, ServerData
<1>4. ASSUME NEW p \in Node, Hca(p) PROVE DataInv'
  BY <1>4, HcaData
<1> QED BY <1>1, <1>2, <1>3, <1>4 DEF Next, SyncEof, Terminated, Node

\* The buffers hold what DataInv says in every reachable state.
LEMMA DataOrder == Spec => [](Earlier /\ DataInv)
<1>1. Init => DataInv
  BY NodeAssumption, ConSizeAssumption
     DEF Init, DataInv, ServerBuf, ClientBuf, Shown, Good, HasMsg, HasRead, HasWritten, Unapplied,
         Before, Stage0, Stage1, Written, Node, Total
<1>2. Earlier /\ DataInv /\ [Next]_vars => DataInv'
  BY DataStep
<1>3. Spec => []Earlier
  BY TypeCorrect, SyncOrder, QueueOrder, QuietOrder, PTL DEF Earlier
<1> QED BY <1>1, <1>2, <1>3, PTL DEF Spec

\* The lines shown and the results change as RcExchange says.
LEMMA Maps ==
    Earlier /\ DataInv /\ [Next]_vars => [Exchange!Next]_(Exchange!vars)
<1> SUFFICES ASSUME Earlier, DataInv, [Next]_vars
             PROVE  Exchange!Next \/ UNCHANGED <<out, rc>>
  BY DEF Exchange!vars
<1> USE DEF Exchange!Next, Exchange!ClientShows, Exchange!ClientSucceeds, Exchange!ServerSucceeds,
            Exchange!Spoil, Exchange!Complete, Exchange!Transcript, Exchange!Node
<1>0. /\ Client # Server /\ Client \in Node /\ Server \in Node
      /\ TypeOK /\ Len(<<>>) = 0
  BY Names DEF Earlier
<1>1. CASE ShowMessage
  <2>1. /\ out[Client] = <<>> /\ buf[Client] = "MSG" /\ UNCHANGED rc
        /\ out' = [out EXCEPT ![Client] = Append(out[Client], buf[Client])]
    BY <1>1 DEF ShowMessage, Show, DataInv, Shown, ClientBuf, HasMsg
  <2>2. Len(out[Client]) < 2 /\ SubSeq(Exchange!Transcript(Client), 1, Len(out[Client]) + 1) = <<"MSG">>
    BY <2>1, Lines
  <2>3. out' = [out EXCEPT ![Client] = <<"MSG">>]
    BY <2>1, Lines
  <2> HIDE DEF Exchange!Transcript
  <2> QED BY <2>1, <2>2, <2>3
<1>2. CASE ShowAndReplace
  <2>1. /\ out[Client] = <<"MSG">> /\ buf[Client] = "RDMAMSGR" /\ UNCHANGED rc
        /\ out' = [out EXCEPT ![Client] = Append(out[Client], buf[Client])]
    BY <1>2 DEF ShowAndReplace, Show, DataInv, Shown, ClientBuf, HasRead
  <2>2. /\ Len(out[Client]) < 2
        /\ SubSeq(Exchange!Transcript(Client), 1, Len(out[Client]) + 1) = <<"MSG", "RDMAMSGR">>
    BY <2>1, Lines
  <2>3. out' = [out EXCEPT ![Client] = <<"MSG", "RDMAMSGR">>]
    BY <2>1, Lines
  <2> HIDE DEF Exchange!Transcript
  <2> QED BY <2>1, <2>2, <2>3
<1>3. CASE Finish(Client)
  <2>1. out[Client] = <<"MSG", "RDMAMSGR">>
    BY <1>3 DEF Finish, DataInv, Shown
  <2> QED BY <1>0, <1>3, <2>1 DEF Finish
<1>4. CASE Finish(Server)
  <2>1. pc[Server] = "finish" /\ sent[Client] >= Total(4)
    BY <1>4, ByteFacts DEF Finish
  <2>2. out[Client] = <<"MSG", "RDMAMSGR">> /\ out[Server] = <<>> /\ buf[Server] = "RDMAMSGW"
    BY <2>1 DEF DataInv, Shown, ServerBuf, HasWritten, Running, Stage4
  <2>3. out' = [out EXCEPT ![Server] = <<"RDMAMSGW">>]
    <3>1. out' = [out EXCEPT ![Server] = Append(out[Server], buf[Server])]
      BY <1>4 DEF Finish, Show
    <3>2. Append(<<>>, "RDMAMSGW") = <<"RDMAMSGW">>
      OBVIOUS
    <3> QED BY <2>2, <3>1, <3>2
  <2> QED BY <1>0, <1>4, <2>2, <2>3 DEF Finish
<1>5. ASSUME NEW p \in Node, Destroy(p)
      PROVE  Exchange!Next \/ UNCHANGED <<out, rc>>
  BY <1>5 DEF Destroy, Node
<1>6. ASSUME NEW p \in Node, Both(p) \/ PollError(p)
      PROVE  Finish(p) \/ Destroy(p) \/ UNCHANGED <<out, rc>>
  BY <1>6 DEF Both, ConnectQp, Create, CreateFail, Sync, SyncWrite, SyncWriteFail, SyncWriteKilled,
     SyncRead, SyncReset, ModifyToInit, ModifyToRtr, ModifyToRts, Modify, PollFound,
     PollTimeout, PollError, Close
<1>7. \/ Bind \/ Connect \/ ConnectRefused \/ Accept \/ PostReceive \/ SendMsg
      \/ ReadPeer \/ WritePeer \/ Refill \/ (\E p \in Node : Hca(p)) \/ UNCHANGED vars
      => UNCHANGED <<out, rc>>
  BY DEF Bind, Connect, ConnectRefused, Accept, PostReceive, SendMsg, ReadPeer, WritePeer, PostSend,
     Refill, Hca, DeliverSend, DeliverRdma, Complete, RequestFails, vars
<1>8. CASE ClientStep
  BY <1>0, <1>1, <1>2, <1>3, <1>5, <1>6, <1>7, <1>8 DEF ClientStep
<1>9. CASE ServerStep
  BY <1>0, <1>4, <1>5, <1>6, <1>7, <1>9 DEF ServerStep
<1>10. ASSUME NEW p \in Node, PollError(p)
       PROVE  UNCHANGED <<out, rc>>
  BY <1>10 DEF PollError
<1> QED BY <1>7, <1>8, <1>9, <1>10 DEF Next, SyncEof, Terminated

\* Whatever fails, the two processes show and report only what RcExchange allows:
\* the server shows what the client wrote after the client has shown the message
\* and what it read, and a result of 0 is given for that alone (ibv-rc.c:747-847).
THEOREM ExchangeImplemented == Spec => ImplementsExchange
<1>1. Init => Exchange!Init
  BY DEF Init, Exchange!Init, Node, Exchange!Node
<1>2. Earlier /\ DataInv /\ [Next]_vars => [Exchange!Next]_(Exchange!vars)
  BY Maps
<1> QED BY <1>1, <1>2, DataOrder, PTL DEF Spec, ImplementsExchange, Exchange!Spec
-----------------------------------------------------------------------------
(* Without faults nothing fails                                            *)

\* The state of the queue pair at each stage.
StageQp(s) ==
    CASE s \in {"bind", "connect", "accept", "create", "close", "exited"} -> "NONE"
      [] s \in {"C", "init"}   -> "RESET"
      [] s \in {"recv", "rtr"} -> "INIT"
      [] s = "rts"             -> "RTR"
      [] OTHER                 -> "RTS"

\* A process to which nothing has happened: its queue pair is where connect_qp takes
\* it, its socket is closed by its last call, it leaves only after all exchanges, and
\* a poll_completion for its own request has something to wait for.
Fine(p) ==
    /\ pc[p] # "killed" /\ qp[p] = StageQp(pc[p])
    /\ sock[p] = "closed" => pc[p] = "exited"
    /\ pc[p] \in Ended => rc[p] = 0 /\ sent[p] = Total(4) /\ rcvd[p] = Total(4) /\ wr[p] = "none"
    /\ cq[p] # <<>> => Head(cq[p]).ok
    /\ pc[p] \in PollStage /\ (p = Server \/ pc[p] # "poll1") => wr[p] # "none" \/ cq[p] # <<>>

\* The client's receive waits for the message until the message is there.
Message ==
    /\ pc[Client] # "send"
    /\ pc[Client] \in {"rtr", "rts", "Q", "poll1"} /\ cq[Client] = <<>> => rq[Client] = 1
    /\ rq[Client] = 1 => pc[Server] \in Early \/ Unapplied

AllFine == (\A p \in Node : Fine(p)) /\ Message
Sound == Earlier /\ AlignInv /\ AllFine

\* The totals of the exchanges, and what a running process has sent and received.
LEMMA SoundBytes ==
    ASSUME Sound
    PROVE  /\ Total(0) = 0 /\ Total(1) \in Nat /\ Total(1) > 0 /\ Total(2) = Total(1) + 1
           /\ Total(3) = Total(1) + 2 /\ Total(4) = Total(1) + 3
           /\ \A p \in Node : sent[p] \in Nat /\ rcvd[p] \in Nat /\ pc[p] \in Running \cup Ended
           /\ \A p \in Node : pc[p] \in Running =>
                 /\ rcvd[p] = Total(Phase(pc[p]))
                 /\ ~wrote[p] => sent[p] = Total(Phase(pc[p]))
                 /\ wrote[p] => pc[p] \in SyncStage /\ sent[p] = Total(Phase(pc[p]) + 1)
           /\ rcvd[Client] <= sent[Server] /\ rcvd[Server] <= sent[Client]
<1>1. /\ Total(0) = 0 /\ Total(1) \in Nat /\ Total(1) > 0 /\ Total(2) = Total(1) + 1
      /\ Total(3) = Total(1) + 2 /\ Total(4) = Total(1) + 3
  BY ConSizeAssumption DEF Total
<1>2. \A p \in Node : sent[p] \in Nat /\ rcvd[p] \in Nat /\ pc[p] \in Running \cup Ended
  BY DEF Sound, Earlier, TypeOK
<1>3. ASSUME NEW p \in Node, pc[p] \in Running
      PROVE  /\ rcvd[p] = Total(Phase(pc[p]))
             /\ ~wrote[p] => sent[p] = Total(Phase(pc[p]))
             /\ wrote[p] => pc[p] \in SyncStage /\ sent[p] = Total(Phase(pc[p]) + 1)
  <2>1. /\ sent[p] = Total(Phase(pc[p])) + (IF wrote[p] THEN SyncSize(pc[p]) ELSE 0)
        /\ wrote[p] => pc[p] \in SyncStage
    BY <1>3 DEF Sound, Earlier, SyncInv
  <2>2. Total(Phase(pc[p])) \in Nat
    BY <1>3, TotalProperty
  <2>3. rcvd[p] = Total(Phase(pc[p]))
    BY <1>3 DEF Sound, AlignInv
  <2>4. CASE wrote[p]
    <3>1. pc[p] \in SyncStage /\ sent[p] = Total(Phase(pc[p])) + SyncSize(pc[p])
      BY <2>1, <2>4
    <3> QED BY <2>3, <2>4, <3>1, TotalProperty
  <2>5. CASE ~wrote[p]
    BY <2>1, <2>2, <2>3, <2>5
  <2> QED BY <2>4, <2>5
<1>4. rcvd[Client] <= sent[Server] /\ rcvd[Server] <= sent[Client]
  BY Names DEF Sound, Earlier, SyncInv
<1> QED BY <1>1, <1>2, <1>3, <1>4

\* The stages by their number.
LEMMA Phases ==
    /\ \A s \in Stage0 : Phase(s) = 0
    /\ \A s \in Stage1 : Phase(s) = 1
    /\ \A s \in Stage2 : Phase(s) = 2
    /\ \A s \in Stage3 : Phase(s) = 3
    /\ \A s \in Stage4 : Phase(s) = 4
BY DEF Phase, Stage0, Stage1, Stage2, Stage3, Stage4

\* A process that still has a call of sock_sync_data to complete finds the socket
\* open, or closed by a peer that has read all there is.
LEMMA NobodyGone ==
    ASSUME Sound, NEW p \in Node, pc[p] \in SyncStage, PeerClosed(p)
    PROVE  wrote[p] /\ rcvd[Peer(p)] >= sent[p]
<1> DEFINE q == Peer(p)
<1>1. q \in Node /\ pc[q] = "exited"
  BY PeerProperty DEF Sound, AllFine, Fine, PeerClosed
<1>2. rcvd[q] = Total(4)
  BY <1>1 DEF Sound, AllFine, Fine, Ended
<1>3. pc[p] \in Running /\ Phase(pc[p]) \in 0 .. 3
  BY TotalProperty
<1>4. rcvd[q] <= sent[p]
  BY <1>1, PeerProperty DEF Sound, Earlier, SyncInv
<1>5. sent[p] = Total(Phase(pc[p])) \/ (wrote[p] /\ sent[p] = Total(Phase(pc[p]) + 1))
  BY <1>3, SoundBytes
<1>6. /\ Total(0) < Total(4) /\ Total(1) < Total(4) /\ Total(2) < Total(4) /\ Total(3) < Total(4)
      /\ \A k \in 0 .. 4 : Total(k) \in Nat /\ Total(k) <= Total(4)
  BY ConSizeAssumption DEF Total
<1>7. sent[p] <= Total(4) /\ (~wrote[p] => sent[p] < Total(4))
  BY <1>3, <1>5, <1>6
<1>8. sent[p] \in Nat /\ Total(4) \in Nat
  BY <1>6, SoundBytes
<1> QED BY <1>2, <1>4, <1>7, <1>8

\* No call of sock_sync_data finds its socket reset.
LEMMA ExchangesComplete ==
    ASSUME Sound, NEW p \in Node
    PROVE  ~SyncWriteFail(p) /\ ~SyncWriteKilled(p) /\ ~SyncReset(p)
<1>1. ~SyncWriteFail(p) /\ ~SyncWriteKilled(p)
  BY NobodyGone DEF SyncWriteFail, SyncWriteKilled
<1>2. ~SyncReset(p)
  <2> SUFFICES ASSUME SyncReset(p) PROVE FALSE
    OBVIOUS
  <2>1. rcvd[Peer(p)] < sent[p] /\ rcvd[Peer(p)] >= sent[p]
    BY NobodyGone DEF SyncReset
  <2>2. rcvd[Peer(p)] \in Nat /\ sent[p] \in Nat
    BY PeerProperty, SoundBytes
  <2> QED BY <2>1, <2>2
<1> QED BY <1>1, <1>2

\* While the server's message is on its way the client is ready for it.
LEMMA MessageAwaited ==
    ASSUME Sound, Unapplied
    PROVE  pc[Client] \in {"Q", "poll1"} /\ rq[Client] = 1 /\ qp[Client] = "RTS"
<1>1. pc[Server] = "poll1"
  BY Names DEF Sound, Earlier, AllFine, Fine, QuietInv, Unapplied, Queue, Idle, Waiting, PollStage,
     Foreign, Ended
<1>2. pc[Server] \in Running /\ Phase(pc[Server]) = 2 /\ pc[Server] \notin SyncStage
  BY <1>1, Phases DEF Running, Stage2, SyncStage
<1>3. rcvd[Server] = Total(2) /\ sent[Server] = Total(2)
  BY <1>2, SoundBytes, Names DEF Sound
<1>4. sent[Client] >= Total(2) /\ rcvd[Client] <= Total(2)
  BY <1>3, SoundBytes
<1>5. ~Received
  BY DEF Sound, Earlier, QuietInv
<1>6. pc[Client] \notin Ended
  BY <1>4, SoundBytes, Names DEF Sound, AllFine, Fine
<1>7. pc[Client] \in Running /\ pc[Client] \notin Later
  BY <1>5, <1>6, SoundBytes, Names DEF Sound, Received
<1>8. pc[Client] \notin Stage0
  BY <1>4, <1>7, SoundBytes, Phases, Names DEF Sound
<1>9. pc[Client] \in Stage1 => wrote[Client] /\ pc[Client] = "Q"
  BY <1>4, <1>7, SoundBytes, Phases, Names DEF Sound, SyncStage, Stage1
<1>10. pc[Client] \in Stage2 \cup Stage3 \cup Stage4 => pc[Client] = "poll1"
  BY <1>7 DEF Later, Stage2, Stage3, Stage4, Sound, AllFine, Message
<1>11. pc[Client] \in {"Q", "poll1"}
  BY <1>7, <1>8, <1>9, <1>10 DEF Running
<1>12. cq[Client] = <<>>
  BY <1>5, <1>11 DEF Received
<1> QED BY <1>11, <1>12, Names DEF Sound, AllFine, Message, Fine, StageQp

\* No request fails: the other side is there and has what it takes.
LEMMA RequestsServed ==
    ASSUME Faults = {}, Sound, NEW p \in Node
    PROVE  ~RequestFails(p)
<1> SUFFICES ASSUME RequestFails(p) PROVE FALSE
  OBVIOUS
<1>1. /\ wr[p] # "none" /\ ~applied[p]
      /\ ~Responds(Peer(p)) \/ (wr[p] = "SEND" /\ rq[Peer(p)] = 0)
  BY DEF RequestFails
<1>2. CASE p = Server
  BY <1>1, <1>2, MessageAwaited, Names DEF Sound, Unapplied, Responds
<1>3. CASE p = Client
  <2>1. wr[Client] # "SEND" /\ ~Responds(Server)
    BY <1>1, <1>3, Names DEF Sound, Queue
  <2>2. rcvd[Client] >= Total(3) /\ sent[Client] = Total(3)
    BY <1>1, <1>3 DEF Sound, Earlier, QuietInv
  <2>3. sent[Server] >= Total(3) /\ rcvd[Server] <= Total(3)
    BY <2>2, SoundBytes, Names DEF Sound
  <2>4. pc[Server] \in Running
    BY <2>3, SoundBytes, Names DEF Sound, AllFine, Fine
  <2>5. pc[Server] \notin Stage0 \cup Stage1
    BY <2>3, <2>4, SoundBytes, Phases, Names DEF Sound
  <2>6. qp[Server] = "RTS"
    BY <2>4, <2>5, Names DEF Sound, AllFine, Fine, StageQp, Running, Stage0, Stage1, Stage2, Stage3, Stage4
  <2> QED BY <2>1, <2>6 DEF Responds
<1> QED BY <1>2, <1>3 DEF Node

\* Nobody waits for a completion that will not come.
LEMMA NoTimeout ==
    ASSUME Faults = {}, Sound, NEW p \in Node
    PROVE  ~PollTimeout(p)
<1> SUFFICES ASSUME PollTimeout(p) PROVE FALSE
  OBVIOUS
<1>1. pc[p] \in PollStage /\ cq[p] = <<>> /\ wr[p] = "none" /\ wr[Peer(p)] = "none" /\ Stalled(Peer(p))
  BY DEF PollTimeout
<1>2. p = Client /\ pc[Client] = "poll1"
  BY <1>1 DEF Sound, AllFine, Fine, Node
<1>3. pc[Server] \in Early
  BY <1>1, <1>2, Names DEF Sound, AllFine, Message, Unapplied
<1>4. pc[Client] \in Running /\ Phase(pc[Client]) = 2 /\ pc[Client] \notin SyncStage
  BY <1>2, Phases DEF Running, Stage2, SyncStage
<1>5. rcvd[Client] = Total(2) /\ sent[Client] = Total(2) /\ sent[Server] >= Total(2)
  BY <1>4, SoundBytes, Names DEF Sound
<1>6. pc[Server] \in Running /\ pc[Server] \notin Ended /\ pc[Server] # "exited"
  BY <1>3 DEF Early, Running, Ended, Stage0, Stage1, Stage2
<1>7. pc[Server] \in SyncStage /\ wrote[Server] /\ Avail(Server) = 0
  BY <1>1, <1>2, <1>6, Names DEF Sound, Stalled, AllFine, Fine
<1>8. pc[Server] \in {"C", "Q"}
  BY <1>3, <1>7 DEF Early, SyncStage, Stage0, Stage1
<1>9. rcvd[Server] \in {Total(0), Total(1)}
  BY <1>6, <1>8, SoundBytes, Phases, Names DEF Sound, Stage0, Stage1
<1>10. Avail(Server) > 0
  BY <1>5, <1>9, SoundBytes, Names DEF Sound, Avail
<1> QED BY <1>7, <1>10

\* A process that a step leaves alone.
LEMMA FineKept ==
    ASSUME NEW p \in Node, Fine(p), pc'[p] = pc[p],
           UNCHANGED <<qp[p], sock[p], rc[p], sent[p], rcvd[p], wr[p], cq[p]>>
    PROVE  Fine(p)'
BY DEF Fine

\* The step of a process from one stage to another in which no call fails.
LEMMA FineMoves ==
    ASSUME NEW p \in Node, Fine(p), pc'[p] \in Running, qp'[p] = StageQp(pc'[p]),
           pc[p] \in Running, UNCHANGED sock[p], cq'[p] \in {cq[p], <<>>},
           pc'[p] \in PollStage /\ (p = Server \/ pc'[p] # "poll1") => wr'[p] # "none"
    PROVE  Fine(p)'
BY Disjoint DEF Fine, Running, Ended, Stage0, Stage1, Stage2, Stage3, Stage4

\* What a step of code both sides run leaves alone.
LEMMA BothFrame ==
    ASSUME Sound, NEW p \in Node, Both(p), NEW r \in Node \ {p}
    PROVE  /\ pc'[r] = pc[r]
           /\ UNCHANGED <<qp[r], sock[r], rc[r], sent[r], rcvd[r], wr[r], applied[r], cq[r], rq[r]>>
<1>1. TypeOK
  BY DEF Sound, Earlier
<1>2. CASE Create(p) \/ CreateFail(p) \/ Finish(p) \/ Destroy(p) \/ Close(p)
  BY <1>1, <1>2 DEF Create, CreateFail, Finish, Destroy, Close, Goto, Fail, TypeOK, tcp, hca
<1>3. CASE Sync(p)
  BY <1>1, <1>3 DEF Sync, SyncWrite, SyncWriteFail, SyncWriteKilled, SyncRead, Take, SyncReset,
     Goto, Fail, TypeOK, tcp, hca
<1>4. CASE ModifyToInit(p) \/ ModifyToRtr(p) \/ ModifyToRts(p)
  BY <1>1, <1>4 DEF ModifyToInit, ModifyToRtr, ModifyToRts, Modify, Goto, Fail, TypeOK, tcp
<1>5. CASE PollFound(p) \/ PollTimeout(p)
  BY <1>1, <1>5 DEF PollFound, PollTimeout, Goto, Fail, TypeOK, tcp, hca
<1> QED BY <1>2, <1>3, <1>4, <1>5 DEF Both, ConnectQp

\* Without faults no call of the code both sides run takes an error path.
LEMMA BothFine ==
    ASSUME Faults = {}, Sound, NEW p \in Node, Both(p)
    PROVE  Fine(p)'
<1>0. Fine(p) /\ TypeOK /\ Queue(p)
  BY DEF Sound, AllFine, Earlier, QueueInv
<1> USE <1>0 DEF Goto, TypeOK
<1>1. CASE Create(p)
  <2>1. pc[p] = "create" /\ pc'[p] = "C" /\ qp'[p] = "RESET" /\ UNCHANGED <<sock, cq>>
    BY <1>1 DEF Create, tcp
  <2> QED BY <2>1, FineMoves DEF StageQp, Running, Stage0, PollStage
<1>2. ~CreateFail(p) /\ ~PollTimeout(p)
  BY NoTimeout DEF CreateFail
<1>3. ~SyncWriteFail(p) /\ ~SyncWriteKilled(p) /\ ~SyncReset(p)
  BY ExchangesComplete
<1>4. CASE SyncWrite(p)
  <2>1. pc[p] \in SyncStage /\ UNCHANGED <<pc, sock, qp, cq>>
    BY <1>4 DEF SyncWrite, hca
  <2>2. pc[p] \in Running /\ pc[p] \notin PollStage
    BY <2>1, TotalProperty DEF SyncStage, PollStage
  <2>3. qp'[p] = StageQp(pc'[p])
    BY <2>1 DEF Fine
  <2> QED BY <2>1, <2>2, <2>3, FineMoves
<1>5. CASE SyncRead(p)
  <2>1. pc[p] \in SyncStage /\ UNCHANGED <<sock, qp, cq>>
    BY <1>5 DEF SyncRead, hca
  <2>2. pc'[p] \in {pc[p], AfterSync(p, pc[p])}
    BY <1>5 DEF SyncRead, Take
  <2>3. pc[p] \in Running /\ pc'[p] \in Running
    BY <2>1, <2>2, TotalProperty
  <2>4. StageQp(pc'[p]) = StageQp(pc[p])
    BY <2>1, <2>2 DEF StageQp, AfterSync, SyncStage
  <2>5. pc'[p] \in PollStage => p # Server /\ pc'[p] = "poll1"
    BY <2>1, <2>2 DEF AfterSync, SyncStage, PollStage
  <2>6. qp'[p] = StageQp(pc'[p])
    BY <2>1, <2>4 DEF Fine
  <2> QED BY <2>1, <2>3, <2>5, <2>6, FineMoves
<1>6. CASE ModifyToInit(p)
  <2>1. pc[p] = "init" /\ qp[p] = "RESET"
    BY <1>6 DEF ModifyToInit, Modify, Fine, StageQp
  <2>2. pc'[p] \in {"recv", "rtr"} /\ qp'[p] = "INIT" /\ UNCHANGED <<sock, cq>>
    BY <1>6, <2>1 DEF ModifyToInit, Modify, tcp
  <2> QED BY <2>1, <2>2, FineMoves DEF StageQp, Running, Stage1, PollStage
<1>7. CASE ModifyToRtr(p)
  <2>1. pc[p] = "rtr" /\ qp[p] = "INIT"
    BY <1>7 DEF ModifyToRtr, Modify, Fine, StageQp
  <2>2. pc'[p] = "rts" /\ qp'[p] = "RTR" /\ UNCHANGED <<sock, cq>>
    BY <1>7, <2>1 DEF ModifyToRtr, Modify, tcp
  <2> QED BY <2>1, <2>2, FineMoves DEF StageQp, Running, Stage1, PollStage
<1>8. CASE ModifyToRts(p)
  <2>1. pc[p] = "rts" /\ qp[p] = "RTR"
    BY <1>8 DEF ModifyToRts, Modify, Fine, StageQp
  <2>2. pc'[p] = "Q" /\ qp'[p] = "RTS" /\ UNCHANGED <<sock, cq>>
    BY <1>8, <2>1 DEF ModifyToRts, Modify, tcp
  <2> QED BY <2>1, <2>2, FineMoves DEF StageQp, Running, Stage1, PollStage
<1>9. CASE PollFound(p)
  <2>1. pc[p] \in PollStage /\ cq[p] # <<>> /\ Head(cq[p]).ok /\ UNCHANGED <<sock, qp>>
    BY <1>9 DEF PollFound, Fine, tcp
  <2>2. pc'[p] = AfterPoll(p, pc[p]) /\ cq'[p] = Tail(cq[p])
    BY <1>9, <2>1 DEF PollFound
  <2>3. cq'[p] = <<>>
    BY <2>1, <2>2, OneEntry DEF Queue
  <2>4. pc[p] \in Running /\ pc'[p] \in Running /\ pc'[p] \notin PollStage
    BY <2>1, <2>2 DEF AfterPoll, PollStage, Running, Stage2, Stage3
  <2>5. qp'[p] = StageQp(pc'[p])
    BY <2>1, <2>2 DEF AfterPoll, PollStage, Fine, StageQp
  <2> QED BY <2>1, <2>3, <2>4, <2>5, FineMoves
<1>10. CASE Finish(p)
  <2>1. pc[p] = "finish" /\ pc'[p] = "destroy" /\ rc'[p] = 0 /\ UNCHANGED <<sock, sent, rcvd, qp, wr, cq>>
    BY <1>10 DEF Finish, tcp, hca
  <2>2. pc[p] \in Running /\ Phase(pc[p]) = 4 /\ pc[p] \notin SyncStage
    BY <2>1, Phases DEF Running, Stage4, SyncStage
  <2>3. sent[p] = Total(4) /\ rcvd[p] = Total(4)
    BY <2>2, SoundBytes
  <2>4. wr[p] = "none" /\ cq[p] = <<>>
    BY <2>1 DEF Queue, Idle, Waiting, PollStage
  <2>5. qp[p] = "RTS" /\ sock[p] # "closed"
    BY <2>1 DEF Fine, StageQp
  <2> QED BY <2>1, <2>3, <2>4, <2>5 DEF Fine, StageQp, Ended, PollStage
<1>11. CASE Destroy(p)
  <2>1. /\ pc[p] = "destroy" /\ pc'[p] = "close" /\ qp'[p] = "NONE" /\ wr'[p] = "none" /\ cq'[p] = <<>>
        /\ UNCHANGED <<rc, sock, sent, rcvd>>
    BY <1>11 DEF Destroy, tcp
  <2> QED BY <2>1 DEF Fine, StageQp, Ended, PollStage
<1>12. CASE Close(p)
  <2>1. pc[p] = "close" /\ pc'[p] = "exited" /\ UNCHANGED <<rc, sent, rcvd, qp, wr, cq>>
    BY <1>12 DEF Close, hca
  <2> QED BY <2>1 DEF Fine, StageQp, Ended, PollStage
<1> QED BY <1>1, <1>2, <1>3, <1>4, <1>5, <1>6, <1>7, <1>8, <1>9, <1>10, <1>11, <1>12 DEF Both, ConnectQp, Sync

\* The server's message is not sent yet, or on its way, as long as the receive is there.
LEMMA ServerMessage ==
    ASSUME Faults = {}, Sound, Both(Server)
    PROVE  pc[Server] \in Early \/ Unapplied => pc'[Server] \in Early \/ Unapplied'
<1>0. TypeOK /\ Server \in Node /\ Fine(Server) /\ Queue(Server) /\ pc[Server] \notin Foreign
  BY Names DEF Sound, AllFine, Earlier, QuietInv
<1> USE <1>0 DEF Goto, TypeOK
<1>1. ~Unapplied
  <2> SUFFICES ASSUME Unapplied PROVE FALSE
    OBVIOUS
  <2>1. wr[Server] # "none" /\ cq[Server] = <<>> /\ pc[Server] \in Waiting(Server)
    BY DEF Unapplied, Queue, Idle
  <2>2. pc[Server] = "poll1"
    BY <2>1, Names DEF Sound, Waiting, PollStage, Foreign, Fine, Ended
  <2>3. ~PollFound(Server) /\ ~PollTimeout(Server)
    BY <2>1, NoTimeout DEF PollFound
  <2> QED BY <2>2, <2>3 DEF Both, ConnectQp, Create, CreateFail, Sync, SyncWrite, SyncWriteFail,
       SyncWriteKilled, SyncRead, SyncReset, SyncStage, ModifyToInit, ModifyToRtr, ModifyToRts, Modify,
       Finish, Destroy, Close
<1>2. Fine(Server)'
  BY BothFine
<1>3. ASSUME pc[Server] \in Early PROVE pc'[Server] \in Early
  <2>1. CASE Create(Server)
    BY <2>1 DEF Create, Early, Stage0
  <2>2. ~CreateFail(Server) /\ ~PollTimeout(Server)
    BY NoTimeout DEF CreateFail
  <2>3. ~SyncWriteFail(Server) /\ ~SyncWriteKilled(Server) /\ ~SyncReset(Server)
    BY ExchangesComplete
  <2>4. CASE SyncWrite(Server)
    BY <1>3, <2>4 DEF SyncWrite
  <2>5. CASE SyncRead(Server)
    <3>1. pc[Server] \in {"C", "Q"}
      BY <1>3, <2>5 DEF SyncRead, SyncStage, Early, Stage0, Stage1
    <3>2. pc'[Server] \in {pc[Server], AfterSync(Server, pc[Server])}
      BY <2>5 DEF SyncRead, Take
    <3> QED BY <1>3, <3>1, <3>2 DEF AfterSync, Early, Stage1
  <2>6. CASE ModifyToInit(Server)
    BY <2>6, Names DEF Sound, ModifyToInit, Modify, Fine, StageQp, Early, Stage1
  <2>7. CASE ModifyToRtr(Server)
    BY <2>7 DEF ModifyToRtr, Modify, Fine, StageQp, Early, Stage1
  <2>8. CASE ModifyToRts(Server)
    BY <2>8 DEF ModifyToRts, Modify, Fine, StageQp, Early, Stage1
  <2>9. ~PollFound(Server) /\ ~Finish(Server) /\ ~Destroy(Server) /\ ~Close(Server)
    BY <1>3 DEF PollFound, PollStage, Finish, Destroy, Close, Early, Stage0, Stage1
  <2> QED BY <2>1, <2>2, <2>3, <2>4, <2>5, <2>6, <2>7, <2>8, <2>9 DEF Both, ConnectQp, Sync
<1> QED BY <1>1, <1>3

\* The client's receive waits.
LEMMA ClientMessage ==
    ASSUME Faults = {}, Sound, Both(Client)
    PROVE  /\ pc'[Client] # "send"
           /\ pc'[Client] \in {"rtr", "rts", "Q", "poll1"} /\ cq'[Client] = <<>> => rq'[Client] = 1
           /\ rq'[Client] \in {0, rq[Client]}
<1>0. TypeOK /\ Client \in Node /\ Client # Server /\ Fine(Client) /\ Queue(Client) /\ Message
  BY Names DEF Sound, AllFine, Earlier
<1> USE <1>0 DEF Goto, Fail, TypeOK
<1>1. CASE Create(Client) \/ CreateFail(Client) \/ SyncWriteFail(Client) \/ SyncWriteKilled(Client)
           \/ SyncReset(Client) \/ PollTimeout(Client) \/ Finish(Client) \/ Destroy(Client) \/ Close(Client)
  <2>1. pc'[Client] \in {"C", "destroy", "killed", "close", "exited"}
    BY <1>1 DEF Create, CreateFail, SyncWriteFail, SyncWriteKilled, SyncReset, PollTimeout, Finish, Destroy, Close
  <2>2. rq'[Client] \in {0, rq[Client]}
    BY <1>1 DEF Create, CreateFail, SyncWriteFail, SyncWriteKilled, SyncReset, PollTimeout, Finish, Destroy, Close, hca
  <2> QED BY <2>1, <2>2
<1>2. CASE SyncWrite(Client)
  <2>1. UNCHANGED <<pc, cq, rq>>
    BY <1>2 DEF SyncWrite, hca
  <2> QED BY <2>1 DEF Message
<1>3. CASE SyncRead(Client)
  <2>1. pc[Client] \in SyncStage /\ UNCHANGED <<cq, rq>>
    BY <1>3 DEF SyncRead, hca
  <2>2. pc'[Client] \in {pc[Client], AfterSync(Client, pc[Client])}
    BY <1>3 DEF SyncRead, Take
  <2>3. /\ AfterSync(Client, pc[Client]) # "send"
        /\ AfterSync(Client, pc[Client]) \in {"rtr", "rts", "Q", "poll1"} => pc[Client] = "Q"
    BY <2>1 DEF AfterSync, SyncStage
  <2> QED BY <2>1, <2>2, <2>3 DEF Message
<1>4. CASE ModifyToInit(Client)
  <2>1. pc'[Client] \in {"recv", "destroy"} /\ UNCHANGED <<cq, rq>>
    BY <1>4 DEF ModifyToInit, Modify
  <2> QED BY <2>1
<1>5. CASE ModifyToRtr(Client) \/ ModifyToRts(Client)
  <2>1. /\ pc[Client] \in {"rtr", "rts"} /\ UNCHANGED <<cq, rq>>
        /\ pc'[Client] \in {"rts", "Q", "destroy"}
    BY <1>5 DEF ModifyToRtr, ModifyToRts, Modify
  <2> QED BY <2>1 DEF Message
<1>6. CASE PollFound(Client)
  <2>1. pc'[Client] \in {"show1", "show2", "W", "destroy"} /\ UNCHANGED rq
    BY <1>6 DEF PollFound, AfterPoll
  <2> QED BY <2>1
<1> QED BY <1>1, <1>2, <1>3, <1>4, <1>5, <1>6 DEF Both, ConnectQp, Sync

\* The steps both processes take.
LEMMA BothAllFine ==
    ASSUME Faults = {}, Sound, NEW p \in Node, Both(p)
    PROVE  AllFine'
<1>1. ASSUME NEW r \in Node PROVE Fine(r)'
  <2>1. CASE r = p
    BY <2>1, BothFine
  <2>2. CASE r # p
    <3>1. Fine(r)
      BY DEF Sound, AllFine
    <3> QED BY <2>2, <3>1, BothFrame, FineKept
  <2> QED BY <2>1, <2>2
<1>2. CASE p = Server
  <2>1. pc'[Client] = pc[Client] /\ cq'[Client] = cq[Client] /\ rq'[Client] = rq[Client]
    BY <1>2, BothFrame, Names DEF Sound
  <2>2. pc[Server] \in Early \/ Unapplied => pc'[Server] \in Early \/ Unapplied'
    BY <1>2, ServerMessage
  <2>3. Message'
    BY <2>1, <2>2 DEF Sound, AllFine, Message
  <2> QED BY <1>1, <2>3 DEF AllFine
<1>3. CASE p = Client
  <2>1. pc'[Server] = pc[Server] /\ wr'[Server] = wr[Server] /\ applied'[Server] = applied[Server]
    BY <1>3, BothFrame, Names DEF Sound
  <2>2. /\ pc'[Client] # "send"
        /\ pc'[Client] \in {"rtr", "rts", "Q", "poll1"} /\ cq'[Client] = <<>> => rq'[Client] = 1
        /\ rq'[Client] \in {0, rq[Client]}
    BY <1>3, ClientMessage
  <2>3. rq'[Client] = 1 => rq[Client] = 1
    BY <2>2
  <2>4. Message'
    BY <2>1, <2>2, <2>3 DEF Sound, AllFine, Message, Unapplied
  <2> QED BY <1>1, <2>4 DEF AllFine
<1> QED BY <1>2, <1>3 DEF Node

\* The steps only one of the processes takes.
LEMMA OneSideAllFine ==
    ASSUME Faults = {}, Sound,
           \/ Bind \/ Connect \/ ConnectRefused \/ Accept \/ PostReceive \/ SendMsg
           \/ ReadPeer \/ WritePeer \/ ShowMessage \/ Refill \/ ShowAndReplace
    PROVE  AllFine'
<1>0. /\ TypeOK /\ Client \in Node /\ Server \in Node /\ Client # Server
      /\ Fine(Client) /\ Fine(Server) /\ Queue(Client) /\ Queue(Server) /\ Message
  BY Names DEF Sound, AllFine, Earlier
<1>a. Fine(Client)' /\ Fine(Server)' /\ Message' => AllFine'
  BY DEF AllFine, Node
<1> USE <1>0 DEF Goto, Fail, TypeOK
<1>1. CASE Bind \/ Accept
  <2>1. /\ pc[Server] \in {"bind", "accept"} /\ pc'[Server] \in {"accept", "create"} /\ pc'[Client] = pc[Client]
        /\ UNCHANGED <<qp, sock, rc, sent, rcvd, wr, applied, cq, rq>>
    BY <1>1 DEF Bind, Accept, Refused, NoSocket, tcp, hca
  <2>2. qp'[Server] = StageQp(pc'[Server])
    BY <2>1 DEF Fine, StageQp
  <2>3. Fine(Server)'
    BY <2>1, <2>2, FineMoves DEF Running, Stage0, PollStage
  <2>4. Fine(Client)'
    BY <2>1, FineKept
  <2>5. Message'
    BY <2>1 DEF Message, Early, Stage0, Unapplied
  <2> QED BY <1>a, <2>3, <2>4, <2>5
<1>2. CASE Connect
  <2>1. /\ pc[Client] = "connect" /\ pc[Server] = "accept" /\ pc'[Client] = "create" /\ pc'[Server] = "accept"
        /\ \A p \in Node : sock'[p] = "open"
        /\ UNCHANGED <<qp, rc, sent, rcvd, wr, applied, cq, rq>>
    BY <1>2 DEF Connect, hca
  <2>2. Fine(Client)' /\ Fine(Server)'
    BY <2>1 DEF Fine, StageQp, Ended, PollStage
  <2>3. Message'
    BY <2>1 DEF Message, Unapplied
  <2> QED BY <1>a, <2>2, <2>3
<1>3. ~ConnectRefused
  BY DEF ConnectRefused, Refused, NoSocket
<1>4. CASE PostReceive
  <2>1. pc[Client] = "recv" /\ qp[Client] = "INIT"
    BY <1>4 DEF PostReceive, Fine, StageQp
  <2>2. /\ pc'[Client] = "rtr" /\ pc'[Server] = pc[Server] /\ rq'[Client] = 1
        /\ UNCHANGED <<qp, sock, rc, sent, rcvd, wr, applied, cq>>
    BY <1>4, <2>1 DEF PostReceive, tcp
  <2>3. Fine(Client)'
    BY <2>1, <2>2, FineMoves DEF StageQp, Running, Stage1, PollStage
  <2>4. Fine(Server)'
    BY <2>2, FineKept
  <2>5. pc[Client] \in Running /\ Phase(pc[Client]) = 1 /\ pc[Client] \notin SyncStage
    BY <2>1, Phases DEF Running, Stage1, SyncStage
  <2>6. rcvd[Server] <= Total(1)
    BY <2>5, SoundBytes
  <2>7. pc[Server] \in Running
    BY <2>6, SoundBytes DEF Fine
  <2>8. pc[Server] \in Stage0 \cup Stage1
    <3>1. rcvd[Server] = Total(Phase(pc[Server]))
      BY <2>7, SoundBytes
    <3>2. Total(1) < Total(2) /\ Total(1) < Total(3) /\ Total(1) < Total(4)
      BY ConSizeAssumption DEF Total
    <3>3. pc[Server] \notin Stage2 \cup Stage3 \cup Stage4
      BY SMTT(25), <2>6, <3>1, <3>2, SoundBytes, Phases
    <3> QED BY <2>7, <3>3 DEF Running
  <2>9. Message'
    BY <2>2, <2>8 DEF Message, Early
  <2> QED BY <1>a, <2>3, <2>4, <2>9
<1>5. CASE SendMsg
  <2>1. pc[Server] = "send" /\ qp[Server] = "RTS" /\ wr[Server] = "none"
    BY <1>5 DEF SendMsg, PostSend, Fine, StageQp, Queue, Idle, Waiting, PollStage
  <2>2. /\ pc'[Server] = "poll1" /\ pc'[Client] = pc[Client] /\ wr'[Server] = "SEND" /\ ~applied'[Server]
        /\ wr'[Client] = wr[Client] /\ UNCHANGED <<qp, sock, rc, sent, rcvd, cq, rq>>
    BY <1>5, <2>1 DEF SendMsg, PostSend, tcp
  <2>3. Fine(Server)'
    BY <2>1, <2>2, FineMoves DEF StageQp, Running, Stage2, PollStage
  <2>4. Fine(Client)'
    BY <2>2, FineKept
  <2>5. Message'
    BY <2>2 DEF Message, Unapplied
  <2> QED BY <1>a, <2>3, <2>4, <2>5
<1>6. CASE ReadPeer \/ WritePeer
  <2>1. pc[Client] \in {"read", "write"} /\ qp[Client] = "RTS" /\ wr[Client] = "none"
    BY <1>6 DEF ReadPeer, WritePeer, PostSend, Fine, StageQp, Queue, Idle, Waiting, PollStage
  <2>2. /\ pc'[Client] \in {"poll2", "poll3"} /\ pc'[Server] = pc[Server] /\ wr'[Client] \in {"READ", "WRITE"}
        /\ wr'[Server] = wr[Server] /\ applied'[Server] = applied[Server]
        /\ UNCHANGED <<qp, sock, rc, sent, rcvd, cq, rq>>
    BY <1>6, <2>1 DEF ReadPeer, WritePeer, PostSend, tcp
  <2>3. Fine(Client)'
    BY <2>1, <2>2, FineMoves DEF StageQp, Running, Stage3, PollStage
  <2>4. Fine(Server)'
    BY <2>2, FineKept
  <2>5. Message'
    BY <2>2 DEF Message, Unapplied
  <2> QED BY <1>a, <2>3, <2>4, <2>5
<1>7. CASE ShowMessage \/ ShowAndReplace
  <2>1. /\ pc[Client] \in {"show1", "show2"} /\ pc'[Client] \in {"R", "write"} /\ pc'[Server] = pc[Server]
        /\ UNCHANGED <<qp, sock, rc, sent, rcvd, wr, applied, cq, rq>>
    BY <1>7 DEF ShowMessage, ShowAndReplace, tcp, hca
  <2>2. qp'[Client] = StageQp(pc'[Client])
    BY <2>1 DEF Fine, StageQp
  <2>3. Fine(Client)'
    BY <2>1, <2>2, FineMoves DEF Running, Stage2, Stage3, PollStage
  <2>4. Fine(Server)'
    BY <2>1, FineKept
  <2>5. Message'
    BY <2>1 DEF Message, Unapplied
  <2> QED BY <1>a, <2>3, <2>4, <2>5
<1>8. CASE Refill
  <2>1. /\ pc[Server] = "refill" /\ pc'[Server] = "R" /\ pc'[Client] = pc[Client]
        /\ UNCHANGED <<qp, sock, rc, sent, rcvd, wr, applied, cq, rq>>
    BY <1>8 DEF Refill, tcp, hca
  <2>2. qp'[Server] = StageQp(pc'[Server])
    BY <2>1 DEF Fine, StageQp
  <2>3. Fine(Server)'
    BY <2>1, <2>2, FineMoves DEF Running, Stage2, PollStage
  <2>4. Fine(Client)'
    BY <2>1, FineKept
  <2>5. Message'
    BY <2>1 DEF Message, Early, Stage0, Stage1, Unapplied
  <2> QED BY <1>a, <2>3, <2>4, <2>5
<1> QED BY <1>1, <1>2, <1>3, <1>4, <1>5, <1>6, <1>7, <1>8

\* The steps of the adapters.
LEMMA HcaAllFine ==
    ASSUME Faults = {}, Sound, NEW p \in Node, Hca(p)
    PROVE  AllFine'
<1>0. /\ TypeOK /\ Client \in Node /\ Server \in Node /\ Client # Server
      /\ Peer(Client) = Server /\ Peer(Server) = Client
      /\ Fine(Client) /\ Fine(Server) /\ Queue(Client) /\ Queue(Server) /\ Message
  BY Names DEF Sound, AllFine, Earlier
<1>a. Fine(Client)' /\ Fine(Server)' /\ Message' => AllFine'
  BY DEF AllFine, Node
<1> USE <1>0 DEF TypeOK
<1>1. CASE DeliverSend(p)
  <2> DEFINE w == [op |-> "RECV", ok |-> TRUE]
  <2>1. p = Server /\ rq[Client] = 1
    BY <1>1 DEF DeliverSend, Queue, Node
  <2>2. cq[Client] = <<>>
    BY <2>1 DEF Queue
  <2>3. /\ cq'[Client] = Append(<<>>, w) /\ rq'[Client] = 0 /\ cq'[Server] = cq[Server]
        /\ UNCHANGED <<pc, qp, sock, rc, sent, rcvd, wr>>
    BY <1>1, <2>1, <2>2 DEF DeliverSend, tcp
  <2>4. cq'[Client] # <<>> /\ Head(cq'[Client]).ok
    BY <2>3, OneEntry DEF Wc
  <2>5. Fine(Client)'
    BY <2>3, <2>4 DEF Fine
  <2>6. Fine(Server)'
    BY <2>3, FineKept
  <2>7. Message'
    BY <2>3, <2>4 DEF Message
  <2> QED BY <1>a, <2>5, <2>6, <2>7
<1>2. CASE DeliverRdma(p)
  <2>1. p = Client
    BY <1>2 DEF DeliverRdma, Queue, Node
  <2>2. applied'[Server] = applied[Server] /\ UNCHANGED <<pc, qp, sock, rc, sent, rcvd, wr, cq, rq>>
    BY <1>2, <2>1 DEF DeliverRdma, tcp
  <2>3. Fine(Client)' /\ Fine(Server)'
    BY <2>2, FineKept
  <2>4. Message'
    BY <2>2 DEF Message, Unapplied
  <2> QED BY <1>a, <2>3, <2>4
<1>3. CASE Complete(p)
  <2> DEFINE w == [op |-> wr[p], ok |-> TRUE]
  <2>1. wr[p] # "none" /\ applied[p] /\ cq[p] = <<>> /\ w \in Wc /\ Fine(p) /\ Queue(p)
    BY <1>3 DEF Complete, Queue, Node, Wc
  <2>2. /\ cq'[p] = Append(<<>>, w) /\ wr'[p] = "none"
        /\ \A r \in Node \ {p} : cq'[r] = cq[r] /\ wr'[r] = wr[r] /\ applied'[r] = applied[r]
        /\ UNCHANGED <<pc, qp, sock, rc, sent, rcvd, rq>>
    BY <1>3, <2>1 DEF Complete, Retire, tcp
  <2>3. cq'[p] # <<>> /\ Head(cq'[p]).ok
    BY <2>1, <2>2, OneEntry
  <2>4. Fine(p)'
    BY <2>1, <2>2, <2>3 DEF Fine
  <2>5. \A r \in Node \ {p} : Fine(r)'
    BY <2>2, FineKept DEF Node
  <2>6. CASE p = Server
    <3>1. ~Unapplied /\ cq'[Client] = cq[Client]
      BY <2>1, <2>2, <2>6 DEF Unapplied
    <3>2. Message'
      BY <2>2, <3>1 DEF Message
    <3> QED BY <1>a, <2>4, <2>5, <2>6, <3>2
  <2>7. CASE p = Client
    <3>1. Message'
      BY <2>2, <2>3, <2>7 DEF Message, Unapplied
    <3> QED BY <1>a, <2>4, <2>5, <2>7, <3>1
  <2> QED BY <2>6, <2>7 DEF Node
<1>4. ~RequestFails(p)
  BY RequestsServed
<1> QED BY <1>1, <1>2, <1>3, <1>4 DEF Hca

\* Every step keeps what is fine.
LEMMA AllFineStep ==
    ASSUME Faults = {}
    PROVE  Sound /\ [Next]_vars => AllFine'
<1> SUFFICES ASSUME Sound, [Next]_vars PROVE AllFine'
  OBVIOUS
<1>1. CASE UNCHANGED vars
  BY <1>1, FineKept DEF vars, Sound, AllFine, Message, Unapplied
<1>2. CASE ClientStep
  BY <1>2, OneSideAllFine, BothAllFine, Names DEF ClientStep, Sound
<1>3. CASE ServerStep
  BY <1>3, OneSideAllFine, BothAllFine, Names DEF ServerStep, Sound
<1>4. ASSUME NEW p \in Node, Hca(p) \/ PollError(p) PROVE AllFine'
  BY <1>4, HcaAllFine DEF PollError
<1> QED BY <1>1, <1>2, <1>3, <1>4 DEF Next, SyncEof, Terminated

\* No request has failed, and a process that leaves main reports success.
Unharmed == \A p \in Node : qp[p] # "ERR" /\ (pc[p] \in Ended => pc[p] # "killed" /\ rc[p] = 0)

\* Without faults no interleaving of the two processes and their adapters lets a call
\* fail, a request find its responder not ready, or a poll_completion give up: each
\* process that ends has run through all exchanges and reports 0 (ibv-rc.c:725-847).
THEOREM NothingFails ==
    ASSUME Faults = {}
    PROVE  Spec => []Unharmed
<1>1. Init => AllFine
  BY NodeAssumption DEF Init, AllFine, Fine, Message, StageQp, Ended, PollStage, Node
<1>2. "short_read" \notin Faults
  OBVIOUS
<1>3. Sound /\ [Next]_vars => AllFine'
  BY AllFineStep
<1>4. Sound => Unharmed
  BY DEF Sound, AllFine, Fine, StageQp, Unharmed
<1>5. Spec => []AlignInv
  BY <1>2, AlignOrder
<1> QED BY <1>1, <1>3, <1>4, <1>5, TypeCorrect, SyncOrder, QueueOrder, QuietOrder, PTL DEF Spec, Sound, Earlier
=============================================================================
