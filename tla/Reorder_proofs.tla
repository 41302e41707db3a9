--------------------------- MODULE Reorder_proofs ---------------------------
(***************************************************************************)
(* Theorems about Reorder for every number of iterations, as long as the   *)
(* counters of the barriers do not wrap.                                   *)
(***************************************************************************)
EXTENDS Reorder, TLAPS

\* Nothing the counters reach within MaxIter iterations wraps.
NoWrap == 3 * MaxIter + 2 < Word

-----------------------------------------------------------------------------
(* What the steps of the three threads do to Counting                      *)

USE DEF Counting, Waiting, Outer, Inner

\* Counters stay within two of a complete barrier.
LEMMA CountRange ==
    ASSUME NEW m, NEW a, NEW b, NEW c \in Int, NEW d \in Int, Counting(m, a, b, c, d)
    PROVE  c \in 0 .. 5 /\ d \in 0 .. 3
OBVIOUS

\* A thread that adds to start waits in the first loop.
LEMMA CountAddStart ==
    ASSUME NEW m, NEW a, NEW b, NEW c \in Int, NEW d \in Int, Counting(m, a, b, c, d)
    PROVE  /\ m = "addS" => Counting("spinS", a, b, c + 1, d)
           /\ a = "addS" => Counting(m, "spinS", b, c + 1, d)
           /\ b = "addS" => Counting(m, a, "spinS", c + 1, d)
           /\ "addS" \in {m, a, b} => c <= 4
OBVIOUS

\* A thread that adds to end waits in the second loop.
LEMMA CountAddEnd ==
    ASSUME NEW m, NEW a, NEW b, NEW c \in Int, NEW d \in Int, Counting(m, a, b, c, d)
    PROVE  /\ m = "addE" => Counting("spinE", a, b, c, d + 1)
           /\ a = "addE" => Counting(m, "spinE", b, c, d + 1)
           /\ b = "addE" => Counting(m, a, "spinE", c, d + 1)
           /\ "addE" \in {m, a, b} => d <= 2
OBVIOUS

\* The first barrier opens when all three have come.
LEMMA CountSpinStart ==
    ASSUME NEW m, NEW a, NEW b, NEW c \in Int, NEW d \in Int, Counting(m, a, b, c, d),
           c % 3 = 0
    PROVE  /\ m = "spinS" => Counting("addE", a, b, c, d)
           /\ a = "spinS" => Counting(m, "store", b, c, d)
           /\ b = "spinS" => Counting(m, a, "store", c, d)
OBVIOUS

\* The second barrier opens when all three have come.
LEMMA CountSpinEnd ==
    ASSUME NEW m, NEW a, NEW b, NEW c \in Int, NEW d \in Int, Counting(m, a, b, c, d),
           d % 3 = 0
    PROVE  /\ m = "spinE" => Counting("check", a, b, c, d)
           /\ a = "spinE" => Counting(m, "addS", b, c, d)
           /\ b = "spinE" => Counting(m, a, "addS", c, d)
OBVIOUS

\* The steps between the barriers.
LEMMA CountInner ==
    ASSUME NEW m, NEW a, NEW b, NEW c \in Int, NEW d \in Int, Counting(m, a, b, c, d),
           NEW s \in {"fence", "load", "addE"}
    PROVE  /\ m = "resetX" => Counting("resetY", a, b, c, d)
           /\ m = "resetY" => Counting("addS", a, b, c, d)
           /\ m = "check" => Counting("resetX", a, b, c - 3, d - 3)
           /\ a \in {"store", "fence", "load"} => Counting(m, s, b, c, d)
           /\ b \in {"store", "fence", "load"} => Counting(m, a, s, c, d)
OBVIOUS

\* An outer worker and its buffer: what Exclusive asks for.
LEMMA CountExclusive ==
    ASSUME NEW m, NEW a, NEW b, NEW c \in Int, NEW d \in Int, Counting(m, a, b, c, d),
           m \in {"check", "resetX", "resetY", "addS"}
    PROVE  a \in Outer /\ b \in Outer
OBVIOUS

-----------------------------------------------------------------------------
(* The steps of the program                                                *)

\* The shape of the variables the steps below need.
Shape ==
    /\ pc \in [Thread -> Stage]
    /\ sb \in [Thread -> Seq(Entry)]
    /\ start \in Nat /\ end \in Nat /\ iter \in Nat

\* BarrierInv bounds the counters by the iterations.
LEMMA CounterRange ==
    ASSUME NoWrap, Shape, BarrierInv
    PROVE  /\ start - 3 * iter \in 0 .. 5 /\ end - 3 * iter \in 0 .. 3
           /\ pc["main"] # "resetX" => 3 * iter + 5 < Word
           /\ 3 * iter + 2 < Word
<1>1. start - 3 * iter \in Int /\ end - 3 * iter \in Int /\ MaxIter \in Nat /\ Word \in Nat
  BY IterAssumption, WordAssumption DEF Shape
<1>2. start - 3 * iter \in 0 .. 5 /\ end - 3 * iter \in 0 .. 3
  BY <1>1, CountRange DEF BarrierInv, Counters
<1>3. iter \in Nat /\ iter <= MaxIter /\ (pc["main"] # "resetX" => iter < MaxIter)
  BY <1>1 DEF BarrierInv
<1> QED
  BY <1>1, <1>2, <1>3 DEF NoWrap

\* Only the thread that steps moves.
LEMMA GotoMoves ==
    ASSUME Shape, NEW t \in Thread, NEW s \in Stage, Goto(t, s)
    PROVE  /\ pc'[t] = s
           /\ \A r \in Thread : r # t => pc'[r] = pc[r]
           /\ pc' \in [Thread -> Stage]
BY DEF Shape, Goto

\* The stages a thread goes to.
LEMMA Stages ==
    {"resetX", "resetY", "addS", "spinS", "store", "fence", "load", "addE", "spinE", "check"}
      \subseteq Stage
BY DEF Stage

\* Every step of a barrier keeps the count of the waiting threads.
LEMMA SyncCounts ==
    ASSUME NoWrap, Shape, BarrierInv, NEW t \in Thread, Sync(t)
    PROVE  Counters' /\ start' \in Nat /\ end' \in Nat /\ iter' = iter
<1> DEFINE m == pc["main"]
           a == pc["t1"]
           b == pc["t2"]
           c == start - 3 * iter
           d == end - 3 * iter
<1>1. /\ Counting(m, a, b, c, d) /\ c \in Int /\ d \in Int
      /\ start \in Nat /\ end \in Nat /\ iter \in Nat /\ Word \in Nat
      /\ c \in 0 .. 5 /\ d \in 0 .. 3
      /\ m # "resetX" => 3 * iter + 5 < Word
      /\ 3 * iter + 2 < Word
  BY CounterRange, WordAssumption DEF Shape, BarrierInv, Counters
<1>2. t \in {"main", "t1", "t2"} /\ "main" \in Thread /\ "t1" \in Thread /\ "t2" \in Thread
  BY DEF Thread
<1>3. CASE AddStart(t)
  <2>1. pc[t] = "addS" /\ Goto(t, "spinS") /\ start' = Add(start) /\ UNCHANGED <<end, iter>>
    BY <1>3 DEF AddStart
  <2>2. c <= 4 /\ (m = "resetX" => c <= 1)
    BY <1>1, <1>2, <2>1, CountAddStart
  <2>3. start' = start + 1
    BY <1>1, <2>1, <2>2 DEF Add
  <2>4. start' - 3 * iter' = c + 1 /\ end' - 3 * iter' = d
    BY <1>1, <2>1, <2>3
  <2>5. Counting(pc'["main"], pc'["t1"], pc'["t2"], c + 1, d)
    BY <1>1, <1>2, <2>1, GotoMoves, Stages, CountAddStart
  <2> QED
    BY <1>1, <2>1, <2>3, <2>4, <2>5 DEF Counters
<1>4. CASE AddEnd(t)
  <2>1. pc[t] = "addE" /\ Goto(t, "spinE") /\ end' = Add(end) /\ UNCHANGED <<start, iter>>
    BY <1>4 DEF AddEnd
  <2>2. d <= 2
    BY <1>1, <1>2, <2>1, CountAddEnd
  <2>3. m # "resetX"
    BY <1>1, <1>2, <2>1
  <2>4. end' = end + 1
    BY <1>1, <2>1, <2>2, <2>3 DEF Add
  <2>5. end' - 3 * iter' = d + 1 /\ start' - 3 * iter' = c
    BY <1>1, <2>1, <2>4
  <2>6. Counting(pc'["main"], pc'["t1"], pc'["t2"], c, d + 1)
    BY <1>1, <1>2, <2>1, GotoMoves, Stages, CountAddEnd
  <2> QED
    BY <1>1, <2>1, <2>4, <2>5, <2>6 DEF Counters
<1>5. CASE SpinStart(t)
  <2>1. /\ pc[t] = "spinS" /\ Goto(t, IF t = "main" THEN "addE" ELSE "store")
        /\ start % 3 = 0 /\ UNCHANGED <<start, end, iter>>
    BY <1>5 DEF SpinStart, Passes, nthr
  <2>2. c % 3 = 0
    BY <1>1, <2>1
  <2>3. Counting(pc'["main"], pc'["t1"], pc'["t2"], c, d)
    BY <1>1, <1>2, <2>1, <2>2, GotoMoves, Stages, CountSpinStart
  <2> QED
    BY <1>1, <2>1, <2>3 DEF Counters
<1>6. CASE SpinEnd(t)
  <2>1. /\ pc[t] = "spinE" /\ Goto(t, IF t = "main" THEN "check" ELSE "addS")
        /\ end % 3 = 0 /\ UNCHANGED <<start, end, iter>>
    BY <1>6 DEF SpinEnd, Passes, nthr
  <2>2. d % 3 = 0
    BY <1>1, <2>1
  <2>3. Counting(pc'["main"], pc'["t1"], pc'["t2"], c, d)
    BY <1>1, <1>2, <2>1, <2>2, GotoMoves, Stages, CountSpinEnd
  <2> QED
    BY <1>1, <2>1, <2>3 DEF Counters
<1> QED
  BY <1>3, <1>4, <1>5, <1>6 DEF Sync

\* So do the steps between the barriers.
LEMMA InnerCounts ==
    ASSUME Shape, BarrierInv,
           ResetX \/ ResetY \/ Check \/ (\E t \in Worker : Store(t) \/ MemoryFence(t) \/ Load(t))
    PROVE  Counters' /\ UNCHANGED <<start, end>>
<1> DEFINE m == pc["main"]
           a == pc["t1"]
           b == pc["t2"]
           c == start - 3 * iter
           d == end - 3 * iter
<1>1. /\ Counting(m, a, b, c, d) /\ c \in Int /\ d \in Int
      /\ start \in Nat /\ end \in Nat /\ iter \in Nat
  BY DEF Shape, BarrierInv, Counters
<1>2. "main" \in Thread /\ "t1" \in Thread /\ "t2" \in Thread
  BY DEF Thread
<1>3. CASE ResetX
  <2>1. m = "resetX" /\ Goto("main", "resetY") /\ UNCHANGED <<start, end, iter>>
    BY <1>3 DEF ResetX
  <2>2. Counting(pc'["main"], pc'["t1"], pc'["t2"], c, d)
    BY <1>1, <1>2, <2>1, GotoMoves, Stages, CountInner
  <2> QED
    BY <2>1, <2>2 DEF Counters
<1>4. CASE ResetY
  <2>1. m = "resetY" /\ Goto("main", "addS") /\ UNCHANGED <<start, end, iter>>
    BY <1>4 DEF ResetY
  <2>2. Counting(pc'["main"], pc'["t1"], pc'["t2"], c, d)
    BY <1>1, <1>2, <2>1, GotoMoves, Stages, CountInner
  <2> QED
    BY <2>1, <2>2 DEF Counters
<1>5. CASE Check
  <2>1. m = "check" /\ Goto("main", "resetX") /\ UNCHANGED <<start, end>> /\ iter' = iter + 1
    BY <1>5 DEF Check
  <2>2. Counting(pc'["main"], pc'["t1"], pc'["t2"], c - 3, d - 3)
    BY <1>1, <1>2, <2>1, GotoMoves, Stages, CountInner
  <2>3. start' - 3 * iter' = c - 3 /\ end' - 3 * iter' = d - 3
    BY <1>1, <2>1
  <2> QED
    BY <2>1, <2>2, <2>3 DEF Counters
<1>6. ASSUME NEW t \in Worker, Store(t) \/ MemoryFence(t) \/ Load(t)
      PROVE  Counters' /\ UNCHANGED <<start, end>>
  <2>1. PICK s \in {"fence", "load", "addE"} :
          Goto(t, s) /\ pc[t] \in {"store", "fence", "load"} /\ UNCHANGED <<start, end, iter>>
    BY <1>6 DEF Store, MemoryFence, Load
  <2>2. Counting(pc'["main"], pc'["t1"], pc'["t2"], c, d)
    BY <1>1, <1>2, <1>6, <2>1, GotoMoves, Stages, CountInner DEF Worker, Thread
  <2> QED
    BY <2>1, <2>2 DEF Counters
<1> QED
  BY <1>3, <1>4, <1>5, <1>6

-----------------------------------------------------------------------------
(* Buffers and types                                                       *)

\* A store appends an entry to the buffer of the thread.
LEMMA PutBuffer ==
    ASSUME Shape, NEW t \in Thread, NEW v \in Var, NEW x \in {0, 1}, Put(t, v, x)
    PROVE  /\ sb' \in [Thread -> Seq(Entry)]
           /\ Len(sb'[t]) = Len(sb[t]) + 1
           /\ \A r \in Thread : r # t => sb'[r] = sb[r]
<1>1. [var |-> v, val |-> x] \in Entry
  BY DEF Entry
<1>2. sb[t] \in Seq(Entry)
  BY DEF Shape
<1>3. /\ Append(sb[t], [var |-> v, val |-> x]) \in Seq(Entry)
      /\ Len(Append(sb[t], [var |-> v, val |-> x])) = Len(sb[t]) + 1
  BY <1>1, <1>2
<1> QED
  BY <1>3 DEF Put, Shape

\* A flush removes one and writes it to memory.
LEMMA FlushBuffer ==
    ASSUME Shape, mem \in [Var -> {0, 1}], NEW t \in Thread, Flush(t)
    PROVE  /\ sb' \in [Thread -> Seq(Entry)]
           /\ mem' \in [Var -> {0, 1}]
           /\ Len(sb'[t]) = Len(sb[t]) - 1
           /\ \A r \in Thread : r # t => sb'[r] = sb[r]
<1>1. sb[t] \in Seq(Entry) /\ sb[t] # <<>>
  BY DEF Shape, Flush
<1>2. Tail(sb[t]) \in Seq(Entry) /\ Len(Tail(sb[t])) = Len(sb[t]) - 1 /\ Head(sb[t]) \in Entry
  BY <1>1
<1>3. Head(sb[t]).val \in {0, 1} /\ Head(sb[t]).var \in Var
  BY <1>2 DEF Entry
<1> QED
  BY <1>2, <1>3 DEF Flush, Shape

\* The invariant, with the types of the variables.
IInv == Shape /\ mem \in [Var -> {0, 1}] /\ BarrierInv

\* A buffer within its room has an integer length, and an empty one has length 0.
LEMMA RoomProperty ==
    ASSUME Shape, NEW t \in Thread
    PROVE  /\ Len(sb[t]) \in Nat
           /\ sb[t] = <<>> <=> Len(sb[t]) = 0
           /\ \A s \in Stage : Room(t, s) \in 0 .. 2
<1>1. sb[t] \in Seq(Entry)
  BY DEF Shape
<1> QED
  BY <1>1 DEF Room

\* What the steps of a thread keep of the buffers and types.
LEMMA StepBuffers ==
    ASSUME IInv, NEW t \in Thread, Step(t)
    PROVE  /\ Buffers'
           /\ pc' \in [Thread -> Stage] /\ sb' \in [Thread -> Seq(Entry)]
           /\ mem' \in [Var -> {0, 1}]
           /\ \A r \in Thread : r # t => pc'[r] = pc[r] /\ sb'[r] = sb[r]
<1> USE DEF IInv
<1>1. Shape /\ Buffers /\ mem \in [Var -> {0, 1}]
  BY DEF BarrierInv
<1>2. ASSUME NEW s \in Stage, Goto(t, s), UNCHANGED <<mem, sb>>, Len(sb[t]) <= Room(t, s)
      PROVE  /\ Buffers'
             /\ pc' \in [Thread -> Stage] /\ sb' \in [Thread -> Seq(Entry)]
             /\ mem' \in [Var -> {0, 1}]
             /\ \A r \in Thread : r # t => pc'[r] = pc[r] /\ sb'[r] = sb[r]
  <2>1. pc'[t] = s /\ (\A r \in Thread : r # t => pc'[r] = pc[r]) /\ pc' \in [Thread -> Stage]
    BY <1>1, <1>2, GotoMoves
  <2> QED
    BY <1>1, <1>2, <2>1 DEF Buffers, Shape
<1>3. ASSUME NEW s \in Stage, NEW v \in Var, NEW x \in {0, 1},
             Goto(t, s), Put(t, v, x), UNCHANGED mem, Room(t, s) = Room(t, pc[t]) + 1
      PROVE  /\ Buffers'
             /\ pc' \in [Thread -> Stage] /\ sb' \in [Thread -> Seq(Entry)]
             /\ mem' \in [Var -> {0, 1}]
             /\ \A r \in Thread : r # t => pc'[r] = pc[r] /\ sb'[r] = sb[r]
  <2>1. pc'[t] = s /\ (\A r \in Thread : r # t => pc'[r] = pc[r]) /\ pc' \in [Thread -> Stage]
    BY <1>1, <1>3, GotoMoves
  <2>2. /\ sb' \in [Thread -> Seq(Entry)] /\ Len(sb'[t]) = Len(sb[t]) + 1
        /\ \A r \in Thread : r # t => sb'[r] = sb[r]
    BY <1>1, <1>3, PutBuffer
  <2>3. Len(sb[t]) \in Nat /\ Room(t, pc[t]) \in 0 .. 2
    BY <1>1, RoomProperty DEF Shape
  <2>4. Len(sb'[t]) <= Room(t, pc'[t])
    BY <1>1, <1>3, <2>1, <2>2, <2>3 DEF Buffers
  <2> QED
    BY <1>1, <1>3, <2>1, <2>2, <2>4 DEF Buffers
<1>4. CASE AddStart(t) \/ AddEnd(t)
  <2>1. sb[t] = <<>> /\ UNCHANGED <<mem, sb>> /\ (Goto(t, "spinS") \/ Goto(t, "spinE"))
    BY <1>4 DEF AddStart, AddEnd, Drained
  <2>2. Len(sb[t]) = 0
    BY <2>1
  <2>3. Len(sb[t]) <= Room(t, "spinS") /\ Len(sb[t]) <= Room(t, "spinE")
    BY <1>1, <2>2, RoomProperty, Stages
  <2> QED
    BY <1>2, <2>1, <2>3, Stages
<1>5. CASE SpinStart(t) \/ SpinEnd(t)
  <2>1. PICK s \in {"addE", "store", "check", "addS"} :
          Goto(t, s) /\ UNCHANGED <<mem, sb>> /\ pc[t] \in {"spinS", "spinE"}
    BY <1>5 DEF SpinStart, SpinEnd
  <2>2. Len(sb[t]) <= 0
    BY <1>1, <2>1 DEF Buffers, Room
  <2>3. Room(t, s) \in 0 .. 2 /\ Len(sb[t]) \in Nat /\ s \in Stage
    BY <1>1, RoomProperty, Stages
  <2> QED
    BY <1>2, <2>1, <2>2, <2>3
<1>6. CASE t = "main" /\ (ResetX \/ ResetY)
  <2>1. \/ pc[t] = "resetX" /\ Goto(t, "resetY") /\ Put(t, "X", 0) /\ UNCHANGED mem
        \/ pc[t] = "resetY" /\ Goto(t, "addS") /\ Put(t, "Y", 0) /\ UNCHANGED mem
    BY <1>6 DEF ResetX, ResetY
  <2>2. Room(t, "resetY") = Room(t, "resetX") + 1 /\ Room(t, "addS") = Room(t, "resetY") + 1
    BY <1>6 DEF Room
  <2> QED
    BY <1>3, <2>1, <2>2, Stages DEF Var
<1>7. CASE t = "main" /\ Check
  <2>1. pc[t] = "check" /\ Goto(t, "resetX") /\ UNCHANGED <<mem, sb>>
    BY <1>7 DEF Check
  <2>2. Len(sb[t]) <= Room(t, "resetX")
    BY <1>1, <2>1 DEF Buffers, Room
  <2> QED
    BY <1>2, <2>1, <2>2, Stages
<1>8. CASE t \in Worker /\ Store(t)
  <2>1. pc[t] = "store" /\ Goto(t, "fence") /\ Put(t, Mine(t), 1) /\ UNCHANGED mem
    BY <1>8 DEF Store
  <2>2. Room(t, "fence") = Room(t, "store") + 1 /\ Mine(t) \in Var
    BY <1>8 DEF Room, Worker, Mine, Var
  <2> QED
    BY <1>3, <2>1, <2>2, Stages
<1>9. CASE t \in Worker /\ MemoryFence(t)
  <2>1. pc[t] = "fence" /\ Goto(t, "load") /\ UNCHANGED <<mem, sb>>
    BY <1>9 DEF MemoryFence
  <2>2. Len(sb[t]) <= Room(t, "load")
    BY <1>1, <2>1 DEF Buffers, Room
  <2> QED
    BY <1>2, <2>1, <2>2, Stages
<1>10. CASE t \in Worker /\ Load(t)
  <2>1. pc[t] = "load" /\ Goto(t, "addE") /\ Put(t, Result(t), mem[Theirs(t)]) /\ UNCHANGED mem
    BY <1>10 DEF Load
  <2>2. /\ Room(t, "addE") = Room(t, "load") + 1
        /\ Result(t) \in Var /\ Theirs(t) \in Var
    BY <1>10 DEF Room, Worker, Result, Theirs, Var
  <2>3. mem[Theirs(t)] \in {0, 1}
    BY <1>1, <2>2
  <2> QED
    BY <1>3, <2>1, <2>2, <2>3, Stages
<1> QED
  BY <1>4, <1>5, <1>6, <1>7, <1>8, <1>9, <1>10 DEF Step, Sync

-----------------------------------------------------------------------------
(* The barriers separate main from the workers                             *)

\* Every step keeps the invariant.
LEMMA NextBarrier ==
    ASSUME NoWrap, IInv, [Next]_vars
    PROVE  IInv'
<1>1. Shape /\ BarrierInv /\ mem \in [Var -> {0, 1}]
  BY DEF IInv
<1>2. iter \in Nat /\ MaxIter \in Nat /\ iter <= MaxIter /\ (pc["main"] # "resetX" => iter < MaxIter)
  BY <1>1, IterAssumption DEF BarrierInv
<1>3. ASSUME NEW t \in Thread, Step(t) PROVE IInv'
  <2>1. /\ Buffers'
        /\ pc' \in [Thread -> Stage] /\ sb' \in [Thread -> Seq(Entry)]
        /\ mem' \in [Var -> {0, 1}]
        /\ \A r \in Thread : r # t => pc'[r] = pc[r] /\ sb'[r] = sb[r]
    BY <1>3, StepBuffers
  <2>2. CASE Sync(t)
    <3>1. Counters' /\ start' \in Nat /\ end' \in Nat /\ iter' = iter
      BY <1>1, <2>2, SyncCounts
    <3>2. pc["main"] = "resetX" => pc'["main"] = "resetX"
      BY <2>1, <2>2 DEF Sync, AddStart, AddEnd, SpinStart, SpinEnd, Thread
    <3>3. pc'["main"] # "resetX" => iter < MaxIter
      BY <1>2, <3>2
    <3> QED
      BY <1>2, <2>1, <3>1, <3>3 DEF IInv, Shape, BarrierInv
  <2>3. CASE ~Sync(t)
    <3>1. ResetX \/ ResetY \/ Check \/ (\E r \in Worker : Store(r) \/ MemoryFence(r) \/ Load(r))
      BY <1>3, <2>3 DEF Step
    <3>2. Counters' /\ UNCHANGED <<start, end>>
      BY <1>1, <3>1, InnerCounts
    <3>3. CASE t = "main" /\ ResetX
      BY <1>1, <1>2, <2>1, <3>2, <3>3 DEF ResetX, IInv, Shape, BarrierInv
    <3>4. CASE t = "main" /\ ResetY
      BY <1>1, <1>2, <2>1, <3>2, <3>4 DEF ResetY, IInv, Shape, BarrierInv
    <3>5. CASE t = "main" /\ Check
      <4>1. iter < MaxIter /\ iter' = iter + 1 /\ Goto("main", "resetX")
        BY <1>2, <3>5 DEF Check
      <4>2. pc'["main"] = "resetX"
        BY <1>1, <4>1 DEF Goto, Shape, Thread
      <4> QED
        BY <1>1, <1>2, <2>1, <3>2, <4>1, <4>2 DEF IInv, Shape, BarrierInv
    <3>6. CASE t \in Worker /\ (Store(t) \/ MemoryFence(t) \/ Load(t))
      <4>1. iter' = iter /\ pc'["main"] = pc["main"]
        BY <2>1, <3>6 DEF Store, MemoryFence, Load, Thread, Worker
      <4> QED
        BY <1>1, <1>2, <2>1, <3>2, <4>1 DEF IInv, Shape, BarrierInv
    <3> QED
      BY <1>3, <2>3, <3>3, <3>4, <3>5, <3>6 DEF Step
  <2> QED
    BY <2>2, <2>3
<1>4. ASSUME NEW t \in Thread, Flush(t) PROVE IInv'
  <2>1. /\ sb' \in [Thread -> Seq(Entry)] /\ mem' \in [Var -> {0, 1}]
        /\ Len(sb'[t]) = Len(sb[t]) - 1
        /\ \A r \in Thread : r # t => sb'[r] = sb[r]
    BY <1>1, <1>4, FlushBuffer
  <2>2. UNCHANGED <<pc, start, end, iter>>
    BY <1>4 DEF Flush
  <2>3. Buffers'
    <3>1. SUFFICES ASSUME NEW r \in Thread PROVE Len(sb'[r]) <= Room(r, pc'[r])
      BY DEF Buffers
    <3>2. Len(sb[r]) \in Nat /\ Room(r, pc[r]) \in 0 .. 2 /\ Len(sb[r]) <= Room(r, pc[r])
      BY <1>1, RoomProperty DEF Shape, BarrierInv, Buffers
    <3>3. Len(sb'[r]) \in Nat /\ Len(sb'[r]) <= Len(sb[r])
      <4>1. CASE r = t
        <5>1. Len(sb'[r]) \in Nat
          BY <2>1
        <5> QED
          BY <2>1, <3>2, <4>1, <5>1
      <4>2. CASE r # t
        BY <2>1, <3>2, <4>2
      <4> QED
        BY <4>1, <4>2
    <3>4. pc' = pc
      BY <2>2
    <3> QED
      BY <3>2, <3>3, <3>4
  <2> QED
    BY <1>1, <2>1, <2>2, <2>3 DEF IInv, Shape, BarrierInv, Counters
<1>5. CASE UNCHANGED vars
  BY <1>1, <1>5 DEF vars, IInv, Shape, BarrierInv, Counters, Buffers
<1> QED
  BY <1>3, <1>4, <1>5 DEF Next

\* The initial state satisfies it.
LEMMA InitBarrier == Init => IInv
<1> SUFFICES ASSUME Init PROVE IInv
  OBVIOUS
<1>1. pc \in [Thread -> Stage] /\ sb \in [Thread -> Seq(Entry)] /\ mem \in [Var -> {0, 1}]
  BY DEF Init, Stage
<1>2. pc["main"] = "resetX" /\ pc["t1"] = "addS" /\ pc["t2"] = "addS"
  BY DEF Init, Thread
<1>3. Counters
  BY <1>2 DEF Init, Counters
<1>4. Buffers
  <2>1. SUFFICES ASSUME NEW t \in Thread PROVE Len(sb[t]) <= Room(t, pc[t])
    BY DEF Buffers
  <2>2. sb[t] = <<>> /\ pc[t] \in Stage
    BY <1>1 DEF Init
  <2>3. Len(sb[t]) = 0
    BY <2>2
  <2> QED
    BY <2>2, <2>3 DEF Room
<1> QED
  BY <1>1, <1>2, <1>3, <1>4, IterAssumption DEF Init, IInv, Shape, BarrierInv

\* The invariant implies that main is alone when it resets and checks.
LEMMA BarrierImpliesExclusive == IInv => Exclusive
<1> SUFFICES ASSUME IInv, pc["main"] \in {"check", "resetX", "resetY", "addS"}, NEW t \in Worker
             PROVE  pc[t] \in {"spinE", "addS", "spinS"} /\ Drained(t)
  BY DEF Exclusive
<1>1. Shape /\ Counters /\ Buffers
  BY DEF IInv, BarrierInv
<1>2. t \in Thread /\ (t = "t1" \/ t = "t2") /\ t # "main"
  BY DEF Thread, Worker
<1>3. pc["t1"] \in Outer /\ pc["t2"] \in Outer
  BY <1>1, CountExclusive DEF Counters, Shape
<1>4. pc[t] \in {"spinE", "addS", "spinS"}
  BY <1>2, <1>3
<1>5. Room(t, pc[t]) = 0
  BY <1>2, <1>4 DEF Room
<1>6. Len(sb[t]) \in Nat /\ Len(sb[t]) <= 0
  BY <1>1, <1>2, <1>5, RoomProperty DEF Buffers
<1> QED
  BY <1>1, <1>2, <1>4, <1>6, RoomProperty DEF Drained

\* As long as the counters do not wrap, main resets and checks alone, for every
\* number of iterations and with or without the fence.
THEOREM BarriersHold ==
    ASSUME NoWrap
    PROVE  Spec => []Exclusive
<1>1. Init => IInv
  BY InitBarrier
<1>2. IInv /\ [Next]_vars => IInv'
  BY NextBarrier
<1>3. IInv => Exclusive
  BY BarrierImpliesExclusive
<1> QED
  BY <1>1, <1>2, <1>3, PTL DEF Spec

-----------------------------------------------------------------------------
(* Nobody waits for everybody                                              *)

\* A thread that spins, and goes on spinning unless another one moves.
Blocked(t) == \/ pc[t] = "spinS" /\ ~Passes(start)
              \/ pc[t] = "spinE" /\ ~Passes(end)
NobodyStuck == \E t \in Thread : ~Blocked(t)

\* A count short of three or back at it.
LEMMA CountStuck ==
    ASSUME NEW m, NEW a, NEW b, NEW c \in Int, NEW d \in Int, Counting(m, a, b, c, d)
    PROVE  \E s \in {m, a, b} : ~(s = "spinS" /\ c % 3 # 0) /\ ~(s = "spinE" /\ d % 3 # 0)
<1> SUFFICES ASSUME \A s \in {m, a, b} : (s = "spinS" /\ c % 3 # 0) \/ (s = "spinE" /\ d % 3 # 0)
             PROVE  FALSE
  OBVIOUS
<1>1. {m, a, b} \subseteq {"spinS", "spinE"}
  OBVIOUS
<1>2. d = 0 \/ d = 3 => m = "spinS" /\ a = "spinS" /\ b = "spinS"
  OBVIOUS
<1>3. c = 3 => m = "spinE" /\ a = "spinE" /\ b = "spinE"
  OBVIOUS
<1> QED BY <1>1, <1>2, <1>3

\* The three threads never all spin on counters that are no multiple of three: a
\* thread always is left whose turn it is (sync_thread, reorder.c:12-16), with or
\* without the fence, as long as the counters do not wrap.
THEOREM NeverStuck ==
    ASSUME NoWrap
    PROVE  Spec => []NobodyStuck
<1>1. IInv => NobodyStuck
  <2> SUFFICES ASSUME IInv PROVE NobodyStuck
    OBVIOUS
  <2> DEFINE c == start - 3 * iter
             d == end - 3 * iter
  <2>1. /\ start \in Nat /\ end \in Nat /\ iter \in Nat
        /\ Counting(pc["main"], pc["t1"], pc["t2"], c, d)
    BY DEF IInv, BarrierInv, Shape, Counters
  <2>2. c \in Int /\ d \in Int /\ start % 3 = c % 3 /\ end % 3 = d % 3
    BY <2>1
  <2>3. PICK s \in {pc["main"], pc["t1"], pc["t2"]} :
            ~(s = "spinS" /\ c % 3 # 0) /\ ~(s = "spinE" /\ d % 3 # 0)
    BY <2>1, <2>2, CountStuck
  <2>4. PICK t \in Thread : pc[t] = s
    BY <2>3 DEF Thread
  <2> QED BY <2>2, <2>3, <2>4 DEF NobodyStuck, Blocked, Passes, nthr
<1> QED
  BY <1>1, InitBarrier, NextBarrier, PTL DEF Spec

-----------------------------------------------------------------------------
(* With the fence one of the workers sees the other's store                *)

\* Where the threads are before, during and after the race.
LEMMA CountRace ==
    ASSUME NEW m, NEW a, NEW b, NEW c \in Int, NEW d \in Int, Counting(m, a, b, c, d)
    PROVE  /\ c < 3 => a \in Outer /\ b \in Outer /\ d = 0
           /\ c < 3 <=> (m \in {"resetX", "resetY", "addS"} \/ (m = "spinS" /\ c < 3))
           /\ c >= 3 /\ d # 3 => a \in Inner /\ b \in Inner
           /\ d = 3 => a \in Outer /\ b \in Outer
           /\ c >= 3 /\ d = 0 => a # "spinE" /\ b # "spinE"
           /\ m \in {"resetX", "resetY"} => c < 3
           /\ m = "check" => d = 3
           /\ c <= 5
OBVIOUS

\* Racing and Over in terms of the threads.
LEMMA RaceStages ==
    ASSUME Shape, Counters
    PROVE  /\ start - 3 * iter \in Int /\ end - 3 * iter \in Int
           /\ ~Racing => (\A t \in Worker : pc[t] \in Outer) /\ end - 3 * iter = 0
           /\ Racing /\ ~Over => \A t \in Worker : pc[t] \in Inner
           /\ Over => \A t \in Worker : pc[t] \in Outer
           /\ Racing /\ end - 3 * iter = 0 => \A t \in Worker : pc[t] # "spinE"
           /\ pc["main"] \in {"resetX", "resetY"} => ~Racing
           /\ pc["main"] = "check" => Over /\ Racing
           /\ start - 3 * iter <= 5
<1>1. start - 3 * iter \in Int /\ end - 3 * iter \in Int
  BY DEF Shape
<1>2. Counting(pc["main"], pc["t1"], pc["t2"], start - 3 * iter, end - 3 * iter)
  BY DEF Counters
<1> QED
  BY <1>1, <1>2, CountRace DEF Racing, Over, Worker

\* The variables of the two workers differ.
LEMMA Names ==
    \A t \in Worker : \E u \in Worker :
        /\ Worker = {t, u} /\ u # t /\ t \in Thread /\ u \in Thread /\ t # "main" /\ u # "main"
        /\ Mine(t) # Mine(u) /\ Result(t) # Result(u) /\ Theirs(t) = Mine(u)
        /\ Mine(t) \in Var /\ Result(t) \in Var /\ Mine(u) \in Var /\ Result(u) \in Var
        /\ {Mine(t), Mine(u)} \cap {Result(t), Result(u)} = {}
<1>1. /\ Mine("t1") = "X" /\ Mine("t2") = "Y" /\ Theirs("t1") = "Y" /\ Theirs("t2") = "X"
      /\ Result("t1") = "r1" /\ Result("t2") = "r2"
  BY DEF Mine, Theirs, Result
<1>2. ASSUME NEW t \in Worker, t = "t1" PROVE "t2" \in Worker /\ Worker = {t, "t2"}
  BY <1>2 DEF Worker
<1>3. ASSUME NEW t \in Worker, t = "t2" PROVE "t1" \in Worker /\ Worker = {t, "t1"}
  BY <1>3 DEF Worker
<1>4. \A t \in Worker : t = "t1" \/ t = "t2"
  BY DEF Worker
<1> QED
  BY <1>1, <1>2, <1>3, <1>4 DEF Var, Thread

\* The last conjunct of RaceInv, told of a worker and the other one.
LEMMA PairSymmetric ==
    ASSUME NEW t, NEW u, Worker = {t, u}, t # u
    PROVE  /\ (Loaded("t1") /\ Loaded("t2") => Got("t1") = 1 \/ Got("t2") = 1)
              <=> (Loaded(t) /\ Loaded(u) => Got(t) = 1 \/ Got(u) = 1)
           /\ (Loaded("t1") /\ Loaded("t2") => Got("t1") = 1 \/ Got("t2") = 1)'
              <=> (Loaded(t) /\ Loaded(u) => Got(t) = 1 \/ Got(u) = 1)'
<1>1. (t = "t1" /\ u = "t2") \/ (t = "t2" /\ u = "t1")
  BY DEF Worker
<1>2. CASE t = "t1" /\ u = "t2"
  BY <1>2
<1>3. CASE t = "t2" /\ u = "t1"
  BY <1>3
<1> QED
  BY <1>1, <1>2, <1>3

\* The arrival that completes the second barrier finds the others waiting there.
LEMMA CountOver ==
    ASSUME NEW m, NEW a, NEW b, NEW c \in Int, Counting(m, a, b, c, 2)
    PROVE  /\ m = "addE" => a = "spinE" /\ b = "spinE"
           /\ a = "addE" => b = "spinE"
           /\ b = "addE" => a = "spinE"
OBVIOUS

\* The increment of end does not wrap.
LEMMA AddExact ==
    ASSUME NoWrap, IInv, pc["main"] # "resetX"
    PROVE  Add(end) = end + 1 /\ end + 1 \in Nat
<1>1. /\ end - 3 * iter \in 0 .. 3 /\ 3 * iter + 5 < Word
      /\ end \in Nat /\ iter \in Nat /\ Word \in Nat
  BY CounterRange, WordAssumption DEF IInv, Shape
<1> QED
  BY <1>1 DEF Add

\* RaceInv, told of a worker t and the other one, u.
RaceOf(t, u) == Past(t) /\ Past(u) /\ (Loaded(t) /\ Loaded(u) => Got(t) = 1 \/ Got(u) = 1)

\* The race of the two workers, told of one and the other.
LEMMA RaceOfInv ==
    ASSUME NEW t \in Worker, NEW u \in Worker, Worker = {t, u}, t # u
    PROVE  /\ RaceInv /\ Racing => RaceOf(t, u)
           /\ RaceOf(t, u)' => RaceInv'
<1>1. /\ (\A r \in Worker : Past(r)) <=> Past(t) /\ Past(u)
      /\ (\A r \in Worker : Past(r))' <=> Past(t)' /\ Past(u)'
  OBVIOUS
<1> QED
  BY <1>1, PairSymmetric DEF RaceInv, RaceOf

\* A worker whose part of the state a step leaves alone stays where it is.
LEMMA KeepPast ==
    ASSUME NEW r \in Worker, pc'[r] = pc[r], sb'[r] = sb[r], mem'[Mine(r)] = mem[Mine(r)],
           Over => Over', Past(r)
    PROVE  Past(r)'
BY DEF Past

\* What a worker will have loaded depends on its buffer and its result alone.
LEMMA KeepGot ==
    ASSUME NEW r \in Worker, sb'[r] = sb[r], mem'[Result(r)] = mem[Result(r)]
    PROVE  Got(r)' = Got(r)
BY DEF Got

\* A step of main between the barriers: it moves only main and may complete the
\* second barrier.
LEMMA MainRace ==
    ASSUME NoWrap, IInv, IInv', RaceInv, Racing, Racing', Step("main")
    PROVE  RaceInv'
<1>1. PICK t \in Worker, u \in Worker :
        /\ Worker = {t, u} /\ t # u /\ t \in Thread /\ u \in Thread /\ t # "main" /\ u # "main"
  BY Names DEF Worker
<1>2. Shape /\ Counters /\ RaceOf(t, u)
  BY <1>1, RaceOfInv DEF IInv, BarrierInv
<1>3. /\ start - 3 * iter \in Int /\ end - 3 * iter \in Int /\ start - 3 * iter <= 5
      /\ pc["main"] \notin {"resetX", "resetY"}
      /\ Counting(pc["main"], pc["t1"], pc["t2"], start - 3 * iter, end - 3 * iter)
  BY <1>2, RaceStages DEF Counters
<1>4. pc["main"] # "addS"
  BY <1>3, CountRace DEF Racing
<1>5. ~Check
  BY <1>2, <1>3 DEF Check, Racing, Shape
<1>6. SpinStart("main") \/ SpinEnd("main") \/ AddEnd("main")
  BY <1>3, <1>4, <1>5 DEF Step, Sync, ResetX, ResetY, AddStart, Worker
<1>7. UNCHANGED <<mem, sb, iter, start>> /\ pc'[t] = pc[t] /\ pc'[u] = pc[u]
  <2>1. \E s \in Stage : Goto("main", s) /\ UNCHANGED <<mem, sb, iter, start>>
    BY <1>6, Stages DEF SpinStart, SpinEnd, AddEnd
  <2> QED
    BY <1>1, <1>2, <2>1, GotoMoves DEF Thread
<1>8. (Over => Over') /\ (Over' => Over \/ (pc[t] = "spinE" /\ pc[u] = "spinE"))
  <2>1. CASE UNCHANGED end
    BY <1>7, <2>1 DEF Over
  <2>2. CASE AddEnd("main")
    <3>1. pc["main"] = "addE" /\ end' = end + 1 /\ end \in Nat /\ iter \in Nat
      BY <1>2, <2>2, AddExact DEF AddEnd, IInv, Shape
    <3>2. ~Over
      BY <1>3, <3>1, CountAddEnd DEF Over
    <3>3. Over' => end - 3 * iter = 2
      BY <1>7, <3>1 DEF Over
    <3>4. Over' => pc["t1"] = "spinE" /\ pc["t2"] = "spinE"
      BY <1>3, <3>1, <3>3, CountOver
    <3> QED
      BY <3>2, <3>4 DEF Worker
  <2> QED
    BY <1>6, <2>1, <2>2 DEF SpinStart, SpinEnd
<1>9. Past(t)' /\ Past(u)'
  BY <1>2, <1>7, <1>8, KeepPast DEF RaceOf
<1>10. Got(t)' = Got(t) /\ Got(u)' = Got(u)
  BY <1>7, KeepGot
<1>11. (Loaded(t)' => Loaded(t)) /\ (Loaded(u)' => Loaded(u))
  BY <1>7, <1>8 DEF Loaded
<1> QED
  BY <1>1, <1>2, <1>9, <1>10, <1>11, RaceOfInv DEF RaceOf

\* What a step of worker t, u the other one, leaves alone while the race is on.
LEMMA WorkerFrame ==
    ASSUME IInv, NEW t \in Worker, NEW u \in Worker, t # u, Step(t)
    PROVE  /\ pc'[u] = pc[u] /\ sb'[u] = sb[u] /\ mem' = mem /\ iter' = iter
           /\ t \in Thread /\ t # "main"
<1>1. t \in Thread /\ u \in Thread /\ t # "main"
  BY DEF Thread, Worker
<1>2. mem' = mem /\ iter' = iter
  BY <1>1 DEF Step, Sync, AddStart, SpinStart, AddEnd, SpinEnd, Store, MemoryFence, Load
<1> QED
  BY <1>1, <1>2, StepBuffers

\* Where the buffer of a worker is empty.
LEMMA WorkerRoom ==
    ASSUME IInv, NEW t \in Worker, pc[t] \in Outer \cup {"store"}
    PROVE  sb[t] = <<>>
<1>1. Shape /\ Buffers /\ t \in Thread /\ t # "main"
  BY DEF IInv, BarrierInv, Thread, Worker
<1>2. Room(t, pc[t]) = 0
  BY <1>1 DEF Room
<1>3. Len(sb[t]) \in Nat /\ Len(sb[t]) <= 0
  BY <1>1, <1>2, RoomProperty DEF Buffers
<1> QED
  BY <1>1, <1>3, RoomProperty

\* Its steps at the barriers.
LEMMA SyncRace ==
    ASSUME NoWrap, IInv, IInv', RaceInv, Racing, Racing', NEW t \in Worker, Sync(t)
    PROVE  RaceInv'
<1>1. PICK u \in Worker : Worker = {t, u} /\ u # t /\ u \in Thread /\ t \in Thread /\ t # "main"
  BY Names
<1>2. Shape /\ Counters /\ RaceOf(t, u)
  BY <1>1, RaceOfInv DEF IInv, BarrierInv
<1>3. /\ start - 3 * iter \in Int /\ end - 3 * iter \in 0 .. 3 /\ end \in Nat /\ iter \in Nat
      /\ Counting(pc["main"], pc["t1"], pc["t2"], start - 3 * iter, end - 3 * iter)
  BY <1>2, CounterRange DEF Counters, Shape, IInv
<1>4. pc'[u] = pc[u] /\ sb'[u] = sb[u] /\ mem' = mem /\ iter' = iter
  BY <1>1, WorkerFrame DEF Step
<1>5. sb'[t] = sb[t] /\ Got(t)' = Got(t) /\ Got(u)' = Got(u)
  BY <1>4, KeepGot DEF Sync, AddStart, SpinStart, AddEnd, SpinEnd
<1>6. pc["main"] # "resetX"
  BY <1>2, RaceStages
<1>7. SUFFICES /\ Past(t)' /\ (Over => Over')
               /\ (Loaded(t)' => Loaded(t)) /\ (Loaded(u)' => Loaded(u))
  BY <1>1, <1>2, <1>4, <1>5, KeepPast, RaceOfInv DEF RaceOf
<1>8. CASE AddStart(t)
  <2>1. pc'[t] = "spinS" /\ end' = end
    BY <1>1, <1>2, <1>8, GotoMoves, Stages DEF AddStart
  <2> QED
    BY <1>4, <2>1 DEF Past, Loaded, Over
<1>9. CASE SpinStart(t)
  <2>1. pc'[t] = "store" /\ end' = end
    BY <1>1, <1>2, <1>9, GotoMoves, Stages DEF SpinStart
  <2> QED
    BY <1>4, <2>1 DEF Past, Loaded, Over
<1>10. CASE AddEnd(t)
  <2>1. /\ pc[t] = "addE" /\ pc'[t] = "spinE" /\ end' = end + 1
    BY <1>1, <1>2, <1>6, <1>10, AddExact, GotoMoves, Stages DEF AddEnd
  <2>2. ~Over
    BY <1>2, <2>1, RaceStages DEF Over
  <2>3. Over' => pc[u] = "spinE"
    <3>1. Over' => end - 3 * iter = 2
      BY <1>3, <1>4, <2>1 DEF Over
    <3> QED
      BY <1>1, <1>3, <2>1, <3>1, CountOver DEF Worker
  <2>4. mem[Mine(t)] = 1
    BY <1>2, <2>1 DEF RaceOf, Past
  <2>5. Past(t)'
    BY <1>4, <2>1, <2>4 DEF Past
  <2> QED
    BY <1>4, <2>1, <2>2, <2>3, <2>5 DEF Loaded
<1>11. CASE SpinEnd(t)
  <2>1. pc[t] = "spinE" /\ pc'[t] = "addS" /\ end' = end /\ end % 3 = 0
    BY <1>1, <1>2, <1>11, GotoMoves, Stages DEF SpinEnd, Passes, nthr
  <2>2. end - 3 * iter # 0
    BY <1>2, <2>1, RaceStages
  <2>3. Over /\ Over'
    BY <1>3, <1>4, <2>1, <2>2 DEF Over
  <2> QED
    BY <1>4, <2>1, <2>3 DEF Past, Loaded
<1> QED
  BY <1>8, <1>9, <1>10, <1>11 DEF Sync

\* Its store, fence and load.
LEMMA InnerRace ==
    ASSUME Fence, IInv, IInv', RaceInv, Racing, Racing', NEW t \in Worker,
           Store(t) \/ MemoryFence(t) \/ Load(t)
    PROVE  RaceInv'
<1>1. PICK u \in Worker :
        /\ Worker = {t, u} /\ u # t /\ u \in Thread /\ t \in Thread /\ t # "main"
        /\ Theirs(t) = Mine(u) /\ Mine(u) \in Var
  BY Names
<1>2. Shape /\ Counters /\ RaceOf(t, u) /\ mem \in [Var -> {0, 1}]
  BY <1>1, RaceOfInv DEF IInv, BarrierInv
<1>3. /\ pc'[u] = pc[u] /\ sb'[u] = sb[u] /\ mem' = mem /\ iter' = iter
  BY <1>1, WorkerFrame DEF Step
<1>4. Got(u)' = Got(u) /\ end' = end
  BY <1>3, KeepGot DEF Store, MemoryFence, Load
<1>5. ~Over /\ ~Over'
  BY <1>2, <1>3, <1>4, RaceStages DEF Store, MemoryFence, Load, Over
<1>6. Past(u)' /\ (Loaded(u)' => Loaded(u))
  BY <1>2, <1>3, <1>5, KeepPast DEF RaceOf, Loaded
<1>7. CASE Store(t)
  <2>1. pc[t] = "store" /\ pc'[t] = "fence"
    BY <1>1, <1>2, <1>7, GotoMoves, Stages DEF Store
  <2>2. sb[t] = <<>>
    BY <2>1, WorkerRoom
  <2>3. sb'[t] = <<[var |-> Mine(t), val |-> 1]>>
    BY <1>1, <1>2, <1>7, <2>2 DEF Store, Put, Shape
  <2>4. Past(t)' /\ ~Loaded(t)'
    BY <1>5, <2>1, <2>3 DEF Past, Loaded
  <2> QED
    BY <1>1, <1>6, <2>4, RaceOfInv DEF RaceOf
<1>8. CASE MemoryFence(t)
  <2>1. pc[t] = "fence" /\ pc'[t] = "load" /\ sb[t] = <<>> /\ sb' = sb
    BY <1>1, <1>2, <1>8, GotoMoves, Stages DEF MemoryFence, Drained
  <2>2. mem[Mine(t)] = 1
    BY <1>2, <2>1 DEF RaceOf, Past
  <2>3. Past(t)' /\ ~Loaded(t)'
    BY <1>3, <1>5, <2>1, <2>2 DEF Past, Loaded
  <2> QED
    BY <1>1, <1>6, <2>3, RaceOfInv DEF RaceOf
<1>9. CASE Load(t)
  <2>1. pc[t] = "load" /\ pc'[t] = "addE"
    BY <1>1, <1>2, <1>9, GotoMoves, Stages DEF Load
  <2>2. sb[t] = <<>> /\ mem[Mine(t)] = 1
    BY <1>2, <2>1 DEF RaceOf, Past
  <2>3. sb'[t] = <<[var |-> Result(t), val |-> mem[Mine(u)]]>>
    BY <1>1, <1>2, <1>9, <2>2 DEF Load, Put, Shape
  <2>4. mem[Mine(u)] \in {0, 1}
    BY <1>1, <1>2
  <2>5. sb'[t] # <<>> /\ Head(sb'[t]).val = mem[Mine(u)]
    BY <2>3
  <2>6. Past(t)' /\ Got(t)' = mem[Mine(u)]
    BY <1>3, <2>1, <2>2, <2>3, <2>4, <2>5 DEF Past, Got
  <2>7. Loaded(u)' => mem[Mine(u)] = 1
    BY <1>2, <1>3, <1>5 DEF Loaded, RaceOf, Past
  <2> QED
    BY <1>1, <1>6, <2>6, <2>7, RaceOfInv DEF RaceOf
<1> QED
  BY <1>7, <1>8, <1>9

\* A store of a worker that reaches memory is the one it made in this iteration.
LEMMA FlushRace ==
    ASSUME IInv, IInv', RaceInv, Racing, NEW t \in Thread, Flush(t)
    PROVE  RaceInv'
<1>1. Shape /\ Counters /\ Buffers /\ mem \in [Var -> {0, 1}]
  BY DEF IInv, BarrierInv
<1>2. UNCHANGED <<pc, start, end, iter>> /\ sb[t] # <<>>
  BY DEF Flush
<1>3. Len(sb[t]) # 0 /\ Len(sb[t]) \in Nat /\ Len(sb[t]) <= Room(t, pc[t])
  BY <1>1, <1>2, RoomProperty DEF Buffers
<1>4. /\ start - 3 * iter \in Int /\ end - 3 * iter \in Int
      /\ Counting(pc["main"], pc["t1"], pc["t2"], start - 3 * iter, end - 3 * iter)
  BY <1>1, RaceStages DEF Counters
<1>5. t \in Worker
  <2>1. pc["main"] \notin {"resetX", "resetY", "addS"}
    BY <1>4, CountRace DEF Racing
  <2>2. Room("main", pc["main"]) = 0 \/ pc["main"] \in {"fence", "load"}
    BY <2>1 DEF Room
  <2>3. pc["main"] \notin {"fence", "load"}
    BY <1>4
  <2>4. t # "main"
    BY <1>3, <2>2, <2>3
  <2> QED
    BY <2>4 DEF Thread, Worker
<1>6. PICK u \in Worker :
        /\ Worker = {t, u} /\ u # t /\ u \in Thread /\ t # "main"
        /\ Mine(t) # Mine(u) /\ Result(t) # Result(u)
        /\ Mine(t) # Result(t) /\ Mine(t) # Result(u)
        /\ Mine(u) # Result(t) /\ Mine(u) # Result(u)
        /\ Mine(t) \in Var /\ Result(t) \in Var
  BY <1>5, Names
<1>7. RaceOf(t, u)
  BY <1>5, <1>6, RaceOfInv
<1>8. sb'[u] = sb[u]
  BY <1>1, <1>6, FlushBuffer
<1>9. pc[t] \in {"fence", "load", "addE"}
  <2>1. Room(t, pc[t]) # 0
    BY <1>3
  <2>2. pc[t] # "resetY"
    BY <1>4, <1>5 DEF Worker
  <2> QED
    BY <1>6, <2>1, <2>2 DEF Room
<1>10. ~Over /\ ~Over'
  BY <1>1, <1>2, <1>5, <1>9, RaceStages DEF Over
<1>11. ASSUME NEW v \in Var, NEW x, sb[t] = <<[var |-> v, val |-> x]>>
       PROVE  mem'[v] = x /\ (\A w \in Var : w # v => mem'[w] = mem[w]) /\ sb'[t] = <<>>
  <2>1. Head(sb[t]).var = v /\ Head(sb[t]).val = x /\ Tail(sb[t]) = <<>>
    BY <1>11
  <2> QED
    BY <1>1, <2>1 DEF Flush, Shape
<1>12. Mine(u) \in Var /\ Result(u) \in Var
  BY <1>6, Names
<1>13. CASE pc[t] = "fence"
  <2>1. sb[t] = <<[var |-> Mine(t), val |-> 1]>>
    BY <1>2, <1>7, <1>13 DEF RaceOf, Past
  <2>2. /\ mem'[Mine(t)] = 1 /\ sb'[t] = <<>>
        /\ mem'[Mine(u)] = mem[Mine(u)] /\ mem'[Result(u)] = mem[Result(u)]
    BY <1>6, <1>11, <1>12, <2>1
  <2>3. Past(t)' /\ ~Loaded(t)'
    BY <1>2, <1>10, <1>13, <2>2 DEF Past, Loaded
  <2>4. Past(u)'
    BY <1>2, <1>7, <1>8, <1>10, <2>2, KeepPast DEF RaceOf
  <2> QED
    BY <1>5, <1>6, <2>3, <2>4, RaceOfInv DEF RaceOf
<1>14. CASE pc[t] = "addE"
  <2>1. PICK x \in {0, 1} : sb[t] = <<[var |-> Result(t), val |-> x]>>
    BY <1>2, <1>7, <1>14 DEF RaceOf, Past
  <2>2. /\ mem'[Result(t)] = x /\ sb'[t] = <<>> /\ mem'[Mine(t)] = mem[Mine(t)]
        /\ mem'[Mine(u)] = mem[Mine(u)] /\ mem'[Result(u)] = mem[Result(u)]
    BY <1>6, <1>11, <1>12, <2>1
  <2>3. sb[t] # <<>> /\ Head(sb[t]).val = x
    BY <2>1
  <2>4. Got(t)' = Got(t) /\ Got(u)' = Got(u)
    BY <1>8, <2>2, <2>3, KeepGot DEF Got
  <2>5. mem[Mine(t)] = 1
    BY <1>7, <1>14 DEF RaceOf, Past
  <2>6. Past(t)'
    BY <1>2, <1>10, <1>14, <2>2, <2>5 DEF Past
  <2>7. Past(u)' /\ (Loaded(t)' <=> Loaded(t)) /\ (Loaded(u)' <=> Loaded(u))
    BY <1>2, <1>7, <1>8, <1>10, <2>2, KeepPast DEF RaceOf, Loaded
  <2> QED
    BY <1>5, <1>6, <1>7, <2>4, <2>6, <2>7, RaceOfInv DEF RaceOf
<1>15. pc[t] # "load"
  BY <1>2, <1>7 DEF RaceOf, Past
<1> QED
  BY <1>9, <1>13, <1>14, <1>15

\* The race starts with the arrival that completes the first barrier, when both
\* workers wait there.
LEMMA StartRace ==
    ASSUME NoWrap, IInv, IInv', ~Racing, Racing', [Next]_vars
    PROVE  RaceInv'
<1>1. Shape /\ Counters
  BY DEF IInv, BarrierInv
<1>2. (Shape /\ Counters)'
  BY DEF IInv, BarrierInv
<1>3. /\ start \in Nat /\ end \in Nat /\ iter \in Nat /\ start - 3 * iter < 3
      /\ start - 3 * iter <= 5 /\ end - 3 * iter = 0
      /\ \A r \in Worker : pc[r] \in Outer
  BY <1>1, RaceStages DEF Shape, Racing
<1>4. PICK t \in Thread : AddStart(t)
  <2>1. ASSUME NEW t \in Thread, Step(t), ~AddStart(t)
        PROVE  UNCHANGED <<start, iter>> \/ (start' = start /\ iter' = iter + 1)
    BY <2>1 DEF Step, Sync, SpinStart, AddEnd, SpinEnd, ResetX, ResetY, Check, Store,
                MemoryFence, Load
  <2>2. ASSUME UNCHANGED <<start, iter>> \/ (start' = start /\ iter' = iter + 1) PROVE FALSE
    BY <1>3, <2>2 DEF Racing
  <2> QED
    BY <2>1, <2>2 DEF Next, Flush, vars
<1>6. pc[t] = "addS" /\ pc'[t] = "spinS" /\ (\A r \in Thread : r # t => pc'[r] = pc[r])
      /\ end' = end /\ iter' = iter
  BY <1>1, <1>4, GotoMoves, Stages DEF AddStart
<1>7. end' - 3 * iter' = 0 /\ ~Over'
  BY <1>3, <1>6 DEF Over
<1>8. \A r \in Worker : pc'[r] \in Inner /\ pc'[r] # "spinE"
  <2>1. start' - 3 * iter' \in Int /\ start' - 3 * iter' >= 3
    <3>1. start' \in Nat /\ iter' \in Nat
      BY <1>2 DEF Shape
    <3>2. start' - 3 * iter' \in Int
      BY <3>1
    <3>3. start' - 3 * iter' >= 3
      BY DEF Racing
    <3> QED
      BY <3>2, <3>3
  <2>2. Counting(pc'["main"], pc'["t1"], pc'["t2"], start' - 3 * iter', 0)
    BY <1>2, <1>7 DEF Counters
  <2> QED
    BY <2>1, <2>2, CountRace DEF Worker
<1>9. ASSUME NEW r \in Worker PROVE pc'[r] = "spinS"
  <2>1. r \in Thread /\ pc[r] \in Outer /\ pc'[r] \in Inner /\ pc'[r] # "spinE"
    BY <1>3, <1>8 DEF Worker, Thread
  <2>2. CASE r = t
    BY <1>6, <2>2
  <2>3. CASE r # t
    <3>1. pc'[r] = pc[r]
      BY <1>6, <2>1, <2>3
    <3> QED
      BY <2>1, <3>1
  <2> QED
    BY <2>2, <2>3
<1>10. \A r \in Worker : Past(r)' /\ ~Loaded(r)'
  BY <1>7, <1>9 DEF Past, Loaded
<1> QED
  BY <1>10 DEF RaceInv, Worker

\* Every step keeps the invariant of the race.
LEMMA NextRace ==
    ASSUME NoWrap, Fence, IInv, IInv', RaceInv, [Next]_vars
    PROVE  RaceInv'
<1>1. CASE ~Racing'
  BY <1>1 DEF RaceInv
<1>2. CASE Racing' /\ ~Racing
  BY <1>2, StartRace
<1>3. CASE Racing' /\ Racing
  <2>1. ASSUME NEW t \in Thread, Step(t) PROVE RaceInv'
    <3>1. CASE t = "main"
      BY <1>3, <2>1, <3>1, MainRace
    <3>2. CASE t \in Worker
      BY <1>3, <2>1, <3>2, SyncRace, InnerRace DEF Step, Worker
    <3> QED
      BY <3>1, <3>2 DEF Thread, Worker
  <2>2. ASSUME NEW t \in Thread, Flush(t) PROVE RaceInv'
    BY <1>3, <2>2, FlushRace
  <2>3. CASE UNCHANGED vars
    BY <2>3 DEF vars, RaceInv, Racing, Over, Past, Loaded, Got
  <2> QED
    BY <2>1, <2>2, <2>3 DEF Next
<1> QED
  BY <1>1, <1>2, <1>3

\* At the check both results are in memory.
LEMMA RaceImpliesSeen == IInv /\ RaceInv => NeverReordered
<1> SUFFICES ASSUME IInv, RaceInv, pc["main"] = "check"
             PROVE  mem["r1"] = 1 \/ mem["r2"] = 1
  BY DEF NeverReordered
<1>1. Shape /\ Counters
  BY DEF IInv, BarrierInv
<1>2. Over /\ Racing /\ \A t \in Worker : pc[t] \in Outer
  BY <1>1, RaceStages
<1>3. sb["t1"] = <<>> /\ sb["t2"] = <<>>
  BY <1>2, WorkerRoom DEF Worker
<1>4. Got("t1") = mem["r1"] /\ Got("t2") = mem["r2"]
  BY <1>3 DEF Got, Result
<1> QED
  BY <1>2, <1>4 DEF RaceInv, Loaded

\* With the fence the program never counts a reordering, for every number of
\* iterations whose counters do not wrap.
THEOREM FenceWorks ==
    ASSUME NoWrap, Fence
    PROVE  Spec => []NeverReordered
<1>1. Init => IInv /\ RaceInv
  <2>1. Init => ~Racing
    BY DEF Init, Racing
  <2> QED
    BY <2>1, InitBarrier DEF RaceInv
<1>2. IInv /\ RaceInv /\ [Next]_vars => (IInv /\ RaceInv)'
  BY NextBarrier, NextRace
<1>3. IInv /\ RaceInv => NeverReordered
  BY RaceImpliesSeen
<1> QED
  BY <1>1, <1>2, <1>3, PTL DEF Spec

-----------------------------------------------------------------------------
\* Types, and at most two stores on the way, for every number of iterations whose
\* counters do not wrap.
THEOREM TypeCorrect ==
    ASSUME NoWrap
    PROVE  Spec => []TypeOK
<1>1. Init => IInv
  BY InitBarrier
<1>2. IInv /\ [Next]_vars => IInv'
  BY NextBarrier
<1>3. IInv => TypeOK
  <2> SUFFICES ASSUME IInv PROVE TypeOK
    OBVIOUS
  <2>1. Shape /\ BarrierInv /\ mem \in [Var -> {0, 1}] /\ Word \in Nat
    BY WordAssumption DEF IInv
  <2>2. /\ start - 3 * iter \in 0 .. 5 /\ end - 3 * iter \in 0 .. 3
        /\ (pc["main"] # "resetX" => 3 * iter + 5 < Word) /\ 3 * iter + 2 < Word
    BY <2>1, CounterRange
  <2>3. pc["main"] = "resetX" => start - 3 * iter <= 2 /\ end - 3 * iter = 0
    BY <2>1, <2>2 DEF BarrierInv, Counters
  <2>4. start < Word /\ end < Word /\ start \in Nat /\ end \in Nat /\ iter \in Nat
    BY <2>1, <2>2, <2>3 DEF Shape
  <2>5. ASSUME NEW t \in Thread PROVE Len(sb[t]) <= 2
    <3>1. Len(sb[t]) \in Nat /\ Room(t, pc[t]) \in 0 .. 2 /\ Len(sb[t]) <= Room(t, pc[t])
      BY <2>1, RoomProperty DEF Shape, BarrierInv, Buffers
    <3> QED
      BY <3>1
  <2> QED
    BY <2>1, <2>4, <2>5 DEF TypeOK, Shape, BarrierInv
<1> QED
  BY <1>1, <1>2, <1>3, PTL DEF Spec
=============================================================================
