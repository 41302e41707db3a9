------------------------------ MODULE Reorder ------------------------------
(***************************************************************************)
(* c/reorder/reorder.c: two threads race a store and a load in every       *)
(* iteration, main resets the variables and looks for a reordering.  The   *)
(* three meet at two barriers, sync_thread on the counters start and end:  *)
(* a locked increment and a spin until the counter is a multiple of nthr.  *)
(*                                                                         *)
(* The processor is external: stores wait in a buffer of the thread and    *)
(* reach memory in order (x86-TSO); mfence and the locked increment wait   *)
(* until the buffer is empty.  The builds the README documents do not      *)
(* optimise, so every turn of the spin loop loads the counter.             *)
(***************************************************************************)
EXTENDS Integers, Sequences

CONSTANTS Fence,    \* compiled with -DUSE_CPU_FENCE
          Word,     \* 2^w, w the width of unsigned long
          MaxIter   \* bound on the iterations of main

ASSUME FenceAssumption == Fence \in BOOLEAN
ASSUME WordAssumption == Word \in Nat \ {0}
ASSUME IterAssumption == MaxIter \in Nat

nthr == 3
Thread == {"main", "t1", "t2"}
Worker == {"t1", "t2"}

\* What each worker stores to, loads from and writes its result to.
Mine(t)   == IF t = "t1" THEN "X" ELSE "Y"
Theirs(t) == IF t = "t1" THEN "Y" ELSE "X"
Result(t) == IF t = "t1" THEN "r1" ELSE "r2"

VARIABLES
    pc,      \* the statement each thread executes next
    start,   \* the counter of the first barrier
    end,     \* the counter of the second one
    mem,     \* X, Y, r1 and r2 in memory
    sb,      \* the store buffer of each thread
    iter     \* iterations main has checked

vars == <<pc, start, end, mem, sb, iter>>

Var == {"X", "Y", "r1", "r2"}
Goto(t, s) == pc' = [pc EXCEPT ![t] = s]
Put(t, v, x) == sb' = [sb EXCEPT ![t] = Append(@, [var |-> v, val |-> x])]
Drained(t) == sb[t] = <<>>

Init ==
    /\ pc = [t \in Thread |-> IF t = "main" THEN "resetX" ELSE "addS"]
    /\ start = 0
    /\ end = 0
    /\ mem = [v \in Var |-> 0]
    /\ sb = [t \in Thread |-> <<>>]
    /\ iter = 0

\* The oldest store of a thread reaches memory.
Flush(t) ==
    /\ sb[t] # <<>>
    /\ mem' = [mem EXCEPT ![Head(sb[t]).var] = Head(sb[t]).val]
    /\ sb' = [sb EXCEPT ![t] = Tail(@)]
    /\ UNCHANGED <<pc, start, end, iter>>

-----------------------------------------------------------------------------
(* sync_thread                                                             *)

Add(n) == (n + 1) % Word

\* Mutants: main is not counted; the counter is expected to stop at nthr.
PassesForTwo(n) == n % 2 = 0
PassesOnce(n) == n = nthr

Passes(n) == n % nthr = 0

AddStart(t) ==
    /\ pc[t] = "addS"
    /\ Drained(t)
    /\ start' = Add(start)
    /\ Goto(t, "spinS")
    /\ UNCHANGED <<end, mem, sb, iter>>

SpinStart(t) ==
    /\ pc[t] = "spinS"
    /\ Passes(start)
    /\ Goto(t, IF t = "main" THEN "addE" ELSE "store")
    /\ UNCHANGED <<start, end, mem, sb, iter>>

AddEnd(t) ==
    /\ pc[t] = "addE"
    /\ Drained(t)
    /\ end' = Add(end)
    /\ Goto(t, "spinE")
    /\ UNCHANGED <<start, mem, sb, iter>>

SpinEnd(t) ==
    /\ pc[t] = "spinE"
    /\ Passes(end)
    /\ Goto(t, IF t = "main" THEN "check" ELSE "addS")
    /\ UNCHANGED <<start, end, mem, sb, iter>>

-----------------------------------------------------------------------------
(* main                                                                    *)

ResetX ==
    /\ pc["main"] = "resetX"
    /\ iter < MaxIter
    /\ Put("main", "X", 0)
    /\ Goto("main", "resetY")
    /\ UNCHANGED <<start, end, mem, iter>>

ResetY ==
    /\ pc["main"] = "resetY"
    /\ Put("main", "Y", 0)
    /\ Goto("main", "addS")
    /\ UNCHANGED <<start, end, mem, iter>>

Check ==
    /\ pc["main"] = "check"
    /\ iter' = iter + 1
    /\ Goto("main", "resetX")
    /\ UNCHANGED <<start, end, mem, sb>>

(* thread_routine1 and thread_routine2                                     *)

Store(t) ==
    /\ pc[t] = "store"
    /\ Put(t, Mine(t), 1)
    /\ Goto(t, "fence")
    /\ UNCHANGED <<start, end, mem, iter>>

\* Mutant: a fence that orders nothing.
FenceDropped(t) ==
    /\ pc[t] = "fence"
    /\ Goto(t, "load")
    /\ UNCHANGED <<start, end, mem, sb, iter>>

\* Without USE_CPU_FENCE the asm statement is a compiler barrier only.
MemoryFence(t) ==
    /\ pc[t] = "fence"
    /\ Fence => Drained(t)
    /\ Goto(t, "load")
    /\ UNCHANGED <<start, end, mem, sb, iter>>

\* The buffer of a worker never holds the variable it loads.
Load(t) ==
    /\ pc[t] = "load"
    /\ Put(t, Result(t), mem[Theirs(t)])
    /\ Goto(t, "addE")
    /\ UNCHANGED <<start, end, mem, iter>>

-----------------------------------------------------------------------------
Sync(t) == AddStart(t) \/ SpinStart(t) \/ AddEnd(t) \/ SpinEnd(t)

Step(t) == \/ Sync(t)
           \/ t = "main" /\ (ResetX \/ ResetY \/ Check)
           \/ t \in Worker /\ (Store(t) \/ MemoryFence(t) \/ Load(t))

Next == \E t \in Thread : Step(t) \/ Flush(t)

Spec == Init /\ [][Next]_vars

\* Threads are scheduled and store buffers drain.
FairSpec == Spec /\ \A t \in Thread : WF_vars(Step(t)) /\ WF_vars(Flush(t))
-----------------------------------------------------------------------------
(* Properties                                                              *)

Stage == {"resetX", "resetY", "addS", "spinS", "store", "fence", "load",
          "addE", "spinE", "check"}
Entry == [var : Var, val : {0, 1}]

\* Types; two stores are the most a thread makes between two locked increments.
TypeOK ==
    /\ pc \in [Thread -> Stage]
    /\ start \in 0 .. Word - 1
    /\ end \in 0 .. Word - 1
    /\ mem \in [Var -> {0, 1}]
    /\ sb \in [Thread -> Seq(Entry)]
    /\ \A t \in Thread : Len(sb[t]) <= 2
    /\ iter \in 0 .. MaxIter

\* "Signal both threads", "Wait for both threads" (reorder.c:64-67): while main
\* reads the results or resets X and Y, no worker is between the two barriers
\* and none of its stores is on the way.
Exclusive ==
    pc["main"] \in {"check", "resetX", "resetY", "addS"} =>
        \A t \in Worker : pc[t] \in {"spinE", "addS", "spinS"} /\ Drained(t)

\* With the fence one of the loads sees the other thread's store, so main never
\* counts a reordering (README.md, Usage).
NeverReordered ==
    pc["main"] = "check" => mem["r1"] = 1 \/ mem["r2"] = 1

\* No thread misses the moment at which a counter is a multiple of nthr, and all
\* iterations are run.
Iterates == <>(iter = MaxIter)

-----------------------------------------------------------------------------
(* The inductive invariant, while the counters do not wrap                 *)

Outer == {"spinE", "addS", "spinS"}
Inner == {"spinS", "store", "fence", "load", "addE", "spinE"}
\* How many of two workers, at a and b, wait in spin loop w.
Waiting(a, b, w) == (IF a = w THEN 1 ELSE 0) + (IF b = w THEN 1 ELSE 0)

\* Main at m and the workers at a and b, with c and d increments of start and end
\* since main began the iteration: the counters tell how many threads wait at
\* which barrier, and the workers are both outside or both inside.
Counting(m, a, b, c, d) ==
    \/ /\ m \in {"resetX", "resetY", "addS"} /\ {a, b} \subseteq Outer
       /\ c = Waiting(a, b, "spinS") /\ d = 0
    \/ /\ m = "spinS" /\ {a, b} \subseteq Outer
       /\ c = 1 + Waiting(a, b, "spinS") /\ c < 3 /\ d = 0
    \/ /\ m \in {"spinS", "addE"} /\ {a, b} \subseteq Inner
       /\ c = 3 /\ d = Waiting(a, b, "spinE")
    \/ /\ m = "spinE" /\ {a, b} \subseteq Inner
       /\ c = 3 /\ d = 1 + Waiting(a, b, "spinE") /\ d < 3
    \/ /\ m \in {"spinE", "check"} /\ {a, b} \subseteq Outer
       /\ c = 3 + Waiting(a, b, "spinS") /\ d = 3

Counters == Counting(pc["main"], pc["t1"], pc["t2"], start - 3 * iter, end - 3 * iter)

\* The stores a thread may have on the way: none when it waits at a barrier.
Room(t, s) == IF s \in {"resetY", "fence", "load"} THEN 1
              ELSE IF s = (IF t = "main" THEN "addS" ELSE "addE") THEN 2 ELSE 0
Buffers == \A t \in Thread : Len(sb[t]) <= Room(t, pc[t])

BarrierInv ==
    /\ Counters
    /\ Buffers
    /\ iter \in 0 .. MaxIter
    /\ pc["main"] # "resetX" => iter < MaxIter
-----------------------------------------------------------------------------
(* The inductive invariant of the race, with the fence                     *)

\* Since main began the iteration, every thread has passed the first barrier,
\* respectively reached the second.
Racing == start - 3 * iter >= 3
Over   == end - 3 * iter = 3

\* Worker t has done its load, and the result it got, in memory or on the way.
Loaded(t) == pc[t] \in {"addE", "spinE"} \/ Over
Got(t)    == IF sb[t] = <<>> THEN mem[Result(t)] ELSE Head(sb[t]).val

\* A worker past its fence has its store in memory and at most its result in the
\* buffer.
Past(t) ==
    /\ pc[t] = "fence" =>
          \/ sb[t] = <<[var |-> Mine(t), val |-> 1]>>
          \/ sb[t] = <<>> /\ mem[Mine(t)] = 1
    /\ pc[t] = "load" => sb[t] = <<>>
    /\ pc[t] = "addE" =>
          \/ sb[t] = <<>>
          \/ \E x \in {0, 1} : sb[t] = <<[var |-> Result(t), val |-> x]>>
    /\ pc[t] \in {"load", "addE"} \/ (pc[t] = "spinE" /\ ~Over) => mem[Mine(t)] = 1

\* Of two workers that have loaded one has got the other's store.
RaceInv ==
    Racing =>
        /\ \A t \in Worker : Past(t)
        /\ Loaded("t1") /\ Loaded("t2") => Got("t1") = 1 \/ Got("t2") = 1
=============================================================================
