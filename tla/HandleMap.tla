----------------------------- MODULE HandleMap -----------------------------
(***************************************************************************)
(* Handlemap of go/hhash/hhash.go: tables of strings that hand out the     *)
(* index of a free slot and double when the search has gone round.  The    *)
(* index of the last allocation is a variable of the package, shared by    *)
(* all the tables of the program.                                          *)
(*                                                                         *)
(* AllocString is the action Call followed by one action per turn of its   *)
(* loop.  The package takes no lock and is used by one goroutine, so one   *)
(* call is active at a time.                                               *)
(***************************************************************************)
EXTENDS Integers, FiniteSets

CONSTANTS Maps,      \* the Handlemap variables of the program
          Strings,   \* the strings it stores
          Empty,     \* "", which a free slot also holds
          None,      \* no call is active
          MaxCalls   \* bound on the number of calls of AllocString

InitCap == 4

ASSUME StringsAssumption == Empty \in Strings
ASSUME NoneAssumption == None \notin Maps
ASSUME CallsAssumption == MaxCalls \in Nat

VARIABLES
    tab,    \* hm.tab of every map, a function on 0 .. cap - 1
    cap,    \* cap(hm.tab), 0 before Init
    last,   \* the package variable
    hm,     \* the receiver of the active call
    s,      \* its argument
    size,   \* its local copy of cap(hm.tab)
    next,   \* its local index
    calls   \* number of calls so far

vars == <<tab, cap, last, hm, s, size, next, calls>>

Slots(c)    == 0 .. c - 1
NoTable     == [k \in Slots(0) |-> Empty]
\* The handles of m that hold a string.
Used(m)     == {k \in Slots(cap[m]) : tab[m][k] # Empty}
Wrap(n)     == (n + 1) % size

Init ==
    /\ tab = [m \in Maps |-> NoTable]
    /\ cap = [m \in Maps |-> 0]
    /\ last = 0
    /\ hm = None
    /\ s = Empty
    /\ size = 0
    /\ next = 0
    /\ calls = 0

\* hm.Init(), once for every map.
InitMap(m) ==
    /\ hm = None
    /\ cap[m] = 0
    /\ tab' = [tab EXCEPT ![m] = [k \in Slots(InitCap) |-> Empty]]
    /\ cap' = [cap EXCEPT ![m] = InitCap]
    /\ UNCHANGED <<last, hm, s, size, next, calls>>

\* Entry of AllocString: the slot after the next one is tried first.
Call(m, v) ==
    /\ hm = None
    /\ cap[m] > 0
    /\ calls < MaxCalls
    /\ hm' = m
    /\ s' = v
    /\ size' = cap[m]
    /\ next' = (((last + 1) % cap[m]) + 1) % cap[m]
    /\ calls' = calls + 1
    /\ UNCHANGED <<tab, cap, last>>

\* Handle 0 is never given.
SkipZero ==
    /\ hm # None
    /\ next = 0
    /\ next' = Wrap(next)
    /\ UNCHANGED <<tab, cap, last, hm, s, size, calls>>

\* Mutant: the last slot of the old table is not copied.
GrownLosesOne(m) ==
    [k \in Slots(2 * cap[m]) |-> IF k < cap[m] - 1 THEN tab[m][k] ELSE Empty]

\* A table twice as long that starts with the old one.
Grown(m) == [k \in Slots(2 * cap[m]) |-> IF k < cap[m] THEN tab[m][k] ELSE Empty]

DoubleTo(m, c) ==
    /\ tab' = [tab EXCEPT ![m] = Grown(m)]
    /\ cap' = [cap EXCEPT ![m] = c]
    /\ size' = c
    /\ next' = (next + 1) % c
    /\ UNCHANGED <<last, hm, s, calls>>

\* Mutant: the test for a complete turn is off by one slot.
DoubleEarly ==
    /\ hm # None
    /\ next # 0
    /\ next = last - 1
    /\ DoubleTo(hm, 2 * cap[hm])

\* Mutant: the turn ends at the first slot in use.
DoubleAtUsed ==
    /\ hm # None
    /\ next # 0
    /\ next = last \/ tab[hm][next] # Empty
    /\ DoubleTo(hm, 2 * cap[hm])

\* Back at the last allocation: the table is doubled and its end is searched.
Double ==
    /\ hm # None
    /\ next # 0
    /\ next = last
    /\ DoubleTo(hm, 2 * cap[hm])

SkipUsed ==
    /\ hm # None
    /\ next # 0 /\ next # last
    /\ tab[hm][next] # Empty
    /\ next' = Wrap(next)
    /\ UNCHANGED <<tab, cap, last, hm, s, size, calls>>

\* Mutant: the package variable is not updated.
StoreForgetsLast ==
    /\ hm # None
    /\ next # 0 /\ next # last
    /\ tab[hm][next] = Empty
    /\ tab' = [tab EXCEPT ![hm][next] = s]
    /\ hm' = None
    /\ UNCHANGED <<cap, last, s, size, next, calls>>

\* A free slot: the string is stored and its index returned.
Store ==
    /\ hm # None
    /\ next # 0 /\ next # last
    /\ tab[hm][next] = Empty
    /\ tab' = [tab EXCEPT ![hm][next] = s]
    /\ last' = next
    /\ hm' = None
    /\ UNCHANGED <<cap, s, size, next, calls>>

Loop == SkipZero \/ Double \/ SkipUsed \/ Store

Next == \/ \E m \in Maps : InitMap(m) \/ (\E v \in Strings : Call(m, v))
        \/ Loop

Spec     == Init /\ [][Next]_vars
FairSpec == Spec /\ WF_vars(Loop)
-----------------------------------------------------------------------------
(* Properties                                                              *)

\* Types; during a call the local size is the capacity of the table and next
\* one of its slots.
TypeOK ==
    /\ cap \in [Maps -> Nat]
    /\ DOMAIN tab = Maps
    /\ \A m \in Maps : tab[m] \in [Slots(cap[m]) -> Strings]
    /\ last \in Nat
    /\ hm \in Maps \cup {None}
    /\ s \in Strings
    /\ hm # None => size = cap[hm] /\ size > 0 /\ next \in Slots(size)
    /\ calls \in Nat

\* What a handle was given for stays there: no later call, in whichever map, and
\* no doubling moves or overwrites it (hhash.go:38-56).
OnlyAdds ==
    [][\A m \in Maps : \A k \in Used(m) :
          k \in Slots(cap'[m]) /\ tab'[m][k] = tab[m][k]]_vars

\* A table is doubled only if every slot the search can see is taken: all but
\* 0, the last one given and the one after it, which the search jumps over.
DoublesWhenFull ==
    [][\A m \in Maps : cap'[m] > cap[m] =>
          \A k \in 1 .. cap[m] - 1 :
              k \in Used(m) \/ k = last \/ k = (last + 1) % cap[m]]_vars

\* The memory stays proportional to what is stored: however the calls in several
\* tables move the shared index, a table longer than at the start has at most twice
\* as many slots as it holds strings, and six more (hhash.go:38-49).
Compact == \A m \in Maps : cap[m] <= InitCap \/ cap[m] <= 2 * Cardinality(Used(m)) + 6

\* "this function should always return, crash if `make` fails" (hhash.go:60).
AlwaysReturns == hm # None ~> hm = None

\* So it does, unless the table is full and the last slot given, in another table,
\* lies beyond its end (hhash.go:5, 39).
Findable == last < size \/ (\E k \in 1 .. size - 1 : tab[hm][k] = Empty)
ReturnsIfFindable == hm # None /\ Findable ~> hm = None
=============================================================================
