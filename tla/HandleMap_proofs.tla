-------------------------- MODULE HandleMap_proofs --------------------------
(***************************************************************************)
(* Theorems about HandleMap, for every set of maps that share the package  *)
(* variable, every set of strings and every number of calls.               *)
(***************************************************************************)
EXTENDS HandleMap, FiniteSetTheorems, TLAPS

\* The remainder of a division by the capacity is a slot.
LEMMA ModSlot ==
    ASSUME NEW n \in Nat, NEW c \in Nat, c > 0
    PROVE  n % c \in Slots(c)
BY DEF Slots

\* A doubled table is a table, and begins with the old one.
LEMMA GrownType ==
    ASSUME TypeOK, NEW m \in Maps
    PROVE  /\ Grown(m) \in [Slots(2 * cap[m]) -> Strings]
           /\ \A k \in Slots(cap[m]) : k \in Slots(2 * cap[m]) /\ Grown(m)[k] = tab[m][k]
<1>1. cap[m] \in Nat /\ tab[m] \in [Slots(cap[m]) -> Strings] /\ Empty \in Strings
  BY StringsAssumption DEF TypeOK
<1>2. ASSUME NEW k \in Slots(2 * cap[m])
      PROVE  (IF k < cap[m] THEN tab[m][k] ELSE Empty) \in Strings
  BY <1>1, <1>2 DEF Slots
<1>3. ASSUME NEW k \in Slots(cap[m])
      PROVE  k \in Slots(2 * cap[m]) /\ Grown(m)[k] = tab[m][k]
  BY <1>1, <1>3 DEF Slots, Grown
<1> QED
  BY <1>2, <1>3 DEF Grown

-----------------------------------------------------------------------------
(* Type correctness                                                        *)

\* Every step keeps the types, and the index of a call inside its table.
LEMMA NextType ==
    ASSUME TypeOK, [Next]_vars
    PROVE  TypeOK'
<1>1. ASSUME NEW m \in Maps, InitMap(m) PROVE TypeOK'
  <2>1. [k \in Slots(InitCap) |-> Empty] \in [Slots(InitCap) -> Strings] /\ InitCap \in Nat
    BY StringsAssumption DEF InitCap
  <2>2. cap' = [cap EXCEPT ![m] = InitCap] /\ hm = None
    BY <1>1 DEF InitMap
  <2>3. tab' = [tab EXCEPT ![m] = [k \in Slots(InitCap) |-> Empty]]
    BY <1>1 DEF InitMap
  <2>4. \A n \in Maps : tab'[n] \in [Slots(cap'[n]) -> Strings]
    BY <2>1, <2>2, <2>3 DEF TypeOK
  <2> QED
    BY <1>1, <2>1, <2>2, <2>3, <2>4 DEF InitMap, TypeOK
<1>2. ASSUME NEW m \in Maps, NEW v \in Strings, Call(m, v) PROVE TypeOK'
  <2>1. cap[m] \in Nat /\ cap[m] > 0 /\ last \in Nat
    BY <1>2 DEF Call, TypeOK
  <2>2. (last + 1) % cap[m] \in Nat
    BY <2>1
  <2>3. next' \in Slots(cap[m])
    BY <1>2, <2>1, <2>2, ModSlot DEF Call
  <2> QED
    BY <1>2, <2>1, <2>3 DEF Call, TypeOK
<1>3. ASSUME hm # None
      PROVE  /\ hm \in Maps /\ cap[hm] \in Nat /\ cap[hm] > 0 /\ size = cap[hm]
             /\ next \in Nat /\ next \in Slots(size)
  BY <1>3 DEF TypeOK, Slots
<1>4. CASE SkipZero \/ SkipUsed
  <2>1. /\ next' = (next + 1) % size
        /\ UNCHANGED <<tab, cap, last, hm, s, size, calls>> /\ hm # None
    BY <1>4 DEF SkipZero, SkipUsed, Wrap
  <2>2. next + 1 \in Nat
    BY <1>3, <2>1
  <2>3. next' \in Slots(size)
    BY <1>3, <2>1, <2>2, ModSlot
  <2> QED
    BY <2>1, <2>3 DEF TypeOK
<1>5. CASE Double
  <2>1. /\ hm # None
        /\ tab' = [tab EXCEPT ![hm] = Grown(hm)]
        /\ cap' = [cap EXCEPT ![hm] = 2 * cap[hm]]
        /\ size' = 2 * cap[hm]
        /\ next' = (next + 1) % (2 * cap[hm])
        /\ UNCHANGED <<last, hm, s, calls>>
    BY <1>5 DEF Double, DoubleTo
  <2>2. 2 * cap[hm] \in Nat /\ 2 * cap[hm] > 0 /\ next + 1 \in Nat
    BY <1>3, <2>1
  <2>3. next' \in Slots(2 * cap[hm])
    BY <2>1, <2>2, ModSlot
  <2>4. \A n \in Maps : tab'[n] \in [Slots(cap'[n]) -> Strings]
    <3>1. Grown(hm) \in [Slots(2 * cap[hm]) -> Strings]
      BY <1>3, <2>1, GrownType
    <3> QED
      BY <1>3, <2>1, <3>1 DEF TypeOK
  <2>5. cap' \in [Maps -> Nat] /\ cap'[hm] = 2 * cap[hm]
    BY <1>3, <2>1, <2>2 DEF TypeOK
  <2> QED
    BY <1>3, <2>1, <2>2, <2>3, <2>4, <2>5 DEF TypeOK
<1>6. CASE Store
  <2>1. /\ hm # None
        /\ tab' = [tab EXCEPT ![hm][next] = s]
        /\ last' = next
        /\ hm' = None
        /\ UNCHANGED <<cap, s, size, next, calls>>
    BY <1>6 DEF Store
  <2>2. \A n \in Maps : tab'[n] \in [Slots(cap[n]) -> Strings]
    BY <1>3, <2>1 DEF TypeOK
  <2> QED
    BY <1>3, <2>1, <2>2 DEF TypeOK
<1>7. CASE UNCHANGED vars
  BY <1>7 DEF vars, TypeOK
<1> QED
  BY <1>1, <1>2, <1>4, <1>5, <1>6, <1>7 DEF Next, Loop

\* Types and the range of the search index hold in every reachable state: no
\* call indexes a table outside of its bounds.
THEOREM TypeCorrect == Spec => []TypeOK
<1>1. Init => TypeOK
  BY StringsAssumption DEF Init, TypeOK, Slots, NoTable
<1>2. TypeOK /\ [Next]_vars => TypeOK'
  BY NextType
<1> QED
  BY <1>1, <1>2, PTL DEF Spec

-----------------------------------------------------------------------------
(* Handles keep their strings                                              *)

\* The body of OnlyAdds.
Keeps == \A m \in Maps : \A k \in Used(m) :
            k \in Slots(cap'[m]) /\ tab'[m][k] = tab[m][k]

\* No step changes a slot in use.
LEMMA StepKeeps ==
    ASSUME TypeOK, [Next]_vars
    PROVE  Keeps
<1> SUFFICES ASSUME NEW m \in Maps, NEW k \in Slots(cap[m]), tab[m][k] # Empty
             PROVE  k \in Slots(cap'[m]) /\ tab'[m][k] = tab[m][k]
  BY DEF Keeps, Used
<1>1. ASSUME NEW n \in Maps, InitMap(n) PROVE k \in Slots(cap'[m]) /\ tab'[m][k] = tab[m][k]
  <2>1. n # m
    BY <1>1 DEF InitMap, Slots
  <2> QED
    BY <1>1, <2>1 DEF InitMap, TypeOK
<1>2. CASE Double
  <2>1. CASE hm = m
    <3>1. k \in Slots(2 * cap[m]) /\ Grown(m)[k] = tab[m][k]
      BY GrownType
    <3> QED
      BY <1>2, <2>1, <3>1 DEF Double, DoubleTo, TypeOK
  <2>2. CASE hm # m
    BY <1>2, <2>2 DEF Double, DoubleTo, TypeOK
  <2> QED
    BY <2>1, <2>2
<1>3. CASE Store
  <2>1. UNCHANGED cap
    BY <1>3 DEF Store
  <2>2. CASE hm = m
    <3>1. k # next
      BY <1>3, <2>2 DEF Store
    <3> QED
      BY <1>3, <2>1, <2>2, <3>1 DEF Store, TypeOK
  <2>3. CASE hm # m
    BY <1>3, <2>1, <2>3 DEF Store, TypeOK
  <2> QED
    BY <2>2, <2>3
<1>4. CASE SkipZero \/ SkipUsed \/ (\E n \in Maps, v \in Strings : Call(n, v))
  BY <1>4 DEF SkipZero, SkipUsed, Call
<1>5. CASE UNCHANGED vars
  BY <1>5 DEF vars
<1> QED
  BY <1>1, <1>2, <1>3, <1>4, <1>5 DEF Next, Loop

\* No call of AllocString, on whichever map, disturbs a string stored before.
THEOREM HandlesKept == Spec => OnlyAdds
<1>1. TypeOK /\ [Next]_vars => Keeps
  BY StepKeeps
<1>2. OnlyAdds <=> [][Keeps]_vars
  BY PTL DEF OnlyAdds, Keeps
<1> QED
  BY <1>1, <1>2, TypeCorrect, PTL DEF Spec

-----------------------------------------------------------------------------
(* Doubling is the last resort                                             *)

\* The slot at which the active call begins its search.
First == IF last + 2 < size THEN last + 2 ELSE last + 2 - size

\* The slots it has seen, going round from there.
Seen(k) ==
    IF First <= last \/ next >= First THEN First <= k /\ k < next ELSE First <= k \/ k < next

\* It has seen no free slot but 0 and has not come to the last one given.
FirstTurn ==
    /\ IF First <= last THEN First <= next /\ next <= last ELSE First <= next \/ next <= last
    /\ \A k \in 1 .. size - 1 : Seen(k) => tab[hm][k] # Empty

\* It has doubled the table, and a new slot is ahead of it.
SecondTurn ==
    /\ last < next
    /\ \E k \in next .. size - 1 : tab[hm][k] = Empty

\* Where the last slot given is one of the table, the call is in its first turn, or
\* in its second.  (The search never stops at a last slot 0, or beyond the table.)
Scan == hm # None /\ 0 < last /\ last < size => FirstTurn \/ SecondTurn

\* A table is empty or has at least the four slots it starts with.
Caps == \A m \in Maps : cap[m] = 0 \/ cap[m] >= InitCap

ScanInv == TypeOK /\ Caps /\ Scan

\* A remainder of a number below twice the capacity.
LEMMA ModTwice ==
    ASSUME NEW n \in Nat, NEW c \in Nat, c > 0, n < 2 * c
    PROVE  n % c = IF n < c THEN n ELSE n - c
OBVIOUS

\* A call begins its first turn.
LEMMA CallScan ==
    ASSUME ScanInv, NEW m \in Maps, NEW v \in Strings, Call(m, v)
    PROVE  Scan'
<1> SUFFICES ASSUME 0 < last', last' < size' PROVE FirstTurn'
  BY DEF Scan
<1> DEFINE c == cap[m]
<1>1. /\ c \in Nat /\ c >= 4 /\ last \in Nat /\ size' = c /\ last' = last /\ last < c /\ last > 0
      /\ next' = (((last + 1) % c) + 1) % c /\ hm' = m /\ tab' = tab
  BY DEF Call, ScanInv, TypeOK, Caps, InitCap
<1> HIDE DEF c
<1>2. (last + 1) % c = IF last + 1 < c THEN last + 1 ELSE 0
  BY <1>1, ModTwice
<1>3. next' = IF last + 2 < c THEN last + 2 ELSE last + 2 - c
  <2>1. CASE last + 1 < c
    BY <1>1, <1>2, <2>1, ModTwice
  <2>2. CASE last + 1 >= c
    BY <1>1, <1>2, <2>2, ModTwice
  <2> QED BY <1>1, <2>1, <2>2
<1>4. First' = next'
  BY <1>1, <1>3 DEF First
<1>5. \A k \in 1 .. size' - 1 : ~Seen(k)'
  BY <1>1, <1>3, <1>4 DEF Seen
<1> QED BY <1>1, <1>3, <1>4, <1>5 DEF FirstTurn

\* A slot that is not free is passed.
LEMMA SkipScan ==
    ASSUME ScanInv, SkipZero \/ SkipUsed
    PROVE  Scan'
<1> SUFFICES ASSUME 0 < last', last' < size' PROVE FirstTurn' \/ SecondTurn'
  BY DEF Scan
<1>1. /\ hm \in Maps /\ size = cap[hm] /\ size \in Nat /\ size >= 4 /\ next \in 0 .. size - 1
      /\ last \in Nat /\ 0 < last /\ last < size
      /\ next # 0 => next # last /\ tab[hm][next] # Empty
      /\ next' = (next + 1) % size /\ UNCHANGED <<hm, tab, last, size, cap>>
  BY DEF SkipZero, SkipUsed, Wrap, ScanInv, TypeOK, Caps, Scan, InitCap, Slots
<1>2. next' = IF next + 1 < size THEN next + 1 ELSE 0
  <2>1. next + 1 \in Nat /\ next + 1 < 2 * size /\ size > 0
    BY <1>1
  <2>2. (next + 1) % size = IF next + 1 < size THEN next + 1 ELSE next + 1 - size
    BY <1>1, <2>1, ModTwice
  <2> QED BY <1>1, <2>2
<1>3. FirstTurn \/ SecondTurn
  BY <1>1, NoneAssumption DEF ScanInv, Scan
<1>4. CASE SecondTurn
  <2>1. PICK k \in next .. size - 1 : tab[hm][k] = Empty
    BY <1>4 DEF SecondTurn
  <2>2. k # next /\ last < next
    BY <1>1, <1>4, <2>1 DEF SecondTurn
  <2>3. next' = next + 1 /\ k \in next' .. size - 1
    BY <1>1, <1>2, <2>1, <2>2
  <2> QED BY <1>1, <2>1, <2>2, <2>3 DEF SecondTurn
<1>5. CASE FirstTurn
  <2>1. First' = First /\ First \in 0 .. size - 1 /\ First # last /\ First # last + 1
    BY <1>1 DEF First
  <2>2. next # last
    BY <1>1
  <2>3. IF First <= last THEN First <= next' /\ next' <= last ELSE First <= next' \/ next' <= last
    BY <1>1, <1>2, <1>5, <2>1, <2>2 DEF FirstTurn
  <2>4. ASSUME NEW k \in 1 .. size - 1, Seen(k)' PROVE tab[hm][k] # Empty
    <3>1. k = next \/ Seen(k)
      BY <1>1, <1>2, <1>5, <2>1, <2>2, <2>4 DEF FirstTurn, Seen
    <3> QED BY <1>1, <1>5, <3>1 DEF FirstTurn
  <2> QED BY <1>1, <2>1, <2>3, <2>4 DEF FirstTurn
<1> QED BY <1>3, <1>4, <1>5

\* Back at the last slot given: every other one has been seen.
LEMMA AtLast ==
    ASSUME ScanInv, Double
    PROVE  /\ hm \in Maps /\ size = cap[hm] /\ size \in Nat /\ size >= 4 /\ last \in 1 .. size - 1
           /\ \A k \in 1 .. size - 1 :
                 tab[hm][k] # Empty \/ k = last \/ k = (last + 1) % size
<1>1. /\ hm \in Maps /\ size = cap[hm] /\ size \in Nat /\ size >= 4 /\ last \in 1 .. size - 1
      /\ next = last
  BY DEF Double, ScanInv, TypeOK, Caps, InitCap, Slots
<1>2. FirstTurn
  BY <1>1, NoneAssumption DEF ScanInv, Scan, SecondTurn
<1>3. (last + 1) % size = IF last + 1 < size THEN last + 1 ELSE 0
  BY <1>1, ModTwice
<1>4. ASSUME NEW k \in 1 .. size - 1, k # last, k # (last + 1) % size PROVE Seen(k)
  BY <1>1, <1>2, <1>3, <1>4 DEF FirstTurn, First, Seen
<1> QED BY <1>1, <1>2, <1>4 DEF FirstTurn

\* The call goes on with the second turn.
LEMMA DoubleScan ==
    ASSUME ScanInv, Double
    PROVE  Scan'
<1>1. /\ hm \in Maps /\ size = cap[hm] /\ size \in Nat /\ size >= 4 /\ last \in 1 .. size - 1
      /\ next = last /\ last' = last /\ hm' = hm /\ size' = 2 * size
      /\ next' = (next + 1) % (2 * size) /\ tab'[hm] = Grown(hm)
  BY AtLast DEF Double, DoubleTo, ScanInv, TypeOK
<1>2. next' = last + 1
  BY <1>1, ModTwice
<1>3. size \in next' .. size' - 1 /\ tab'[hm'][size] = Empty
  <2> DEFINE c == cap[hm]
  <2>1. size = c /\ c \in Nat /\ c >= 4 /\ last \in 1 .. c - 1
    BY <1>1
  <2>2. Grown(hm) = [k \in Slots(2 * c) |-> IF k < c THEN tab[hm][k] ELSE Empty]
    BY DEF Grown
  <2> HIDE DEF c
  <2>3. c \in Slots(2 * c) /\ ~(c < c)
    BY <2>1 DEF Slots
  <2>4. Grown(hm)[c] = Empty
    BY <2>2, <2>3
  <2>5. size' = 2 * c /\ next' = last + 1
    BY <1>1, <1>2, <2>1
  <2>6. c \in (last + 1) .. 2 * c - 1
    BY <2>1
  <2>7. size \in next' .. size' - 1
    BY <2>1, <2>5, <2>6
  <2> QED BY <1>1, <2>1, <2>4, <2>7
<1> QED BY <1>1, <1>2, <1>3 DEF Scan, SecondTurn

LEMMA CapsStep ==
    ASSUME ScanInv, [Next]_vars
    PROVE  Caps'
<1>1. ASSUME NEW m \in Maps, InitMap(m) PROVE Caps'
  BY <1>1 DEF InitMap, ScanInv, TypeOK, Caps, InitCap
<1>2. CASE Double
  <2>1. cap' = [cap EXCEPT ![hm] = 2 * cap[hm]] /\ cap[hm] \in Nat /\ cap[hm] >= 4
    BY <1>2, AtLast DEF Double, DoubleTo
  <2> QED BY <2>1 DEF ScanInv, TypeOK, Caps, InitCap
<1>3. CASE UNCHANGED cap
  BY <1>3 DEF ScanInv, Caps
<1> QED BY <1>1, <1>2, <1>3 DEF Next, Loop, Call, SkipZero, SkipUsed, Store, vars

LEMMA ScanOrder == Spec => []ScanInv
<1>1. Init => ScanInv
  BY StringsAssumption DEF Init, ScanInv, TypeOK, Slots, NoTable, Caps, Scan
<1>2. ScanInv /\ [Next]_vars => ScanInv'
  <2> SUFFICES ASSUME ScanInv, [Next]_vars PROVE ScanInv'
    OBVIOUS
  <2>1. TypeOK' /\ Caps'
    BY NextType, CapsStep DEF ScanInv
  <2>2. Scan'
    <3>1. ASSUME NEW m \in Maps, InitMap(m) PROVE Scan'
      BY <3>1 DEF InitMap, Scan
    <3>2. ASSUME NEW m \in Maps, NEW v \in Strings, Call(m, v) PROVE Scan'
      BY <3>2, CallScan
    <3>3. CASE SkipZero \/ SkipUsed
      BY <3>3, SkipScan
    <3>4. CASE Double
      BY <3>4, DoubleScan
    <3>5. CASE Store
      BY <3>5 DEF Store, Scan
    <3>6. CASE UNCHANGED vars
      BY <3>6 DEF vars, ScanInv, Scan, FirstTurn, SecondTurn, First, Seen
    <3> QED BY <3>1, <3>2, <3>3, <3>4, <3>5, <3>6 DEF Next, Loop
  <2> QED BY <2>1, <2>2 DEF ScanInv
<1> QED BY <1>1, <1>2, PTL DEF Spec

\* The body of DoublesWhenFull.
Full == \A m \in Maps : cap'[m] > cap[m] =>
           \A k \in 1 .. cap[m] - 1 :
               k \in Used(m) \/ k = last \/ k = (last + 1) % cap[m]

\* A table is doubled only when every slot the search can see is taken (hhash.go:47),
\* for any number of tables that share the last slot given.
THEOREM DoubledWhenFull == Spec => DoublesWhenFull
<1>1. ScanInv /\ [Next]_vars => Full
  <2> SUFFICES ASSUME ScanInv, [Next]_vars, NEW m \in Maps, cap'[m] > cap[m],
                      NEW k \in 1 .. cap[m] - 1
               PROVE  k \in Used(m) \/ k = last \/ k = (last + 1) % cap[m]
    BY DEF Full
  <2>1. cap \in [Maps -> Nat]
    BY DEF ScanInv, TypeOK
  <2>2. cap' # cap
    BY <2>1
  <2>3. ASSUME NEW n \in Maps, InitMap(n) PROVE cap[m] = 0
    BY <2>1, <2>3 DEF InitMap
  <2>4. CASE Double
    <3>1. m = hm
      BY <2>1, <2>4 DEF Double, DoubleTo
    <3> QED BY <2>4, <3>1, AtLast DEF Used, Slots
  <2> QED BY <2>1, <2>2, <2>3, <2>4 DEF Next, Loop, Call, SkipZero, SkipUsed, Store, vars
<1>2. DoublesWhenFull <=> [][Full]_vars
  BY PTL DEF DoublesWhenFull, Full
<1> QED BY <1>1, <1>2, ScanOrder, PTL DEF Spec

-----------------------------------------------------------------------------
(* The memory stays proportional to what is stored                         *)

\* A table has finitely many slots.
LEMMA SlotsFinite ==
    ASSUME NEW c \in Nat
    PROVE  IsFiniteSet(Slots(c))
<1>1. 0 \in Int /\ c - 1 \in Int
  OBVIOUS
<1>2. IsFiniteSet(0 .. c - 1)
  BY <1>1, FS_Interval
<1> QED
  BY <1>2 DEF Slots

\* The slots of a table are finitely many, and those in use never become fewer.
LEMMA UsedGrows ==
    ASSUME TypeOK, [Next]_vars, NEW m \in Maps
    PROVE  /\ IsFiniteSet(Used(m)')
           /\ Cardinality(Used(m)) \in Nat /\ Cardinality(Used(m)') \in Nat
           /\ Cardinality(Used(m)) <= Cardinality(Used(m)')
<1>1. TypeOK' /\ Keeps
  BY NextType, StepKeeps
<1>2. IsFiniteSet(Slots(cap'[m])) /\ Used(m)' \in SUBSET Slots(cap'[m])
  BY <1>1, SlotsFinite DEF TypeOK, Used
<1>3. Used(m) \in SUBSET Used(m)'
  BY <1>1 DEF Keeps, Used
<1> QED
  BY <1>2, <1>3, FS_Subset, FS_CardinalityType

\* All but two of the numbers from 1 to n - 1.
LEMMA AllButTwo ==
    ASSUME NEW n \in Nat, n >= 4, NEW a, NEW b
    PROVE  LET R == ((1 .. n - 1) \ {a}) \ {b}
           IN  IsFiniteSet(R) /\ Cardinality(R) \in Nat /\ Cardinality(R) >= n - 3
<1> DEFINE A == 1 .. n - 1
<1>1. IsFiniteSet(A) /\ Cardinality(A) = n - 1
  BY FS_Interval
<1>2. /\ IsFiniteSet(A \ {a})
      /\ Cardinality(A \ {a}) = IF a \in A THEN Cardinality(A) - 1 ELSE Cardinality(A)
  BY <1>1, FS_RemoveElement
<1>3. /\ IsFiniteSet((A \ {a}) \ {b})
      /\ Cardinality((A \ {a}) \ {b}) =
            IF b \in A \ {a} THEN Cardinality(A \ {a}) - 1 ELSE Cardinality(A \ {a})
  BY <1>2, FS_RemoveElement
<1>4. Cardinality((A \ {a}) \ {b}) \in Nat
  BY <1>3, FS_CardinalityType
<1> HIDE DEF A
<1>5. Cardinality((A \ {a}) \ {b}) >= n - 3
  BY <1>1, <1>2, <1>3
<1> QED
  BY <1>3, <1>4, <1>5 DEF A

\* A table that is doubled is full but for two slots and 0.
LEMMA DoubleCompact ==
    ASSUME ScanInv, Double, NEW m \in Maps, m = hm
    PROVE  cap'[m] <= 2 * Cardinality(Used(m)') + 6
<1> DEFINE n == cap[m]
           R == ((1 .. n - 1) \ {last}) \ {(last + 1) % n}
<1>1. /\ n \in Nat /\ n >= 4 /\ cap' = [cap EXCEPT ![m] = 2 * n]
      /\ \A k \in 1 .. n - 1 : tab[m][k] # Empty \/ k = last \/ k = (last + 1) % n
  BY AtLast DEF Double, DoubleTo
<1>2. cap'[m] = 2 * n
  BY <1>1 DEF ScanInv, TypeOK
<1>3. R \in SUBSET Used(m)
  BY <1>1 DEF Used, Slots
<1>4. IsFiniteSet(R) /\ Cardinality(R) \in Nat /\ Cardinality(R) >= n - 3
  BY <1>1, AllButTwo
<1>5. IsFiniteSet(Used(m))
  <2>1. IsFiniteSet(Slots(n)) /\ Used(m) \in SUBSET Slots(n)
    BY <1>1, SlotsFinite DEF Used
  <2> QED BY <2>1, FS_Subset
<1>6. Cardinality(Used(m)) \in Nat /\ Cardinality(R) <= Cardinality(Used(m))
  BY <1>3, <1>5, FS_Subset, FS_CardinalityType
<1>7. TypeOK /\ [Next]_vars
  BY DEF Next, Loop, ScanInv
<1>8. Cardinality(Used(m)') \in Nat /\ Cardinality(Used(m)) <= Cardinality(Used(m)')
  BY <1>1, <1>7, UsedGrows
<1> HIDE DEF n, R
<1> QED
  BY <1>1, <1>2, <1>4, <1>6, <1>8

\* For any number of tables that share the last slot given, each has at most twice
\* as many slots as it holds strings, and six more, or those it started with.
THEOREM TablesCompact == Spec => []Compact
<1>1. Init => Compact
  BY DEF Init, Compact, InitCap
<1>2. ASSUME ScanInv, Compact, [Next]_vars PROVE Compact'
  <2> SUFFICES ASSUME NEW m \in Maps
               PROVE  cap'[m] <= InitCap \/ cap'[m] <= 2 * Cardinality(Used(m)') + 6
    BY DEF Compact
  <2>1. /\ cap \in [Maps -> Nat] /\ cap[m] \in Nat
        /\ Cardinality(Used(m)) \in Nat /\ Cardinality(Used(m)') \in Nat
        /\ Cardinality(Used(m)) <= Cardinality(Used(m)')
    BY <1>2, UsedGrows DEF ScanInv, TypeOK
  <2>2. CASE cap'[m] = cap[m]
    BY <1>2, <2>1, <2>2 DEF Compact, InitCap
  <2>3. ASSUME NEW n \in Maps, InitMap(n) PROVE cap'[m] = cap[m] \/ cap'[m] = InitCap
    BY <2>1, <2>3 DEF InitMap
  <2>4. CASE Double
    <3>1. CASE m # hm
      <4>1. cap'[m] = cap[m]
        BY <2>1, <2>4, <3>1 DEF Double, DoubleTo
      <4> QED
        BY <2>2, <4>1
    <3>2. CASE m = hm
      BY <1>2, <2>4, <3>2, DoubleCompact
    <3> QED
      BY <3>1, <3>2
  <2>5. InitCap \in Nat
    BY DEF InitCap
  <2> QED
    BY <1>2, <2>1, <2>2, <2>3, <2>4, <2>5
       DEF Next, Loop, Call, SkipZero, SkipUsed, Store, vars
<1> QED
  BY <1>1, <1>2, ScanOrder, PTL DEF Spec
=============================================================================
