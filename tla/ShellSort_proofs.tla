-------------------------- MODULE ShellSort_proofs --------------------------
(***************************************************************************)
(* Theorems about ShellSort for every array, width and comparison          *)
(* function: no access outside the array, no element lost, and a sorted    *)
(* result with the correct comparison function.                            *)
(***************************************************************************)
EXTENDS ShellSort, FiniteSetTheorems, FunctionTheorems, TLAPS

-----------------------------------------------------------------------------
(* Offsets are multiples of width                                          *)

\* Order and differences of two offsets, from their indices.
LEMMA Multiples ==
    ASSUME NEW k \in Int, NEW l \in Int
    PROVE  /\ k * width \in Int /\ k * width + width = (k + 1) * width
           /\ k * width - l * width = (k - l) * width
           /\ k * width < l * width <=> k < l
           /\ k >= 0 => k * width \in Nat
<1>1. width \in Nat /\ width > 0 /\ width \in Int
  BY WidthAssumption
<1>2. k * width \in Int /\ l * width \in Int /\ (k - l) * width = k * width - l * width
  BY <1>1
<1>3. k < l => (l - k) * width >= width
  BY <1>1
<1>4. l <= k => (k - l) * width >= 0
  BY <1>1
<1>5. k >= 0 => k * width >= 0
  BY <1>1
<1>6. (k + 1) * width = k * width + width
  BY <1>1
<1>7. (l - k) * width = l * width - k * width
  BY <1>1
<1> QED
  BY <1>1, <1>2, <1>3, <1>4, <1>5, <1>6, <1>7

\* The next offset and the difference of two offsets are offsets of elements.
LEMMA OffsetFacts ==
    ASSUME NEW x \in Offset
    PROVE  /\ x \in Nat /\ x < wnel
           /\ x + width < wnel => x + width \in Offset
           /\ \A y \in Offset : y <= x => x - y \in Offset
           /\ \A y \in Offset : y < x => y + width <= x
<1>1. PICK k \in 0 .. nel - 1 : x = k * width
  BY DEF Offset
<1>2. k \in Int /\ nel \in Nat /\ k < nel /\ k + 1 \in Int
  BY <1>1, NelAssumption
<1>3. x \in Nat /\ x < wnel
  BY <1>1, <1>2, Multiples DEF wnel
<1>4. x + width < wnel => x + width \in Offset
  <2>1. x + width = (k + 1) * width
    BY <1>1, <1>2, Multiples
  <2>2. x + width < wnel => k + 1 < nel
    BY <1>2, <2>1, Multiples DEF wnel
  <2> QED
    BY <1>2, <2>1, <2>2 DEF Offset
<1>5. ASSUME NEW y \in Offset
      PROVE  (y <= x => x - y \in Offset) /\ (y < x => y + width <= x)
  <2>1. PICK l \in 0 .. nel - 1 : y = l * width
    BY DEF Offset
  <2>2. l \in Int /\ l + 1 \in Int
    BY <1>2, <2>1
  <2>3. /\ x - y = (k - l) * width /\ (y < x <=> l < k) /\ (x < y <=> k < l)
        /\ y + width = (l + 1) * width /\ (x < (l + 1) * width <=> k < l + 1)
        /\ (l + 1) * width \in Int
    BY <1>1, <1>2, <2>1, <2>2, Multiples
  <2>4. y <= x => k - l \in 0 .. nel - 1
    <3>1. y <= x => ~(x < y)
      BY <1>3, <2>1, <2>2, Multiples
    <3> QED
      BY <1>1, <1>2, <2>1, <2>2, <2>3, <3>1
  <2>5. y <= x => x - y \in Offset
    BY <2>3, <2>4 DEF Offset
  <2>6. y < x => y + width <= x
    BY <1>2, <1>3, <2>2, <2>3
  <2> QED
    BY <2>5, <2>6
<1> QED
  BY <1>3, <1>4, <1>5

-----------------------------------------------------------------------------
(* The gaps 1, 4, 13, 40, ...: the least set with 1 that is closed under   *)
(* the step of the first loop.                                             *)

IsGap(g) == \A S \in SUBSET Nat : 1 \in S /\ (\A h \in S : 3 * h + 1 \in S) => g \in S

\* The gaps are 1, 4, 13, ...
LEMMA GapGrows ==
    /\ IsGap(1)
    /\ \A g \in Nat : IsGap(g) => IsGap(3 * g + 1)
BY DEF IsGap

\* Every gap is 1 or has come from a smaller one.
LEMMA GapShrinks ==
    ASSUME NEW g, IsGap(g)
    PROVE  g \in Nat /\ (g = 1 \/ \E h \in Nat : IsGap(h) /\ g = 3 * h + 1 /\ h >= 1)
<1> DEFINE S == {x \in Nat : x >= 1 /\ (x = 1 \/ \E h \in Nat : IsGap(h) /\ x = 3 * h + 1 /\ h >= 1)}
<1>1. S \in SUBSET Nat /\ 1 \in S
  OBVIOUS
<1>2. ASSUME NEW h \in S PROVE 3 * h + 1 \in S
  <2>1. h \in Nat /\ h >= 1 /\ IsGap(h)
    BY GapGrows
  <2> QED
    BY <2>1
<1>3. g \in S
  <2> HIDE DEF S
  <2> QED
    BY <1>1, <1>2 DEF IsGap
<1> QED
  BY <1>3

\* What the division at the end of a pass does to a gap.
LEMMA GapStep ==
    ASSUME NEW g, IsGap(g)
    PROVE  \/ g = 1 /\ (g * width - width) \div 3 = 0
           \/ \E h \in Nat : IsGap(h) /\ h >= 1 /\ h < g /\ (g * width - width) \div 3 = h * width
<1>1. g \in Nat /\ (g = 1 \/ \E h \in Nat : IsGap(h) /\ g = 3 * h + 1 /\ h >= 1)
  BY GapShrinks
<1>2. width \in Nat /\ width \in Int
  BY WidthAssumption
<1>3. CASE g = 1
  BY <1>2, <1>3
<1>4. ASSUME NEW h \in Nat, IsGap(h), g = 3 * h + 1, h >= 1
      PROVE  (g * width - width) \div 3 = h * width /\ h < g
  <2>1. g * width - width = 3 * (h * width) /\ h * width \in Int
    BY <1>2, <1>4
  <2> DEFINE m == h * width
  <2>2. (3 * m) \div 3 = m
    <3> HIDE DEF m
    <3>1. m \in Int
      BY <2>1 DEF m
    <3> QED
      BY <3>1
  <2> QED
    BY <1>4, <2>1, <2>2
<1> QED
  BY <1>1, <1>3, <1>4

-----------------------------------------------------------------------------
(* No access outside the array                                             *)

GapInv ==
    pc = "gap" => nel > 1 /\ (wgap = 0 \/ (wgap < (nel - 1) \div 3 /\ IsGap(wgap)))

SiftInv ==
    pc = "sift" =>
        /\ \E g \in Nat : IsGap(g) /\ wgap = g * width
        /\ wgap \in Offset /\ i \in Offset /\ j \in Offset
        /\ wgap <= j /\ j <= i

IInv == TypeOK /\ GapInv /\ SiftInv

\* A gap is at least one element wide.
LEMMA GapPositive ==
    ASSUME NEW g, IsGap(g)
    PROVE  g \in Nat /\ g >= 1 /\ g * width \in Nat /\ g * width >= width /\ g * width > 0
<1>1. g \in Nat /\ g >= 1
  BY GapShrinks
<1>2. width \in Nat /\ width > 0
  BY WidthAssumption
<1> QED
  BY <1>1, <1>2

\* Offsets are numbers.
LEMMA OffsetNat == Offset \subseteq Nat /\ wnel \in Nat /\ width \in Nat /\ width > 0
<1>1. wnel \in Nat
  BY NelAssumption, WidthAssumption DEF wnel
<1> QED
  BY <1>1, OffsetFacts, WidthAssumption

\* What the comparison and the exchange access.
LEMMA SiftBounds ==
    ASSUME IInv, pc = "sift"
    PROVE  /\ wgap \in Nat /\ i \in Nat /\ j \in Nat /\ wgap > 0 /\ width \in Nat
           /\ wgap \in Offset /\ i \in Offset /\ j \in Offset /\ wgap <= j /\ j <= i
           /\ j - wgap \in Offset /\ j - wgap < j
<1>1. /\ \E g \in Nat : IsGap(g) /\ wgap = g * width
      /\ wgap \in Offset /\ i \in Offset /\ j \in Offset /\ wgap <= j /\ j <= i
  BY DEF IInv, SiftInv
<1>2. wgap > 0
  BY <1>1, GapPositive
<1>3. wgap \in Nat /\ i \in Nat /\ j \in Nat /\ width \in Nat
  BY <1>1, OffsetNat
<1>4. j - wgap \in Offset
  BY <1>1, OffsetFacts
<1> QED
  BY <1>1, <1>2, <1>3, <1>4

\* The pass that follows, if any, has a gap inside the array.
LEMMA NextPassGap ==
    ASSUME IInv, pc = "sift", NextPass
    PROVE  \/ pc' = "done" /\ wgap' = 0 /\ wgap = width /\ i' = 0 /\ j' = 0
           \/ /\ pc' = "sift" /\ wgap' \in Offset /\ i' = wgap' /\ j' = wgap'
              /\ \E h \in Nat : IsGap(h) /\ wgap' = h * width
<1>1. PICK g \in Nat : IsGap(g) /\ wgap = g * width
  BY DEF IInv, SiftInv
<1>2. wgap' = (g * width - width) \div 3 /\ i' = wgap' /\ j' = wgap'
      /\ pc' = IF wgap' = 0 THEN "done" ELSE "sift"
  BY <1>1 DEF NextPass
<1>3. CASE g = 1 /\ (g * width - width) \div 3 = 0
  <2>1. wgap = width
    BY <1>1, <1>3, OffsetNat
  <2> QED
    BY <1>2, <1>3, <2>1
<1>4. ASSUME NEW h \in Nat, IsGap(h), h >= 1, h < g, (g * width - width) \div 3 = h * width
      PROVE  pc' = "sift" /\ wgap' \in Offset /\ wgap' = h * width
  <2>1. wgap' = h * width /\ wgap' # 0 /\ pc' = "sift"
    BY <1>2, <1>4, GapPositive
  <2>2. wgap \in Offset
    BY DEF IInv, SiftInv
  <2>3. PICK k \in 0 .. nel - 1 : wgap = k * width
    BY <2>2 DEF Offset
  <2>4. k \in Int /\ g \in Int
    BY NelAssumption
  <2>5. ~(g * width < k * width) /\ ~(k * width < g * width)
    BY <1>1, <2>3, OffsetNat
  <2>6. g = k
    BY <2>4, <2>5, Multiples
  <2>7. h \in 0 .. nel - 1
    BY <1>4, <2>6, NelAssumption
  <2> QED
    BY <2>1, <2>7 DEF Offset
<1> QED
  BY <1>1, <1>2, <1>3, <1>4, GapStep

\* When an element is placed the next one starts with the gap and the offsets in order.
LEMMA PlacedKeeps ==
    ASSUME IInv, pc = "sift", Placed
    PROVE  GapInv' /\ SiftInv' /\ pc' \in {"sift", "done"}
           /\ wgap' \in Nat /\ i' \in Nat /\ j' \in Nat
<1>1. CASE NextElement
  <2>1. i + width \in Offset /\ i <= i + width
    BY <1>1, SiftBounds, OffsetFacts DEF NextElement
  <2>2. i' = i + width /\ j' = i' /\ pc' = pc /\ wgap' = wgap
    BY <1>1 DEF NextElement
  <2>3. wgap' <= j' /\ j' <= i'
    BY <2>1, <2>2, SiftBounds
  <2>4. wgap' \in Offset /\ i' \in Offset /\ j' \in Offset
    BY <2>1, <2>2, SiftBounds
  <2>5. \E g \in Nat : IsGap(g) /\ wgap' = g * width
    BY <2>2 DEF IInv, SiftInv
  <2> QED
    BY <2>2, <2>3, <2>4, <2>5, OffsetNat DEF GapInv, SiftInv
<1>2. CASE NextPass
  <2>1. CASE pc' = "done" /\ wgap' = 0 /\ wgap = width /\ i' = 0 /\ j' = 0
    BY <2>1 DEF GapInv, SiftInv
  <2>2. CASE /\ pc' = "sift" /\ wgap' \in Offset /\ i' = wgap' /\ j' = wgap'
             /\ \E h \in Nat : IsGap(h) /\ wgap' = h * width
    <3>1. wgap' \in Nat
      BY <2>2, OffsetNat
    <3> QED
      BY <2>2, <3>1 DEF GapInv, SiftInv
  <2> QED
    BY <1>2, <2>1, <2>2, NextPassGap
<1> QED
  BY <1>1, <1>2 DEF Placed

\* The exchange moves two elements and no other.
LEMMA ExchangeFacts ==
    ASSUME NEW a \in Offset, NEW b \in Offset, arr \in [Offset -> Value], Exchange(a, b), a # b
    PROVE  /\ arr' \in [Offset -> Value]
           /\ arr'[a] = arr[b] /\ arr'[b] = arr[a]
           /\ \A o \in Offset : o # a /\ o # b => arr'[o] = arr[o]
BY DEF Exchange

\* The invariant holds at the start.
LEMMA InitHolds == Init => IInv
<1> SUFFICES ASSUME Init PROVE IInv
  OBVIOUS
<1>1. TypeOK
  BY DEF Init, TypeOK
<1>2. GapInv /\ SiftInv
  BY DEF Init, GapInv, SiftInv
<1> QED
  BY <1>1, <1>2 DEF IInv

\* Every step keeps the invariant.
LEMMA StepKeeps ==
    ASSUME IInv, [Next]_vars
    PROVE  IInv'
<1>1. CASE UNCHANGED vars
  BY <1>1 DEF IInv, TypeOK, GapInv, SiftInv, vars
<1>2. TypeOK
  BY DEF IInv
<1>3. CASE LargerGap
  <2>1. wgap = 0 \/ IsGap(wgap)
    BY <1>3 DEF IInv, GapInv, LargerGap
  <2>2. IsGap(3 * wgap + 1)
    BY <1>2, <2>1, GapGrows DEF TypeOK
  <2>3. GapInv' /\ SiftInv'
    BY <1>3, <2>2 DEF IInv, GapInv, SiftInv, LargerGap
  <2>4. TypeOK'
    BY <1>2, <1>3 DEF TypeOK, LargerGap
  <2> QED
    BY <2>3, <2>4 DEF IInv
<1>4. CASE FirstPass
  <2> DEFINE g == 3 * wgap + 1
  <2>1. wgap \in Nat /\ nel > 1 /\ (wgap = 0 \/ (wgap < (nel - 1) \div 3 /\ IsGap(wgap)))
    BY <1>2, <1>4 DEF IInv, TypeOK, GapInv, FirstPass
  <2>2. IsGap(g) /\ g \in Nat
    BY <2>1, GapGrows
  <2>3. g < nel
    BY <2>1, NelAssumption
  <2>4. g * width \in Offset /\ g * width \in Nat
    <3> HIDE DEF g
    <3>1. g \in 0 .. nel - 1
      BY <2>2, <2>3, NelAssumption
    <3> QED
      BY <3>1, OffsetNat DEF Offset
  <2>5. pc' = "sift" /\ wgap' = g * width /\ i' = wgap' /\ j' = wgap' /\ UNCHANGED <<arr, wrongCmp, input>>
    BY <1>4 DEF FirstPass
  <2> HIDE DEF g
  <2>6. GapInv' /\ SiftInv'
    BY <2>2, <2>4, <2>5 DEF GapInv, SiftInv
  <2>7. TypeOK'
    BY <1>2, <2>4, <2>5 DEF TypeOK
  <2> QED
    BY <2>6, <2>7 DEF IInv
<1>5. CASE Keep
  <2>1. pc = "sift" /\ Placed /\ UNCHANGED <<arr, wrongCmp, input>>
    BY <1>5 DEF Keep
  <2> QED
    BY <1>2, <2>1, PlacedKeeps DEF IInv, TypeOK
<1>6. CASE Sink
  <2>1. /\ pc = "sift" /\ Exchange(j - wgap, j) /\ UNCHANGED <<wrongCmp, input>>
        /\ j - wgap \in Offset /\ j \in Offset /\ j - wgap # j
    BY <1>6, SiftBounds DEF Sink
  <2>2. arr' \in [Offset -> Value]
    BY <1>2, <2>1, ExchangeFacts DEF TypeOK
  <2>3. CASE Placed
    BY <1>2, <2>1, <2>2, <2>3, PlacedKeeps DEF IInv, TypeOK
  <2>4. CASE j - wgap >= wgap /\ j' = j - wgap /\ UNCHANGED <<pc, wgap, i>>
    <3>1. wgap' <= j' /\ j' <= i'
      BY <2>1, <2>4, SiftBounds
    <3>2. SiftInv' /\ GapInv'
      BY <2>1, <2>4, <3>1 DEF IInv, SiftInv, GapInv
    <3>3. j' \in Nat
      BY <2>1, <2>4, OffsetNat
    <3>4. TypeOK'
      BY <1>2, <2>1, <2>2, <2>4, <3>3 DEF TypeOK
    <3> QED
      BY <3>2, <3>4 DEF IInv
  <2> QED
    BY <1>6, <2>3, <2>4 DEF Sink
<1> QED
  BY <1>1, <1>3, <1>4, <1>5, <1>6 DEF Next, Step, Done

\* Every state is well typed: in particular the array holds a value of the right
\* type at each offset throughout the sort.
THEOREM TypeCorrect == Spec => []TypeOK
<1>1. IInv => TypeOK
  BY DEF IInv
<1> QED
  BY <1>1, InitHolds, StepKeeps, PTL DEF Spec

\* Every comparison and exchange of the innermost loop (cl_qsort.c:76-87) is of two
\* different elements of the array, for every length, width and comparison function.
THEOREM NoAccessOutside == Spec => []InBounds
<1>1. IInv => InBounds
  BY SiftBounds DEF InBounds
<1> QED
  BY <1>1, InitHolds, StepKeeps, PTL DEF Spec

-----------------------------------------------------------------------------
(* No element is lost                                                      *)

Holding(a, v) == {o \in Offset : a[o] = v}

\* A value is held at finitely many offsets.
LEMMA HoldingFinite ==
    ASSUME NEW a, NEW v
    PROVE  IsFiniteSet(Holding(a, v))
<1>1. Holding(a, v) \in SUBSET Nat /\ wnel \in Nat
  BY OffsetNat DEF Holding
<1>2. \A o \in Holding(a, v) : o <= wnel
  BY OffsetFacts, OffsetNat DEF Holding
<1> QED
  BY <1>1, <1>2, FS_BoundedSetOfNaturals

\* An exchange keeps the number of offsets that hold a value.
LEMMA ExchangeCounts ==
    ASSUME NEW a \in Offset, NEW b \in Offset, arr \in [Offset -> Value], Exchange(a, b), a # b,
           NEW v \in Value
    PROVE  Cardinality(Holding(arr', v)) = Cardinality(Holding(arr, v))
<1> DEFINE S == Holding(arr, v)
           T == Holding(arr', v)
           other(o) == IF o = a THEN b ELSE IF o = b THEN a ELSE o
           F == [o \in S |-> other(o)]
<1>1. \A o \in Offset : other(o) \in Offset /\ other(other(o)) = o /\ arr'[other(o)] = arr[o]
  BY ExchangeFacts
<1>2. \A o \in Offset : arr[other(o)] = arr'[o]
  BY ExchangeFacts
<1>3. F \in [S -> T] /\ \A x, y \in S : F[x] = F[y] => x = y
  <2> HIDE DEF other
  <2>1. \A x \in S : x \in Offset /\ other(x) \in T
    BY <1>1 DEF Holding
  <2>2. \A x, y \in S : F[x] = F[y] => x = y
    BY <1>1, <2>1
  <2> QED
    BY <2>1, <2>2
<1>4. \A t \in T : \E s \in S : F[s] = t
  <2> HIDE DEF other
  <2>1. \A t \in T : t \in Offset /\ other(t) \in S /\ other(other(t)) = t
    BY <1>1, <1>2 DEF Holding
  <2>2. \A t \in T : F[other(t)] = t
    BY <2>1
  <2> QED
    BY <2>1, <2>2
<1>5. ExistsBijection(S, T)
  <2>1. F \in Bijection(S, T)
    <3> HIDE DEF F, S, T
    <3> QED
      BY <1>3, <1>4, Fun_IsBij
  <2> QED
    BY <2>1, Fun_ExistsBij
<1> QED
  BY <1>5, HoldingFinite, FS_Bijection

\* The array is at every moment a rearrangement of the one passed in, whatever the
\* comparison function answers (the byte-wise exchange of cl_qsort.c:82-87).
THEOREM NothingLost == Spec => []Permuted
<1>1. Init => Permuted
  BY DEF Init, Permuted
<1>2. ASSUME IInv, Permuted, [Next]_vars PROVE Permuted'
  <2>1. ASSUME NEW v \in Value PROVE Cardinality(Holding(arr', v)) = Cardinality(Holding(arr, v))
    <3>1. CASE arr' = arr
      BY <3>1
    <3>2. CASE Sink
      <4>1. /\ Exchange(j - wgap, j) /\ j - wgap \in Offset /\ j \in Offset /\ j - wgap # j
        BY <1>2, <3>2, SiftBounds DEF Sink
      <4> QED
        BY <1>2, <4>1, ExchangeCounts DEF IInv, TypeOK
    <3> QED
      BY <1>2, <3>1, <3>2 DEF Next, Step, Done, LargerGap, FirstPass, Keep, vars
  <2>2. input' = input
    BY <1>2 DEF Next, Step, Done, LargerGap, FirstPass, Keep, Sink, vars
  <2> QED
    BY <1>2, <2>1, <2>2 DEF Permuted, Holding
<1> QED
  BY <1>1, <1>2, InitHolds, StepKeeps, PTL DEF Spec

-----------------------------------------------------------------------------
(* The result is sorted                                                    *)

\* a is sorted along the gap, up to the offset e.
SortedUpTo(a, gap, e) == \A o \in Offset : gap <= o /\ o <= e => a[o - gap] <= a[o]

\* While an element sinks, it alone may be out of order, and the elements on
\* both sides of it are in order with each other.
SortInv ==
    /\ pc = "sift" =>
         /\ \A o \in Offset : wgap <= o /\ o <= i /\ o # j => arr[o - wgap] <= arr[o]
         /\ j + wgap \in Offset /\ j + wgap <= i => arr[j - wgap] <= arr[j + wgap]
    /\ pc = "done" => \A o \in Offset : o + width \in Offset => arr[o] <= arr[o + width]

\* When an element is placed everything up to the next one is sorted.
LEMMA PlacedSorts ==
    ASSUME IInv, pc = "sift", Placed, SortedUpTo(arr', wgap, i)
    PROVE  SortInv'
<1>1. CASE NextElement
  <2>1. i' = i + width /\ j' = i' /\ pc' = "sift" /\ wgap' = wgap
    BY <1>1 DEF NextElement
  <2>2. ASSUME NEW o \in Offset, wgap <= o, o <= i', o # j' PROVE arr'[o - wgap] <= arr'[o]
    <3>1. o < i + width /\ o \in Nat
      BY <2>1, <2>2, OffsetNat, SiftBounds
    <3>2. o <= i
      <4>1. i < o => i + width <= o
        BY SiftBounds, OffsetFacts
      <4> QED
        BY <3>1, <4>1, SiftBounds
    <3> QED
      BY <2>2, <3>2 DEF SortedUpTo
  <2>3. ~(j' + wgap' <= i')
    BY <2>1, SiftBounds
  <2> QED
    BY <2>1, <2>2, <2>3 DEF SortInv
<1>2. CASE NextPass
  <2>1. ASSUME NEW o \in Offset, wgap <= o PROVE arr'[o - wgap] <= arr'[o]
    <3>1. o < wnel /\ o \in Nat
      BY OffsetFacts
    <3>2. i < o => i + width <= o
      BY SiftBounds, OffsetFacts
    <3>3. o <= i
      BY <1>2, <3>1, <3>2, SiftBounds, OffsetNat DEF NextPass
    <3> QED
      BY <2>1, <3>3 DEF SortedUpTo
  <2>2. CASE pc' = "done" /\ wgap' = 0 /\ wgap = width /\ i' = 0 /\ j' = 0
    <3>1. ASSUME NEW o \in Offset, o + width \in Offset PROVE arr'[o] <= arr'[o + width]
      <4>1. (o + width) - wgap = o /\ wgap <= o + width
        BY <2>2, OffsetNat
      <4>2. arr'[(o + width) - wgap] <= arr'[o + width]
        BY <2>1, <3>1, <4>1
      <4> QED
        BY <4>1, <4>2
    <3> QED
      BY <2>2, <3>1 DEF SortInv
  <2>3. CASE pc' = "sift" /\ wgap' \in Offset /\ i' = wgap' /\ j' = wgap'
             /\ \E h \in Nat : IsGap(h) /\ wgap' = h * width
    <3>1. wgap' \in Nat /\ wgap' > 0
      BY <2>3, GapPositive
    <3>2. ~(j' + wgap' <= i')
      BY <2>3, <3>1
    <3>3. \A o \in Offset : wgap' <= o /\ o <= i' => o = j'
      BY <2>3, <3>1, OffsetNat
    <3> QED
      BY <2>3, <3>2, <3>3 DEF SortInv
  <2> QED
    BY <1>2, <2>2, <2>3, NextPassGap
<1> QED
  BY <1>1, <1>2 DEF Placed

\* Every step keeps the order reached so far.
LEMMA SortInvKept ==
    ASSUME ~wrongCmp, IInv, SortInv, [Next]_vars
    PROVE  SortInv'
<1>1. CASE UNCHANGED vars
  BY <1>1 DEF SortInv, vars
<1>2. CASE LargerGap
  BY <1>2 DEF SortInv, LargerGap
<1>3. CASE FirstPass
  <2>1. pc' = "sift" /\ wgap' = (3 * wgap + 1) * width /\ i' = wgap' /\ j' = wgap'
    BY <1>3 DEF FirstPass
  <2>2. wgap' \in Nat /\ wgap' > 0
    <3>1. wgap = 0 \/ IsGap(wgap)
      BY <1>3 DEF IInv, GapInv, FirstPass
    <3>2. IsGap(3 * wgap + 1)
      BY <3>1, GapGrows DEF IInv, TypeOK
    <3> QED
      BY <2>1, <3>2, GapPositive
  <2>3. ~(j' + wgap' <= i')
    BY <2>1, <2>2
  <2>4. \A o \in Offset : wgap' <= o /\ o <= i' => o = j'
    BY <2>1, <2>2, OffsetNat
  <2> QED
    BY <2>1, <2>3, <2>4 DEF SortInv
<1>4. CASE Keep
  <2>1. pc = "sift" /\ Placed /\ arr' = arr /\ arr[j - wgap] <= arr[j]
    BY <1>4 DEF Keep, InOrder
  <2>2. SortedUpTo(arr', wgap, i)
    BY <2>1 DEF SortInv, SortedUpTo
  <2> QED
    BY <2>1, <2>2, PlacedSorts
<1>5. CASE Sink
  <2>1. pc = "sift" /\ Exchange(j - wgap, j) /\ ~(arr[j - wgap] <= arr[j])
    BY <1>5 DEF Sink, InOrder
  <2>2. /\ wgap \in Nat /\ i \in Nat /\ j \in Nat /\ wgap > 0
        /\ j \in Offset /\ wgap <= j /\ j <= i /\ j - wgap \in Offset /\ j - wgap < j
    BY <2>1, SiftBounds
  <2>3. arr \in [Offset -> Value] /\ Value \subseteq Nat
    BY ValueAssumption DEF IInv, TypeOK
  <2>4. arr[j] <= arr[j - wgap]
    <3>1. arr[j] \in Value /\ arr[j - wgap] \in Value
      BY <2>2, <2>3
    <3>2. arr[j] \in Nat /\ arr[j - wgap] \in Nat
      BY <2>3, <3>1
    <3> QED
      BY <2>1, <3>2
  <2>5. /\ arr'[j - wgap] = arr[j] /\ arr'[j] = arr[j - wgap]
        /\ \A o \in Offset : o # j - wgap /\ o # j => arr'[o] = arr[o]
    BY <2>1, <2>2, <2>3, ExchangeFacts
  <2>6. /\ \A o \in Offset : wgap <= o /\ o <= i /\ o # j => arr[o - wgap] <= arr[o]
        /\ j + wgap \in Offset /\ j + wgap <= i => arr[j - wgap] <= arr[j + wgap]
    BY <2>1 DEF SortInv
  <2>7. ASSUME NEW o \in Offset, wgap <= o, o <= i, o # j - wgap PROVE arr'[o - wgap] <= arr'[o]
    <3>1. o \in Nat /\ o - wgap \in Offset
      BY <2>1, <2>7, SiftBounds, OffsetFacts
    <3>2. CASE o = j
      BY <2>4, <2>5, <3>2
    <3>3. CASE o = j + wgap
      <4>1. o - wgap = j /\ o # j /\ o # j - wgap
        BY <2>2, <3>3
      <4>2. arr'[o - wgap] = arr[j - wgap] /\ arr'[o] = arr[j + wgap]
        BY <2>5, <3>3, <4>1
      <4> QED
        BY <2>6, <2>7, <3>3, <4>2
    <3>4. CASE o # j /\ o # j + wgap
      <4>1. o - wgap # j /\ o - wgap # j - wgap
        BY <2>2, <3>1, <3>4
      <4>2. arr'[o - wgap] = arr[o - wgap] /\ arr'[o] = arr[o]
        BY <2>5, <2>7, <3>1, <3>4, <4>1
      <4> QED
        BY <2>6, <2>7, <3>4, <4>2
    <3> QED
      BY <3>2, <3>3, <3>4
  <2>8. CASE j - wgap < wgap /\ Placed
    <3>1. \A o \in Offset : wgap <= o => o # j - wgap
      BY <2>2, <2>8, OffsetNat
    <3>2. SortedUpTo(arr', wgap, i)
      BY <2>7, <3>1 DEF SortedUpTo
    <3> QED
      BY <2>1, <2>8, <3>2, PlacedSorts
  <2>9. CASE j - wgap >= wgap /\ j' = j - wgap /\ UNCHANGED <<pc, wgap, i>>
    <3>1. arr[(j - wgap) - wgap] <= arr[j - wgap]
      BY <2>2, <2>6, <2>9
    <3>2. (j - wgap) - wgap \in Offset
      BY <2>1, <2>2, <2>9, SiftBounds, OffsetFacts
    <3>3. (j - wgap) - wgap # j /\ (j - wgap) - wgap # j - wgap
      BY <2>2
    <3>4. arr'[(j - wgap) - wgap] = arr[(j - wgap) - wgap]
      BY <2>5, <3>2, <3>3
    <3>5. arr'[j' - wgap] <= arr'[j' + wgap]
      <4>1. j' + wgap = j
        BY <2>2, <2>9
      <4> QED
        BY <2>5, <2>9, <3>1, <3>4, <4>1
    <3> QED
      BY <2>1, <2>7, <2>9, <3>5 DEF SortInv
  <2> QED
    BY <1>5, <2>8, <2>9 DEF Sink
<1> QED
  BY <1>1, <1>2, <1>3, <1>4, <1>5 DEF Next, Step, Done

\* Nothing is claimed of the order at the start.
LEMMA SortInvInit == Init => SortInv
<1> SUFFICES ASSUME Init PROVE SortInv
  OBVIOUS
<1>1. CASE nel > 1
  BY <1>1 DEF Init, SortInv
<1>2. CASE ~(nel > 1)
  <2>1. ASSUME NEW o \in Offset PROVE ~(o + width \in Offset)
    <3>1. SUFFICES ASSUME o + width \in Offset PROVE FALSE
      OBVIOUS
    <3>2. o \in Nat /\ o + width < wnel
      BY <3>1, OffsetFacts
    <3>3. wnel <= width
      <4>1. nel = 0 \/ nel = 1
        BY <1>2, NelAssumption
      <4> QED
        BY <4>1, OffsetNat DEF wnel
    <3> QED
      BY <3>2, <3>3, OffsetNat
  <2> QED
    BY <1>2, <2>1 DEF Init, SortInv
<1> QED
  BY <1>1, <1>2

\* The comparison function stays the one that was compiled.
LEMMA CmpKept ==
    ASSUME [Next]_vars
    PROVE  wrongCmp' = wrongCmp
BY DEF Next, Step, Done, LargerGap, FirstPass, Keep, Sink, vars

\* With the correct comparison function the array is sorted when the call returns,
\* whatever its length, the width of its elements and the values in it.
THEOREM SortsCorrectly == Spec => []Sorted
<1> DEFINE Ordered == ~wrongCmp => SortInv
<1>1. Ordered => Sorted
  BY DEF SortInv, Sorted, InOrder
<1>2. IInv /\ Ordered /\ [Next]_vars => Ordered'
  BY SortInvKept, CmpKept
<1>3. Init => Ordered
  BY SortInvInit
<1> HIDE DEF Ordered
<1> QED
  BY <1>1, <1>2, <1>3, InitHolds, StepKeeps, PTL DEF Spec
=============================================================================
