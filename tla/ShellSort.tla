----------------------------- MODULE ShellSort -----------------------------
(***************************************************************************)
(* uclibc_qsort of c/cl_qsort.c: Shell's method on an array of nel         *)
(* elements of width bytes, and its comparison function cmp.  Indices are  *)
(* byte offsets, as in the code; one action per comparison.  The assert of *)
(* the code makes nel * width representable, and no offset goes beyond it. *)
(***************************************************************************)
EXTENDS Integers, FiniteSets

CONSTANTS nel,      \* number of elements
          width,    \* bytes of one
          Value,    \* the unsigned integers the elements hold
          Word      \* 2^w, w the width of unsigned int

ASSUME NelAssumption == nel \in Nat
ASSUME WidthAssumption == width \in Nat \ {0}
ASSUME ValueAssumption == Word \in Nat \ {0} /\ Value \subseteq 0 .. Word - 1

\* The offsets of the elements, and of the end of the array.
Offset == {k * width : k \in 0 .. nel - 1}
wnel == nel * width

VARIABLES
    pc,     \* "gap": choosing the first gap; "sift": comparing; "done"
    arr,    \* the array
    wgap, i, j,
    wrongCmp, \* compiled with WRONG_CMP; never changes
    input   \* the array before the call (auxiliary)

vars == <<pc, arr, wgap, i, j, wrongCmp, input>>

-----------------------------------------------------------------------------
\* cmp(a, b) <= 0.  The difference of two unsigned integers, taken as an int, is
\* negative from half of their range on.
InOrder(x, y) ==
    IF wrongCmp THEN LET d == (x - y) % Word IN d = 0 \/ 2 * d >= Word
                ELSE x <= y

Init ==
    /\ arr \in [Offset -> Value]
    /\ input = arr
    /\ wrongCmp \in BOOLEAN
    /\ pc = IF nel > 1 THEN "gap" ELSE "done"
    /\ wgap = 0 /\ i = 0 /\ j = 0

\* The first gap: the first of 1, 4, 13, ... that reaches a third of the array.
LargerGap ==
    /\ pc = "gap"
    /\ 3 * wgap + 1 < (nel - 1) \div 3
    /\ wgap' = 3 * wgap + 1
    /\ UNCHANGED <<pc, arr, i, j, wrongCmp, input>>

FirstPass ==
    /\ pc = "gap"
    /\ 3 * wgap + 1 >= (nel - 1) \div 3
    /\ pc' = "sift"
    /\ wgap' = (3 * wgap + 1) * width
    /\ i' = wgap' /\ j' = wgap'
    /\ UNCHANGED <<arr, wrongCmp, input>>

\* Mutant: the first byte copied is lost.
ExchangeLoses(a, b) == arr' = [arr EXCEPT ![a] = arr[b]]
Exchange(a, b) == arr' = [arr EXCEPT ![a] = arr[b], ![b] = arr[a]]

\* i has its place: the next element, or the next pass with a smaller gap.
NextElement ==
    /\ i + width < wnel
    /\ i' = i + width /\ j' = i'
    /\ UNCHANGED <<pc, wgap>>

\* Mutants: the gap never becomes smaller than an element; the pass with the
\* smallest gap is left out.
NextPassClamped ==
    /\ i + width >= wnel
    /\ wgap' = IF wgap = width THEN width ELSE (wgap - width) \div 3
    /\ i' = wgap' /\ j' = wgap'
    /\ pc' = IF wgap' = 0 THEN "done" ELSE "sift"
NextPassStopsEarly ==
    /\ i + width >= wnel
    /\ wgap' = (wgap - width) \div 3
    /\ i' = wgap' /\ j' = wgap'
    /\ pc' = IF wgap' <= width THEN "done" ELSE "sift"

NextPass ==
    /\ i + width >= wnel
    /\ wgap' = (wgap - width) \div 3
    /\ i' = wgap' /\ j' = wgap'
    /\ pc' = IF wgap' = 0 THEN "done" ELSE "sift"

Placed == NextElement \/ NextPass

Keep ==
    /\ pc = "sift"
    /\ InOrder(arr[j - wgap], arr[j])
    /\ Placed
    /\ UNCHANGED <<arr, wrongCmp, input>>

\* Mutant: the loop goes on at the first element.
SinkTooFar ==
    /\ pc = "sift"
    /\ ~InOrder(arr[j - wgap], arr[j])
    /\ Exchange(j - wgap, j)
    /\ j' = j - wgap
    /\ UNCHANGED <<pc, wgap, i, wrongCmp, input>>

\* The element sinks by one gap and may sink further.
Sink ==
    /\ pc = "sift"
    /\ ~InOrder(arr[j - wgap], arr[j])
    /\ Exchange(j - wgap, j)
    /\ \/ /\ j - wgap >= wgap
          /\ j' = j - wgap
          /\ UNCHANGED <<pc, wgap, i>>
       \/ /\ j - wgap < wgap
          /\ Placed
    /\ UNCHANGED <<wrongCmp, input>>

Step == LargerGap \/ FirstPass \/ Keep \/ Sink
Done == pc = "done" /\ UNCHANGED vars

Next == Step \/ Done

Spec     == Init /\ [][Next]_vars
FairSpec == Spec /\ WF_vars(Step)
-----------------------------------------------------------------------------
(* Properties                                                              *)

\* Types; the array always has an element of Value at each offset.
TypeOK ==
    /\ pc \in {"gap", "sift", "done"}
    /\ arr \in [Offset -> Value]
    /\ input \in [Offset -> Value]
    /\ wgap \in Nat /\ i \in Nat /\ j \in Nat
    /\ wrongCmp \in BOOLEAN

\* "wgap < nel" (cl_qsort.c:65): the two elements of every comparison, whatever
\* the comparison function answers, are elements of the array (cl_qsort.c:76-79).
InBounds == pc = "sift" => j - wgap \in Offset /\ j \in Offset /\ j - wgap < j

\* No element is lost or duplicated, also in the middle of the sort and with a
\* comparison function that is no order.
Permuted ==
    \A v \in Value :
        Cardinality({o \in Offset : arr[o] = v}) = Cardinality({o \in Offset : input[o] = v})

\* With the right comparison function the result is sorted (bsearch at
\* cl_qsort.c:130 relies on it).
Sorted ==
    pc = "done" /\ ~wrongCmp => \A o \in Offset : o + width \in Offset => InOrder(arr[o], arr[o + width])

\* The call returns, also with a comparison function that is no order.
Terminates == <>(pc = "done")
=============================================================================
