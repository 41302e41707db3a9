------------------------- MODULE IbvResources_proofs -------------------------
(***************************************************************************)
(* Theorems about IbvResources, whichever releases may fail.               *)
(***************************************************************************)
EXTENDS IbvResources, TLAPS

\* The entries of a plan from k on, and those before k that are objects.
Rest(plan, k)     == {plan[j] : j \in k .. Len(plan)}
Acquired(plan, k) == {plan[j] : j \in 1 .. k - 1} \cap Object

\* Pending speaks of the rest of the plan that runs.
LEMMA RestIsPending ==
    ASSUME NEW plan \in Seq(Object), NEW k \in 1 .. Len(plan)
    PROVE  ToSet(SubSeq(plan, k, Len(plan))) = Rest(plan, k)
<1> DEFINE sub == SubSeq(plan, k, Len(plan))
<1>1. /\ DOMAIN sub = 1 .. Len(plan) - k + 1
      /\ \A j \in 1 .. Len(plan) - k + 1 : sub[j] = plan[k + j - 1]
  OBVIOUS
<1>2. ASSUME NEW x \in ToSet(sub) PROVE x \in Rest(plan, k)
  <2>1. PICK j \in 1 .. Len(plan) - k + 1 : x = plan[k + j - 1]
    BY <1>1, <1>2 DEF ToSet
  <2>2. k + j - 1 \in k .. Len(plan)
    OBVIOUS
  <2> QED BY <2>1, <2>2 DEF Rest
<1>3. ASSUME NEW x \in Rest(plan, k) PROVE x \in ToSet(sub)
  <2>1. PICK l \in k .. Len(plan) : x = plan[l]
    BY <1>3 DEF Rest
  <2>2. l - k + 1 \in 1 .. Len(plan) - k + 1 /\ k + (l - k + 1) - 1 = l
    OBVIOUS
  <2>3. sub[l - k + 1] = x
    BY <1>1, <2>1, <2>2
  <2> QED BY <1>1, <2>2, <2>3 DEF ToSet
<1> QED BY <1>2, <1>3

\* No plan names an object twice, so what it releases is not in its rest.
LEMMA RestShrinks ==
    ASSUME NEW plan \in {CleanupPlan, DestroyPlan, ReleasePlan}, NEW k \in 1 .. Len(plan)
    PROVE  /\ plan \in Seq(Object) /\ plan[k] \in Object
           /\ Rest(plan, k + 1) = Rest(plan, k) \ {plan[k]}
           /\ k = Len(plan) => Rest(plan, k) = {plan[k]}
           /\ plan[k] = "buf" => "mr" \notin Rest(plan, k)
<1>1. /\ plan \in Seq(Object)
      /\ \A j, l \in 1 .. Len(plan) : plan[j] = plan[l] => j = l
      /\ \A j, l \in 1 .. Len(plan) : plan[j] = "mr" /\ plan[l] = "buf" => j < l
  <2>1. CASE plan = CleanupPlan
    BY <2>1 DEF CleanupPlan, Object
  <2>2. CASE plan = DestroyPlan
    BY <2>2 DEF DestroyPlan, Object
  <2>3. CASE plan = ReleasePlan
    BY <2>3 DEF ReleasePlan, Object
  <2> QED BY <2>1, <2>2, <2>3
<1>2. Rest(plan, k + 1) = Rest(plan, k) \ {plan[k]}
  BY <1>1 DEF Rest
<1>3. k = Len(plan) => Rest(plan, k) = {plan[k]}
  BY <1>1 DEF Rest
<1>4. plan[k] = "buf" => "mr" \notin Rest(plan, k)
  BY <1>1 DEF Rest
<1> QED BY <1>1, <1>2, <1>3, <1>4

-----------------------------------------------------------------------------
(* Acquisition                                                             *)

\* What each program has got when its next call comes; what that makes is made
\* from objects that are there.
LEMMA CreateOrder ==
    ASSUME NEW k \in 1 .. Len(CreatePlan)
    PROVE  LET got == Acquired(CreatePlan, k) \ (IF k > 5 THEN {"list"} ELSE {})
               more == Acquired(CreatePlan, k + 1) \ (IF k + 1 > 5 THEN {"list"} ELSE {})
           IN  /\ CreatePlan[k] \in Object => /\ more = got \cup {CreatePlan[k]}
                                              /\ Parents[CreatePlan[k]] \subseteq got
               /\ CreatePlan[k] \in {"find", "port"} => more = got /\ k < Len(CreatePlan)
               /\ CreatePlan[k] = "free" => more = got \ {"list"} /\ k < Len(CreatePlan)
               /\ more \subseteq ToSet(CleanupPlan)
BY DEF CreatePlan, CleanupPlan, Acquired, Object, Parents, ToSet

\* The same for verb-probe.
LEMMA ProbeOrder ==
    ASSUME NEW k \in 1 .. Len(ProbePlan)
    PROVE  LET got == Acquired(ProbePlan, k)
           IN  /\ Acquired(ProbePlan, k + 1) = got \cup ({ProbePlan[k]} \cap Object)
               /\ ProbePlan[k] \in Object => Parents[ProbePlan[k]] \subseteq got
<1>1. Acquired(ProbePlan, k + 1) = Acquired(ProbePlan, k) \cup ({ProbePlan[k]} \cap Object)
  BY DEF Acquired
<1>2. k \in 1 .. 9 /\ \A x : x \in Acquired(ProbePlan, k) <=> x \in Object /\ \E j \in 1 .. k - 1 : x = ProbePlan[j]
  BY DEF Acquired, ProbePlan
<1>3. ASSUME ProbePlan[k] \in Object, NEW o \in Parents[ProbePlan[k]] PROVE o \in Acquired(ProbePlan, k)
  BY <1>2, <1>3 DEF ProbePlan, Object, Parents
<1> QED BY <1>1, <1>3

-----------------------------------------------------------------------------
(* The invariant                                                           *)

Listed == IF i > 5 THEN {"list"} ELSE {}

\* While objects are acquired there is what the plan says, and a pointer to each.
Acquiring ==
    /\ phase \in {"create", "main", "probe"} => ptr = live /\ failed = {} /\ ~rc
    /\ phase = "create" => live = Acquired(CreatePlan, i) \ Listed
    /\ phase = "main" => i = 1 /\ live \subseteq ToSet(DestroyPlan)
    /\ phase = "probe" => i <= Len(ProbePlan) /\ live = Acquired(ProbePlan, i)

\* While they are released: of H, what is still to be released, everything exists,
\* and what exists besides has refused, or is in K.
Releasing(H, K) == H \subseteq live /\ live \subseteq H \cup K \cup failed

Held ==
    /\ phase = "cleanup" => /\ i <= Len(CleanupPlan) /\ ~rc
                            /\ ptr \subseteq Rest(CleanupPlan, i)
                            /\ Releasing(ptr, {})
    /\ phase = "destroy" => /\ i <= Len(DestroyPlan) /\ (rc => failed = {})
                            /\ Releasing(ptr \cap Rest(DestroyPlan, i), {})
    /\ phase = "exited" => live \subseteq failed /\ (rc => failed = {})
    /\ phase = "release" => /\ i <= Len(ReleasePlan) /\ ~rc
                            /\ Releasing(Rest(ReleasePlan, i), {"buf"}) /\ "buf" \in live
    /\ phase = "probed" /\ rc => "buf" \in live /\ live \subseteq {"buf"} \cup failed

ResInv == TypeOK /\ Acquiring /\ Held /\ ReleaseOrder

\* Releasing o, of which nothing is made that is still to be released.
LEMMA ReleaseStep ==
    ASSUME TypeOK, ReleaseOrder, NEW o \in Object, Release(o),
           NEW H, NEW K, o \in H, o \notin K, Releasing(H, K),
           o = "buf" => "mr" \notin H \cup K
    PROVE  /\ live' \subseteq Object /\ failed' \subseteq Object /\ failed \subseteq failed'
           /\ H \ {o} \subseteq live' /\ live' \subseteq (H \ {o}) \cup K \cup failed'
           /\ live \cap K \subseteq live'
           /\ ReleaseOrder'
<1>1. CASE CanRelease(o) /\ live' = live \ {o} /\ UNCHANGED failed
  <2>1. ASSUME failed = {}, NEW c \in live, c # o PROVE Parents[c] \subseteq live \ {o}
    <3>1. Parents[c] \subseteq live
      BY <2>1 DEF ReleaseOrder
    <3>2. CASE ~InUse(o)
      BY <2>1, <3>1, <3>2 DEF InUse
    <3>3. CASE o = "list"
      BY <2>1, <3>1, <3>3 DEF Parents, TypeOK, Object
    <3>4. CASE o = "buf"
      <4>1. c \in Object /\ c # "mr"
        BY <2>1, <3>4 DEF Releasing, TypeOK
      <4> QED BY <3>1, <3>4, <4>1 DEF Parents, Object
    <3> QED BY <1>1, <3>2, <3>3, <3>4 DEF CanRelease
  <2>2. ReleaseOrder'
    BY <1>1, <2>1 DEF ReleaseOrder
  <2> QED BY <1>1, <2>2 DEF TypeOK, Releasing
<1>2. CASE failed' = failed \cup {o} /\ UNCHANGED live
  <2>1. failed' # {}
    BY <1>2
  <2> QED BY <1>2, <2>1 DEF TypeOK, Releasing, ReleaseOrder
<1> QED BY <1>1, <1>2 DEF Release

\* Every step keeps the invariant.
LEMMA ResStep == ResInv /\ [Next]_vars => ResInv'
<1> SUFFICES ASSUME ResInv, [Next]_vars PROVE ResInv'
  OBVIOUS
<1>0. TypeOK /\ Acquiring /\ Held /\ ReleaseOrder
  BY DEF ResInv
<1>1. Len(CreatePlan) = 11 /\ Len(CleanupPlan) = 8 /\ Len(DestroyPlan) = 7
      /\ Len(ProbePlan) = 9 /\ Len(ReleasePlan) = 7
  BY DEF CreatePlan, CleanupPlan, DestroyPlan, ProbePlan, ReleasePlan
<1>2. CASE Acquire
  <2> DEFINE o == CreatePlan[i]
  <2>1. /\ phase = "create" /\ o \in Object /\ live = Acquired(CreatePlan, i) \ Listed /\ i \in 1 .. 11
        /\ ptr = live /\ failed = {} /\ ~rc
    BY <1>0, <1>1, <1>2 DEF Acquire, Acquiring, TypeOK
  <2>2. /\ live' = live \cup {o} /\ ptr' = live' /\ UNCHANGED <<failed, rc>>
        /\ \/ i = 11 /\ phase' = "main" /\ i' = 1
           \/ i < 11 /\ phase' = "create" /\ i' = i + 1
    BY <1>1, <1>2, <2>1 DEF Acquire, Created
  <2>3. /\ live' = Acquired(CreatePlan, i + 1) \ (IF i + 1 > 5 THEN {"list"} ELSE {})
        /\ Parents[o] \subseteq live
    BY <2>1, <2>2, CreateOrder, <1>1 DEF Listed
  <2>4. i = 11 => live' \subseteq ToSet(DestroyPlan)
    BY <2>3 DEF Acquired, CreatePlan, DestroyPlan, Object, ToSet
  <2>5. ReleaseOrder'
    BY <1>0, <2>2, <2>3 DEF ReleaseOrder
  <2> QED BY <1>0, <1>1, <2>1, <2>2, <2>3, <2>4, <2>5 DEF ResInv, TypeOK, Acquiring, Held, Listed
<1>3. CASE Query
  <2>1. i \in 1 .. 11 /\ phase = "create" /\ live = Acquired(CreatePlan, i) \ Listed
    BY <1>0, <1>1, <1>3 DEF Query, Acquiring, TypeOK
  <2>2. i < 11 /\ live = Acquired(CreatePlan, i + 1) \ (IF i + 1 > 5 THEN {"list"} ELSE {})
    BY <1>1, <1>3, <2>1, CreateOrder DEF Query, Listed
  <2> QED BY <1>0, <1>1, <1>3, <2>1, <2>2 DEF Query, ResInv, TypeOK, Acquiring, Held, Listed, ReleaseOrder
<1>4. CASE FreeList
  <2>1. i \in 1 .. 11 /\ phase = "create" /\ live = Acquired(CreatePlan, i) \ Listed /\ ptr = live
    BY <1>0, <1>1, <1>4 DEF FreeList, Acquiring, TypeOK
  <2>2. i < 11 /\ live' = Acquired(CreatePlan, i + 1) \ (IF i + 1 > 5 THEN {"list"} ELSE {})
    BY <1>1, <1>4, <2>1, CreateOrder DEF FreeList, Listed
  <2>3. ReleaseOrder'
    BY <1>0, <1>4 DEF FreeList, ReleaseOrder, Parents, TypeOK, Object
  <2> QED BY <1>0, <1>1, <1>4, <2>1, <2>2, <2>3 DEF FreeList, ResInv, TypeOK, Acquiring, Held, Listed
<1>5. CASE CreateError
  <2>1. i \in 1 .. 11 /\ phase = "create" /\ live = Acquired(CreatePlan, i) \ Listed
        /\ ptr = live /\ failed = {} /\ ~rc
    BY <1>0, <1>1, <1>5 DEF CreateError, Acquiring, TypeOK
  <2>2. live \subseteq Rest(CleanupPlan, 1)
    BY <2>1 DEF Acquired, CreatePlan, CleanupPlan, Rest, Object, Listed
  <2> QED BY <1>0, <1>1, <1>5, <2>1, <2>2
          DEF CreateError, ResInv, TypeOK, Acquiring, Held, Releasing, ReleaseOrder
<1>6. CASE Cleanup
  <2> DEFINE o == CleanupPlan[i]
  <2>1. /\ i \in 1 .. 8 /\ phase = "cleanup" /\ ~rc /\ ptr \subseteq Rest(CleanupPlan, i)
        /\ Releasing(ptr, {}) /\ ptr \subseteq Object
    BY <1>0, <1>1, <1>6 DEF Cleanup, Held, TypeOK
  <2>2. /\ o \in Object /\ Rest(CleanupPlan, i + 1) = Rest(CleanupPlan, i) \ {o}
        /\ i = 8 => Rest(CleanupPlan, i) = {o}
        /\ o = "buf" => "mr" \notin Rest(CleanupPlan, i)
    BY <1>1, <2>1, RestShrinks
  <2>3. /\ ptr' = ptr \ {o} /\ UNCHANGED rc
        /\ \/ i = 8 /\ phase' = "destroy" /\ i' = 1
           \/ i < 8 /\ phase' = "cleanup" /\ i' = i + 1
    BY <1>1, <1>6, <2>1 DEF Cleanup
  <2>4. live' \subseteq Object /\ failed' \subseteq Object /\ Releasing(ptr, {})' /\ ReleaseOrder'
    <3>1. CASE o \in ptr
      <4>1. Release(o)
        BY <1>6, <3>1 DEF Cleanup
      <4> QED BY <1>0, <2>1, <2>2, <2>3, <3>1, <4>1, ReleaseStep DEF Releasing
    <3>2. CASE o \notin ptr
      BY <1>0, <1>6, <2>1, <2>3, <3>2 DEF Cleanup, Releasing, ReleaseOrder, TypeOK
    <3> QED BY <3>1, <3>2
  <2>5. /\ ptr' \subseteq Rest(CleanupPlan, i + 1)
        /\ i = 8 => ptr' = {}
    BY <2>1, <2>2, <2>3
  <2>6. CASE i < 8
    BY <1>0, <1>1, <2>1, <2>3, <2>4, <2>5, <2>6 DEF ResInv, TypeOK, Acquiring, Held
  <2>7. CASE i = 8
    <3>1. Releasing(ptr \cap Rest(DestroyPlan, i), {})'
      BY <2>4, <2>5, <2>7 DEF Releasing
    <3> QED BY <1>0, <1>1, <2>1, <2>3, <2>4, <2>7, <3>1 DEF ResInv, TypeOK, Acquiring, Held
  <2> QED BY <2>1, <2>6, <2>7
<1>7. CASE MainRuns
  <2>1. phase = "main" /\ ptr = live /\ failed = {} /\ live \subseteq ToSet(DestroyPlan)
    BY <1>0, <1>7 DEF MainRuns, Acquiring
  <2>2. phase' = "destroy" /\ rc' \in BOOLEAN /\ UNCHANGED <<i, ptr, live, failed>> /\ i = 1
    BY <1>0, <1>7 DEF MainRuns, Acquiring
  <2>3. Rest(DestroyPlan, i) = ToSet(DestroyPlan)
    BY <2>2, RestIsPending DEF Rest, ToSet, DestroyPlan
  <2>4. Releasing(ptr \cap Rest(DestroyPlan, i), {})'
    BY <2>1, <2>2, <2>3 DEF Releasing
  <2> QED BY <1>0, <1>1, <2>1, <2>2, <2>4 DEF ResInv, TypeOK, Acquiring, Held, ReleaseOrder
<1>8. CASE Destroy
  <2> DEFINE o == DestroyPlan[i]
             H == ptr \cap Rest(DestroyPlan, i)
  <2>1. /\ i \in 1 .. 7 /\ phase = "destroy" /\ (rc => failed = {}) /\ Releasing(H, {})
    BY <1>0, <1>1, <1>8 DEF Destroy, Held, TypeOK
  <2>2. /\ o \in Object /\ Rest(DestroyPlan, i + 1) = Rest(DestroyPlan, i) \ {o}
        /\ i = 7 => Rest(DestroyPlan, i) = {o}
        /\ o = "buf" => "mr" \notin Rest(DestroyPlan, i)
    BY <1>1, <2>1, RestShrinks
  <2>3. /\ ptr' = ptr
        /\ \/ i = 7 /\ phase' = "exited" /\ i' = i
           \/ i < 7 /\ phase' = "destroy" /\ i' = i + 1
    BY <1>1, <1>8, <2>1 DEF Destroy
  <2>6. rc' \in BOOLEAN /\ (rc' => failed' = {})
    BY <1>8, <2>1 DEF Destroy
  <2>4. /\ live' \subseteq Object /\ failed' \subseteq Object /\ ReleaseOrder'
        /\ H \ {o} \subseteq live' /\ live' \subseteq (H \ {o}) \cup failed'
    <3>1. CASE o \in ptr
      <4>1. Release(o) /\ o \in Rest(DestroyPlan, i)
        BY <1>1, <1>8, <2>1, <3>1 DEF Destroy, Rest
      <4> QED BY <1>0, <2>1, <2>2, <3>1, <4>1, ReleaseStep
    <3>2. CASE o \notin ptr
      BY <1>0, <1>8, <2>1, <3>2 DEF Destroy, Releasing, ReleaseOrder, TypeOK
    <3> QED BY <3>1, <3>2
  <2>5. H \ {o} = ptr' \cap Rest(DestroyPlan, i + 1) /\ (i = 7 => H \ {o} = {})
    BY <2>2, <2>3
  <2>7. CASE i < 7
    <3>1. Releasing(ptr \cap Rest(DestroyPlan, i), {})'
      BY <2>3, <2>4, <2>5, <2>7 DEF Releasing
    <3> QED BY <1>0, <1>1, <2>1, <2>3, <2>4, <2>6, <2>7, <3>1 DEF ResInv, TypeOK, Acquiring, Held
  <2>8. CASE i = 7
    BY <1>0, <1>1, <2>3, <2>4, <2>5, <2>6, <2>8 DEF ResInv, TypeOK, Acquiring, Held
  <2> QED BY <2>1, <2>7, <2>8
<1>9. CASE ProbeFails
  BY <1>0, <1>9 DEF ProbeFails, ResInv, TypeOK, Acquiring, Held, ReleaseOrder
<1>10. CASE Probe
  <2> DEFINE o == ProbePlan[i]
  <2>1. /\ phase = "probe" /\ live = Acquired(ProbePlan, i) /\ i \in 1 .. 9
        /\ ptr = live /\ failed = {} /\ ~rc
    BY <1>0, <1>1, <1>10 DEF Probe, Acquiring, TypeOK
  <2>2. /\ live' = live \cup ({o} \cap Object) /\ ptr' = live' /\ UNCHANGED <<failed, rc>>
        /\ \/ i = 9 /\ phase' = "release" /\ i' = 1
           \/ i < 9 /\ phase' = "probe" /\ i' = i + 1
    BY <1>1, <1>10, <2>1 DEF Probe
  <2>3. live' = Acquired(ProbePlan, i + 1) /\ (o \in Object => Parents[o] \subseteq live)
    BY <1>1, <2>1, <2>2, ProbeOrder
  <2>4. i = 9 => live' = Rest(ReleasePlan, 1) \cup {"buf"}
    BY <2>3 DEF Acquired, ProbePlan, ReleasePlan, Object, Rest
  <2>5. ReleaseOrder'
    BY <1>0, <2>2, <2>3 DEF ReleaseOrder
  <2> QED BY <1>0, <1>1, <2>1, <2>2, <2>3, <2>4, <2>5 DEF ResInv, TypeOK, Acquiring, Held, Releasing
<1>11. CASE DelayedClose
  <2> DEFINE o == ReleasePlan[i]
             H == Rest(ReleasePlan, i)
  <2>1. /\ i \in 1 .. 7 /\ phase = "release" /\ ~rc /\ Releasing(H, {"buf"}) /\ "buf" \in live /\ Release(o)
    BY <1>0, <1>1, <1>11 DEF DelayedClose, Held, TypeOK
  <2>2. /\ o \in Object /\ o \in H /\ o # "buf" /\ Rest(ReleasePlan, i + 1) = H \ {o}
        /\ i = 7 => H = {o}
    BY <1>1, <2>1, RestShrinks DEF Rest, ReleasePlan
  <2>3. /\ ptr' = ptr
        /\ \/ i = 7 /\ phase' = "probed" /\ i' = i /\ rc' = TRUE
           \/ i < 7 /\ phase' = "release" /\ i' = i + 1 /\ rc' = rc
    BY <1>1, <1>11, <2>1 DEF DelayedClose
  <2>4. /\ live' \subseteq Object /\ failed' \subseteq Object /\ ReleaseOrder' /\ "buf" \in live'
        /\ H \ {o} \subseteq live' /\ live' \subseteq (H \ {o}) \cup {"buf"} \cup failed'
    BY <1>0, <2>1, <2>2, ReleaseStep
  <2>5. CASE i < 7
    <3>1. Releasing(Rest(ReleasePlan, i), {"buf"})'
      BY <2>2, <2>3, <2>4, <2>5 DEF Releasing
    <3> QED BY <1>0, <1>1, <2>1, <2>3, <2>4, <2>5, <3>1 DEF ResInv, TypeOK, Acquiring, Held
  <2>6. CASE i = 7
    BY <1>0, <1>1, <2>2, <2>3, <2>4, <2>6 DEF ResInv, TypeOK, Acquiring, Held
  <2> QED BY <2>1, <2>5, <2>6
<1>12. CASE Exited \/ UNCHANGED vars
  BY <1>0, <1>12 DEF Exited, vars, ResInv, TypeOK, Acquiring, Listed, Held, Releasing, ReleaseOrder
<1> QED
  BY <1>2, <1>3, <1>4, <1>5, <1>6, <1>7, <1>8, <1>9, <1>10, <1>11, <1>12 DEF Next

\* The invariant holds in every reachable state.
LEMMA ResInvariance == Spec => []ResInv
<1>1. Init => ResInv
  <2> SUFFICES ASSUME Init PROVE ResInv
    OBVIOUS
  <2>1. Acquired(CreatePlan, i) \ Listed = {} /\ Acquired(ProbePlan, i) = {}
    BY DEF Init, Acquired
  <2>2. i \in 1 .. Len(CreatePlan) /\ i <= Len(ProbePlan)
    BY DEF Init, CreatePlan, ProbePlan
  <2>3. TypeOK /\ ReleaseOrder
    BY <2>2 DEF Init, TypeOK, ReleaseOrder
  <2> QED BY <2>1, <2>2, <2>3 DEF Init, ResInv, Acquiring, Held
<1> QED BY <1>1, ResStep, PTL DEF Spec

\* The variables have their types.
THEOREM TypeCorrect == Spec => []TypeOK
BY ResInvariance, PTL DEF ResInv

\* Whichever call fails, resources_create, resources_destroy and verb-probe never
\* release what does not exist (ibv-rc.c:313-345, 613-657; verb-probe.c:123-129).
THEOREM NothingTwice == Spec => []NoDoubleRelease
<1>1. ResInv => NoDoubleRelease
  <2> SUFFICES ASSUME ResInv PROVE ptr \cap Pending \subseteq live
    BY DEF NoDoubleRelease
  <2>1. /\ phase = "cleanup" => Pending = Rest(CleanupPlan, i)
        /\ phase = "destroy" => Pending = Rest(DestroyPlan, i)
        /\ phase = "release" => Pending = Rest(ReleasePlan, i)
    BY RestIsPending, RestShrinks DEF ResInv, TypeOK, Held, Pending
  <2>2. phase \in {"exited", "probed"} => Pending = {}
    BY DEF Pending
  <2> QED BY <2>1, <2>2 DEF ResInv, TypeOK, Acquiring, Held, Releasing
<1> QED BY <1>1, ResInvariance, PTL

\* Nothing is left behind unless a release failed, and then main says so; verb-probe
\* leaves its buffer (ibv-rc.c:613-657; verb-probe.c:123-129).
THEOREM NothingLost == Spec => []NoLeak
<1>1. ResInv => NoLeak
  BY DEF ResInv, Held, NoLeak
<1> QED BY <1>1, ResInvariance, PTL

\* Until a release fails no object outlives what it was made from.
THEOREM ReleasedInOrder == Spec => []ReleaseOrder
BY ResInvariance, PTL DEF ResInv
=============================================================================
