---------------------------- MODULE Ktoy_proofs -----------------------------
(***************************************************************************)
(* Theorems about Ktoy for any processes and values, and whichever of the  *)
(* registrations of ktoy_init fail.                                        *)
(***************************************************************************)
EXTENDS Ktoy, TLAPS

\* What is registered at each place of ktoy_init and ktoy_exit.
Registered ==
    /\ module = "coming" =>
         /\ pc \in {"region", "cdev", "class", "device", "value"}
         /\ pc = "region" => has = {}
         /\ pc = "cdev"   => has = {"region"}
         /\ pc = "class"  => has \subseteq {"region", "cdev"} /\ "region" \in has
         /\ pc = "device" => has \subseteq {"region", "cdev", "class"} /\ {"region", "class"} \subseteq has
         /\ pc = "value"  => {"region", "class"} \subseteq has
    /\ module = "live" => pc = "none" /\ {"region", "class"} \subseteq has
    /\ module = "going" =>
         /\ pc \in Resource
         /\ pc # "cdev" => "cdev" \notin has
         /\ pc \in {"class", "region"} => "device" \notin has
         /\ pc = "region" => "class" \notin has
    /\ module = "absent" => has = {}
    /\ "device" \notin has => node = "none"

\* Who has the device open, and when.
Opened ==
    /\ module \in {"absent", "going"} => open = {}
    /\ module = "coming" /\ pc # "value" => open = {}
    /\ module = "coming" => node # "group" /\ open \subseteq Root
    /\ module = "coming" => \A s \in last : s.by \in Root /\ s.at = "coming" /\ ktoy_val = s.val
    /\ module = "absent" => node = "none"

\* What images of the module that are gone have left registered.
Left == left \subseteq IF "class" \in InitFaults THEN {"ktoy_init"} \X {"region", "cdev"} ELSE {}

IInv == TypeOK /\ Registered /\ Opened /\ Left /\ SetKept

\* The invariant holds at the start.
LEMMA InitHolds == Init => IInv
BY DEF Init, IInv, TypeOK, Registered, Opened, Left, SetKept, Resource

\* Every step keeps the invariant.
LEMMA StepKeeps ==
    ASSUME IInv, [Next]_vars
    PROVE  IInv'
<1> USE DEF Resource
<1>1. CASE UNCHANGED vars
  BY <1>1 DEF IInv, TypeOK, Registered, Opened, Left, SetKept, vars
<1>2. CASE Insmod
  BY <1>2 DEF IInv, TypeOK, Registered, Opened, Left, SetKept, Insmod
<1>3. CASE AllocRegion
  BY <1>3 DEF IInv, TypeOK, Registered, Opened, Left, SetKept, AllocRegion
<1>4. CASE SetupCdev
  BY <1>4 DEF IInv, TypeOK, Registered, Opened, Left, SetKept, SetupCdev
<1>5. CASE CreateClass
  BY <1>5 DEF IInv, TypeOK, Registered, Opened, Left, SetKept, CreateClass
<1>6. CASE CreateDevice
  BY <1>6 DEF IInv, TypeOK, Registered, Opened, Left, SetKept, CreateDevice
<1>7. CASE SetInitial
  BY <1>7 DEF IInv, TypeOK, Registered, Opened, Left, SetKept, SetInitial
<1>8. ASSUME NEW r \in {"region", "class"}, InitFails(r) PROVE IInv'
  BY <1>8 DEF IInv, TypeOK, Registered, Opened, Left, SetKept, InitFails
<1>9. CASE Chgrp
  BY <1>9 DEF IInv, TypeOK, Registered, Opened, Left, SetKept, Chgrp
<1>10. CASE Rmmod
  BY <1>10 DEF IInv, TypeOK, Registered, Opened, Left, SetKept, Rmmod
<1>11. ASSUME NEW r \in Resource, Release(r) PROVE IInv'
  BY <1>11 DEF IInv, TypeOK, Registered, Opened, Left, SetKept, Release, AfterRelease, releaseOrder
<1>12. ASSUME NEW p \in Proc, Open(p) PROVE IInv'
  BY <1>12 DEF IInv, TypeOK, Registered, Opened, Left, SetKept, Open
<1>13. ASSUME NEW p \in Proc, Close(p) PROVE IInv'
  BY <1>13 DEF IInv, TypeOK, Registered, Opened, Left, SetKept, Close
<1>14. ASSUME NEW p \in Proc, NEW v \in Value, Set(p, v) PROVE IInv'
  BY <1>14 DEF IInv, TypeOK, Registered, Opened, Left, SetKept, Set, Record
<1>15. ASSUME NEW p \in Proc, SetBadAddress(p) PROVE IInv'
  BY <1>15 DEF IInv, TypeOK, Registered, Opened, Left, SetKept, SetBadAddress, Record
<1>16. CASE RemoveNode
  BY <1>16 DEF IInv, TypeOK, Registered, Opened, Left, SetKept, RemoveNode
<1> QED
  BY <1>1, <1>2, <1>3, <1>4, <1>5, <1>6, <1>7, <1>8, <1>9, <1>10, <1>11, <1>12, <1>13, <1>14, <1>15, <1>16
     DEF Next, Process

\* Types, for any processes and values.
THEOREM TypeCorrect == Spec => []TypeOK
<1>1. IInv /\ [Next]_vars => IInv'
  BY StepKeeps
<1>2. IInv => TypeOK
  BY DEF IInv
<1> QED
  BY <1>1, <1>2, InitHolds, PTL DEF Spec

\* In whatever way loading, its failures, unloading and the processes interleave, a
\* module that is removed from memory has no file open and no node, and ktoy_exit
\* has left no registration; the region and the cdev are left by ktoy_init when
\* class_create fails, and by nothing else.
THEOREM LeftOnlyByFailedClass == Spec => []NeverIntoUnloaded
<1>1. IInv /\ [Next]_vars => IInv'
  BY StepKeeps
<1>2. IInv => NeverIntoUnloaded
  BY DEF IInv, Registered, Opened, Left, NeverIntoUnloaded
<1> QED
  BY <1>1, <1>2, InitHolds, PTL DEF Spec

\* What the last SET wrote is undone by ktoy_init only, and only when root made it
\* before ktoy_init had given the value; never that of a process ldmod.sh lets in.
THEOREM SetsKept == Spec => []SetKept
<1>1. IInv /\ [Next]_vars => IInv'
  BY StepKeeps
<1>2. IInv => SetKept
  BY DEF IInv
<1> QED
  BY <1>1, <1>2, InitHolds, PTL DEF Spec
=============================================================================
