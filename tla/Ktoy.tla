-------------------------------- MODULE Ktoy --------------------------------
(***************************************************************************)
(* The character device of kmod/ktoy: ktoy_init and ktoy_exit, one         *)
(* registration at a time, against processes that open /dev/ktoy and call  *)
(* its unlocked ioctl, and the scripts ldmod.sh and unldmod.sh.  The       *)
(* kernel's part is external: device nodes, the reference a file holds on  *)
(* its module, and the fate of a module whose init or exit has returned.   *)
(***************************************************************************)
EXTENDS FiniteSets

CONSTANTS Proc,      \* processes
          Root,      \* those of root: they may open the node before its group is changed
          Value,     \* integers they set
          Initial,   \* 0xdeadbeef
          Zero,      \* what __get_user leaves when the address is bad
          InitFaults \* registrations that may fail

ASSUME ProcAssumption == Root \subseteq Proc /\ IsFiniteSet(Proc)
Resource == {"region", "cdev", "class", "device"}
ASSUME FaultAssumption == InitFaults \subseteq Resource

VARIABLES
    module,    \* "absent", "coming" (ktoy_init runs), "live", "going" (ktoy_exit runs)
    pc,        \* the next registration or release
    has,       \* what is registered
    ktoy_val,
    node,      \* /dev/ktoy: "none", "root" (as it is created), "group" (after ldmod.sh)
    open,      \* processes that have the device open
    left,      \* what was still registered when the module was removed from memory,
               \* and after which of its functions (auxiliary)
    last       \* the last SET: who, its value, what the module was at; or {} (auxiliary)

vars == <<module, pc, has, ktoy_val, node, open, left, last>>

Init ==
    /\ module = "absent" /\ pc = "none" /\ has = {}
    /\ ktoy_val = Zero /\ node = "none" /\ open = {}
    /\ left = {} /\ last = {}

-----------------------------------------------------------------------------
(* insmod and ktoy_init                                                    *)

\* A fresh image of the module; a new region has a new number.
Insmod ==
    /\ module = "absent"
    /\ module' = "coming" /\ pc' = "region"
    /\ ktoy_val' = Zero /\ last' = {}
    /\ UNCHANGED <<has, node, open, left>>

\* alloc_chrdev_region or class_create fails and init returns the error, without a
\* release: the module is removed from memory.
InitFails(r) ==
    /\ module = "coming" /\ pc = r /\ r \in InitFaults
    /\ module' = "absent" /\ pc' = "none"
    /\ left' = left \cup ({"ktoy_init"} \X has) /\ has' = {}
    /\ UNCHANGED <<ktoy_val, node, open, last>>

AllocRegion ==
    /\ module = "coming" /\ pc = "region"
    /\ has' = has \cup {"region"} /\ pc' = "cdev"
    /\ UNCHANGED <<module, ktoy_val, node, open, left, last>>

\* ktoy_setup_cdev; its error is printed and otherwise ignored.
SetupCdev ==
    /\ module = "coming" /\ pc = "cdev"
    /\ \/ has' = has \cup {"cdev"}
       \/ "cdev" \in InitFaults /\ UNCHANGED has
    /\ pc' = "class"
    /\ UNCHANGED <<module, ktoy_val, node, open, left, last>>

CreateClass ==
    /\ module = "coming" /\ pc = "class"
    /\ has' = has \cup {"class"} /\ pc' = "device"
    /\ UNCHANGED <<module, ktoy_val, node, open, left, last>>

\* Nobody looks at what device_create returns.
CreateDevice ==
    /\ module = "coming" /\ pc = "device"
    /\ \/ has' = has \cup {"device"} /\ node' = "root"
       \/ "device" \in InitFaults /\ UNCHANGED <<has, node>>
    /\ pc' = "value"
    /\ UNCHANGED <<module, ktoy_val, open, left, last>>

\* The last step of ktoy_init, after the device can be opened.
SetInitial ==
    /\ module = "coming" /\ pc = "value"
    /\ ktoy_val' = Initial
    /\ module' = "live" /\ pc' = "none"
    /\ UNCHANGED <<has, node, open, left, last>>

\* Mutant: the node is given to the group as soon as it appears.
ChgrpEarly ==
    /\ node = "root"
    /\ node' = "group"
    /\ UNCHANGED <<module, pc, has, ktoy_val, open, left, last>>
\* ldmod.sh, once insmod has succeeded.
Chgrp ==
    /\ module = "live" /\ node = "root"
    /\ node' = "group"
    /\ UNCHANGED <<module, pc, has, ktoy_val, open, left, last>>

-----------------------------------------------------------------------------
(* rmmod and ktoy_exit                                                     *)

\* unldmod.sh removes the node before it asks for rmmod, which may refuse.
RemoveNode ==
    /\ node # "none"
    /\ node' = "none"
    /\ UNCHANGED <<module, pc, has, ktoy_val, open, left, last>>

\* A module with an open file is not removed.
Rmmod ==
    /\ module = "live" /\ open = {}
    /\ module' = "going" /\ pc' = "cdev"
    /\ UNCHANGED <<has, ktoy_val, node, open, left, last>>

releaseOrder == [r \in Resource |-> CASE r = "cdev"   -> "device"
                                      [] r = "device" -> "class"
                                      [] r = "class"  -> "region"
                                      [] r = "region" -> "none"]
\* Of the registrations that are left when ktoy_exit returns none can be undone.
AfterRelease(r, kept) ==
    /\ node' = IF r = "device" THEN "none" ELSE node
    /\ pc' = releaseOrder[r]
    /\ IF pc' # "none"
         THEN has' = kept /\ UNCHANGED <<module, left>>
         ELSE /\ module' = "absent" /\ has' = {}
              /\ left' = left \cup ({"ktoy_exit"} \X kept)
    /\ UNCHANGED <<ktoy_val, open, last>>

\* Mutant: cdev_del is left out.
ReleaseNotCdev(r) ==
    /\ module = "going" /\ pc = r
    /\ AfterRelease(r, IF r = "cdev" THEN has ELSE has \ {r})

\* One release of ktoy_exit; after the last one the module is removed from memory.
Release(r) ==
    /\ module = "going" /\ pc = r
    /\ AfterRelease(r, has \ {r})

-----------------------------------------------------------------------------
(* processes                                                               *)

\* The kernel takes a reference on the module, which it refuses when it is going.
Open(p) ==
    /\ p \notin open
    /\ "cdev" \in has
    /\ node = "group" \/ (node = "root" /\ p \in Root)
    /\ module # "going"
    /\ open' = open \cup {p}
    /\ UNCHANGED <<module, pc, has, ktoy_val, node, left, last>>

Close(p) ==
    /\ p \in open
    /\ open' = open \ {p}
    /\ UNCHANGED <<module, pc, has, ktoy_val, node, left, last>>

\* The last SET, as SetKept looks back at it.
Record(p, v) == last' = {[by |-> p, val |-> v, at |-> module]}

\* KTOY_IOC_SET.
Set(p, v) ==
    /\ p \in open
    /\ ktoy_val' = v
    /\ Record(p, v)
    /\ UNCHANGED <<module, pc, has, node, open, left>>

\* KTOY_IOC_SET with an address that is in range and not mapped: -EFAULT, and the
\* destination of __get_user is zero.
SetBadAddress(p) ==
    /\ p \in open
    /\ ktoy_val' = Zero
    /\ Record(p, Zero)
    /\ UNCHANGED <<module, pc, has, node, open, left>>

\* Every other command (GET, RESET, an unknown one, an address out of range)
\* changes nothing.
Process(p) ==
    \/ Open(p) \/ Close(p) \/ SetBadAddress(p)
    \/ \E v \in Value : Set(p, v)

Next ==
    \/ Insmod \/ AllocRegion \/ SetupCdev \/ CreateClass \/ CreateDevice \/ SetInitial
    \/ \E r \in {"region", "class"} : InitFails(r)
    \/ Chgrp \/ RemoveNode \/ Rmmod
    \/ \E r \in Resource : Release(r)
    \/ \E p \in Proc : Process(p)

Spec == Init /\ [][Next]_vars

-----------------------------------------------------------------------------
(* Properties                                                              *)

\* Types; a live module has what ktoy_init reports to have registered.
TypeOK ==
    /\ module \in {"absent", "coming", "live", "going"}
    /\ pc \in Resource \cup {"value", "none"}
    /\ has \subseteq Resource
    /\ ktoy_val \in Value \cup {Initial, Zero}
    /\ node \in {"none", "root", "group"}
    /\ open \subseteq Proc
    /\ left \subseteq {"ktoy_init", "ktoy_exit"} \X Resource
    /\ last \subseteq [by : Proc, val : Value \cup {Zero}, at : {"coming", "live"}]
    /\ module = "live" => {"region", "class"} \subseteq has

\* Nothing leads into a module that is not in memory: ktoy_exit leaves no
\* registration and no file is open by then (ktoy.c:57-77, 105-114).  Only the
\* return of ktoy_init when class_create has failed (ktoy.c:94-96) leaves some: the
\* region and the cdev, never the node through which a process would find them.
NeverIntoUnloaded ==
    /\ module = "absent" => open = {} /\ node = "none"
    /\ left \subseteq IF "class" \in InitFaults THEN {"ktoy_init"} \X {"region", "cdev"} ELSE {}

\* What the last SET wrote, a failing one's zero too, is what GET returns, except
\* that ktoy_init publishes the device before it gives the value (ktoy.c:99-100): a
\* SET of root in between is undone.  Nobody whom ldmod.sh lets in, which is after
\* insmod (ldmod.sh:7, 22-23), meets that.
SetKept ==
    \A s \in last :
        \/ ktoy_val = s.val
        \/ s.by \in Root /\ s.at = "coming" /\ ktoy_val = Initial
=============================================================================
