---------------------------- MODULE IbvResources ----------------------------
(***************************************************************************)
(* struct resources of c/ibtest/ibv-rc.c: the order in which               *)
(* resources_create acquires the socket, the device list, the verbs        *)
(* objects and the buffer, its cleanup at resources_create_exit, and       *)
(* resources_destroy at main_exit.  What main does between the two (module *)
(* IbvRc) is one step here that succeeds or fails.  The same for           *)
(* verb-probe.c, which acquires most of the same objects: a behaviour is a *)
(* run of either program.                                                  *)
(***************************************************************************)
EXTENDS Naturals, Sequences, SequencesExt

CONSTANTS ReleaseFaults  \* the objects whose release may fail for reasons of their own

Object == {"sock", "list", "ctx", "pd", "cq", "buf", "mr", "qp", "chan", "cq1", "cq2"}
ASSUME ReleaseAssumption == ReleaseFaults \subseteq Object \ {"buf", "list"}

\* The calls of resources_create.  "find" stands for the checks of the device
\* list, "free" for ibv_free_device_list, "port" for ibv_query_port.
CreatePlan == <<"sock", "list", "find", "ctx", "free", "port", "pd", "cq", "buf", "mr", "qp">>
CleanupPlan == <<"qp", "mr", "buf", "cq", "pd", "ctx", "list", "sock">>
\* Mutant: the region is forgotten.
DestroyPlanNoMr == <<"qp", "buf", "cq", "pd", "ctx", "sock">>
DestroyPlan == <<"qp", "mr", "buf", "cq", "pd", "ctx", "sock">>

\* main of verb-probe.c, up to "delay close" and from there on.
ProbePlan == <<"list", "ctx", "query", "pd", "buf", "mr", "chan", "cq1", "cq2">>
ReleasePlan == <<"cq2", "cq1", "chan", "mr", "pd", "list", "ctx">>

\* The objects a live object was made from (external: libibverbs refuses to
\* release an object in use with EBUSY).
Parents == [o \in Object |->
              CASE o = "qp" -> {"pd", "cq"}
                [] o = "mr" -> {"pd", "buf"}
                [] o \in {"pd", "cq", "cq2", "chan"} -> {"ctx"}
                [] o = "cq1" -> {"ctx", "chan"}
                [] OTHER -> {}]

VARIABLES
    phase,   \* the function that runs
    i,       \* the next entry of its plan
    ptr,     \* the fields of res (and dev_list) that are not NULL / -1
    live,    \* the objects that exist
    failed,  \* the objects whose release has failed
    rc       \* result of main: TRUE for 0

vars == <<phase, i, ptr, live, failed, rc>>

Init ==
    /\ phase \in {"create", "probe"}
    /\ i = 1
    /\ ptr = {}
    /\ live = {}
    /\ failed = {}
    /\ rc = FALSE

-----------------------------------------------------------------------------
(* resources_create                                                        *)

\* After the last call the function returns 0 to main.
Created == IF i = Len(CreatePlan) THEN phase' = "main" /\ i' = 1
                                  ELSE i' = i + 1 /\ UNCHANGED phase

Acquire ==
    /\ phase = "create"
    /\ CreatePlan[i] \in Object
    /\ ptr' = ptr \cup {CreatePlan[i]}
    /\ live' = live \cup {CreatePlan[i]}
    /\ Created
    /\ UNCHANGED <<failed, rc>>

Query ==
    /\ phase = "create"
    /\ CreatePlan[i] \in {"find", "port"}
    /\ i' = i + 1
    /\ UNCHANGED <<phase, ptr, live, failed, rc>>

FreeList ==
    /\ phase = "create"
    /\ CreatePlan[i] = "free"
    /\ live' = live \ {"list"}
    /\ ptr' = ptr \ {"list"}
    /\ i' = i + 1
    /\ UNCHANGED <<phase, failed, rc>>

\* Any call but the release of the list may fail: goto resources_create_exit.
CreateError ==
    /\ phase = "create"
    /\ CreatePlan[i] # "free"
    /\ phase' = "cleanup"
    /\ i' = 1
    /\ UNCHANGED <<ptr, live, failed, rc>>

-----------------------------------------------------------------------------
(* release of one object; an object in use cannot be released              *)

InUse(o) == \E c \in live : o \in Parents[c]

\* free(res->buf) and ibv_free_device_list return nothing and cannot fail.
CanRelease(o) == o \in {"buf", "list"} \/ ~InUse(o)

Release(o) ==
    \/ /\ CanRelease(o)
       /\ live' = live \ {o}
       /\ UNCHANGED failed
    \/ /\ ~CanRelease(o) \/ o \in ReleaseFaults
       /\ failed' = failed \cup {o}
       /\ UNCHANGED live

\* Mutant: the cleanup leaves the pointer of what it has released.
CleanupKeepsPointer ==
    /\ phase = "cleanup"
    /\ IF CleanupPlan[i] \in ptr THEN Release(CleanupPlan[i]) ELSE UNCHANGED <<live, failed>>
    /\ IF i = Len(CleanupPlan) THEN phase' = "destroy" /\ i' = 1
                               ELSE i' = i + 1 /\ UNCHANGED phase
    /\ UNCHANGED <<ptr, rc>>

\* The cleanup ignores results and clears every pointer; resources_create then
\* returns non-zero and main goes to main_exit.
Cleanup ==
    /\ phase = "cleanup"
    /\ IF CleanupPlan[i] \in ptr THEN Release(CleanupPlan[i]) ELSE UNCHANGED <<live, failed>>
    /\ ptr' = ptr \ {CleanupPlan[i]}
    /\ IF i = Len(CleanupPlan) THEN phase' = "destroy" /\ i' = 1
                               ELSE i' = i + 1 /\ UNCHANGED phase
    /\ UNCHANGED rc

-----------------------------------------------------------------------------
(* main                                                                    *)

MainRuns ==
    /\ phase = "main"
    /\ rc' \in BOOLEAN
    /\ phase' = "destroy"
    /\ UNCHANGED <<i, ptr, live, failed>>

\* Mutant: the result of a release is ignored.
DestroyIgnoresErrors ==
    /\ phase = "destroy"
    /\ IF DestroyPlan[i] \in ptr THEN Release(DestroyPlan[i]) ELSE UNCHANGED <<live, failed>>
    /\ IF i = Len(DestroyPlan) THEN phase' = "exited" /\ UNCHANGED i
                               ELSE i' = i + 1 /\ UNCHANGED phase
    /\ UNCHANGED <<ptr, rc>>

\* resources_destroy goes on after a failure and reports it.
Destroy ==
    /\ phase = "destroy"
    /\ IF DestroyPlan[i] \in ptr THEN Release(DestroyPlan[i]) ELSE UNCHANGED <<live, failed>>
    /\ rc' = (rc /\ failed' = failed)
    /\ IF i = Len(DestroyPlan) THEN phase' = "exited" /\ UNCHANGED i
                               ELSE i' = i + 1 /\ UNCHANGED phase
    /\ UNCHANGED ptr

-----------------------------------------------------------------------------
(* verb-probe.c                                                            *)

\* A failing call ends the process at once, and so does a list without a device; a
\* failing malloc only makes ibv_reg_mr fail.
ProbeFails ==
    /\ phase = "probe" /\ ProbePlan[i] # "buf"
    /\ phase' = "probed"
    /\ UNCHANGED <<i, ptr, live, failed, rc>>

Probe ==
    /\ phase = "probe"
    /\ ptr' = ptr \cup ({ProbePlan[i]} \cap Object)
    /\ live' = live \cup ({ProbePlan[i]} \cap Object)
    /\ IF i = Len(ProbePlan) THEN phase' = "release" /\ i' = 1
                             ELSE i' = i + 1 /\ UNCHANGED phase
    /\ UNCHANGED <<failed, rc>>

\* Results are ignored; the buffer is left to exit.
DelayedClose ==
    /\ phase = "release"
    /\ Release(ReleasePlan[i])
    /\ IF i = Len(ReleasePlan) THEN phase' = "probed" /\ rc' = TRUE /\ UNCHANGED i
                               ELSE i' = i + 1 /\ UNCHANGED <<phase, rc>>
    /\ UNCHANGED ptr

Exited == phase \in {"exited", "probed"} /\ UNCHANGED vars

Next == \/ Acquire \/ Query \/ FreeList \/ CreateError
        \/ Cleanup \/ MainRuns \/ Destroy
        \/ Probe \/ ProbeFails \/ DelayedClose \/ Exited

Spec == Init /\ [][Next]_vars
-----------------------------------------------------------------------------
(* Properties                                                              *)

TypeOK ==
    /\ phase \in {"create", "cleanup", "main", "destroy", "exited",
                  "probe", "release", "probed"}
    /\ i \in 1 .. Len(CreatePlan)
    /\ ptr \subseteq Object
    /\ live \subseteq Object
    /\ failed \subseteq Object
    /\ rc \in BOOLEAN

\* The objects the running function has still to look at.
Pending == CASE phase = "cleanup" -> ToSet(SubSeq(CleanupPlan, i, Len(CleanupPlan)))
             [] phase = "destroy" -> ToSet(SubSeq(DestroyPlan, i, Len(DestroyPlan)))
             [] phase = "release" -> ToSet(SubSeq(ReleasePlan, i, Len(ReleasePlan)))
             [] phase \in {"exited", "probed"} -> {}
             [] OTHER -> Object

\* Whichever call fails, a pointer that will still be released (ibv-rc.c:313-345,
\* 613-657; verb-probe.c:123-129) points to an object that exists: nothing is
\* released twice.
NoDoubleRelease == ptr \cap Pending \subseteq live

\* Whichever call of resources_create or main fails, the process leaves with
\* nothing allocated unless a release itself has failed, and then says so.
\* verb-probe leaves only its buffer, if nothing failed.
NoLeak ==
    /\ phase = "exited" /\ live # {} => failed # {} /\ ~rc
    /\ phase = "probed" /\ rc /\ failed = {} => live = {"buf"}

\* As long as no release has failed an object never outlives what it was made
\* from: the releases run against the order of resources_create.
ReleaseOrder ==
    failed = {} => \A o \in live : Parents[o] \subseteq live
=============================================================================
