------------------------------ MODULE AioRead ------------------------------
(***************************************************************************)
(* c/cl_aio.c: main starts an asynchronous read and waits in a busy loop   *)
(* for the flag its completion handler sets.  On __MACH__ the handler is a *)
(* signal handler, which runs in place of main; on __linux__ it is a       *)
(* thread of its own, which the end of main cuts off.                      *)
(***************************************************************************)
EXTENDS Naturals

VARIABLES
    platform, \* "mach" or "linux"
    main,     \* what main does next
    status,   \* "success", "failure" or "killed"
    handler,  \* the next statement of sigusr1_handler or finish_aio
    caught,   \* the handler of SIGUSR1 is installed
    request,  \* state of aio_file
    fin,
    fd        \* the file is open

vars == <<platform, main, status, handler, caught, request, fin, fd>>

Init ==
    /\ platform \in {"mach", "linux"}
    /\ main = "open" /\ status = "success"
    /\ handler = "none" /\ caught = FALSE
    /\ request = "none" /\ fin = FALSE /\ fd = FALSE

Alive == main # "exited"

\* A thread runs beside main, a signal handler instead of it.
MainMoves == platform = "mach" => handler \in {"none", "pending", "done"}

Open ==
    /\ main = "open"
    /\ \/ /\ fd' = TRUE /\ UNCHANGED status
          /\ main' = IF platform = "mach" THEN "sigaction" ELSE "aio_read"
       \/ main' = "exited" /\ status' = "failure" /\ UNCHANGED fd
    /\ UNCHANGED <<platform, handler, caught, request, fin>>

Sigaction ==
    /\ main = "sigaction"
    /\ caught' = TRUE
    /\ main' = "aio_read"
    /\ UNCHANGED <<platform, status, handler, request, fin, fd>>

\* A request that is refused is returned and the file closed at once.
AioRead ==
    /\ main = "aio_read"
    /\ \/ request' = "queued" /\ main' = "loop" /\ UNCHANGED <<status, fd>>
       \/ request' = "returned" /\ fd' = FALSE /\ main' = "exited" /\ status' = "failure"
    /\ UNCHANGED <<platform, handler, caught, fin>>

\* Mutant: main waits for the request, not for the handler.
LoopOnRequest ==
    /\ main = "loop" /\ request # "queued"
    /\ main' = "exited"
    /\ UNCHANGED <<platform, status, handler, caught, request, fin, fd>>
\* while (!fin), with a compiler barrier in the loop, and return 0.
Loop ==
    /\ main = "loop" /\ fin /\ MainMoves
    /\ main' = "exited"
    /\ UNCHANGED <<platform, status, handler, caught, request, fin, fd>>

\* The kernel has read the data; whoever waits for the request is told.
ReadDone ==
    /\ request = "queued"
    /\ request' = "done" /\ handler' = "pending"
    /\ UNCHANGED <<platform, main, status, caught, fin, fd>>

\* The default action of SIGUSR1 ends the process.
Notify ==
    /\ Alive /\ handler = "pending"
    /\ IF platform = "mach" /\ ~caught
       THEN main' = "exited" /\ status' = "killed" /\ UNCHANGED handler
       ELSE handler' = "fin" /\ UNCHANGED <<main, status>>
    /\ UNCHANGED <<platform, caught, request, fin, fd>>

SetFin ==
    /\ Alive /\ handler = "fin"
    /\ fin' = TRUE /\ handler' = "aio_return"
    /\ UNCHANGED <<platform, main, status, caught, request, fd>>

Return ==
    /\ Alive /\ handler = "aio_return"
    /\ request' = "returned" /\ handler' = "close"
    /\ UNCHANGED <<platform, main, status, caught, fin, fd>>

CloseFile ==
    /\ Alive /\ handler = "close"
    /\ fd' = FALSE /\ handler' = "done"
    /\ UNCHANGED <<platform, main, status, caught, request, fin>>

Main    == Open \/ Sigaction \/ AioRead \/ Loop
Handler == Notify \/ SetFin \/ Return \/ CloseFile
Next    == Main \/ ReadDone \/ Handler

-----------------------------------------------------------------------------
(* Properties                                                              *)

\* What main leaves behind when it succeeds.  Where the completion handler is a
\* signal handler it has done all its work; where it is a thread, main may be faster
\* and leave the last two calls to the end of the process.
Clean ==
    /\ status # "killed"
    /\ status = "success" =>
          /\ request \in {"done", "returned"}
          /\ platform = "mach" => request = "returned" /\ ~fd

\* Once the read is asked for main ends, not before the data has arrived, and cleanly
\* (cl_aio.c:23-34, 74-86): no notification is missed or kills it.
EndsClean == main = "aio_read" ~> ~Alive /\ Clean
=============================================================================
