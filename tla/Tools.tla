------------------------------- MODULE Tools -------------------------------
(***************************************************************************)
(* The small programs of codelib side by side: the audio player, the       *)
(* asynchronous read, the daemon, the progress bar, client and server.     *)
(* They share nothing, so a behaviour is a run of one of them (program)    *)
(* while the others have not been started.                                 *)
(***************************************************************************)
EXTENDS AudioPlayer

CONSTANTS OpenMax,                                     \* Daemonize
          Uint16, Uint64, Targets, Incs, Columns, MaxSends, \* PBar
          Client                                       \* CliSrv

ASSUME LimitAssumption == OpenMax \in Nat
ASSUME WidthAssumption ==
    /\ Uint16 \in Nat \ {0} /\ Uint64 \in Nat \ {0}
    /\ Targets \subseteq 0 .. Uint64 - 1 /\ Incs \subseteq 0 .. Uint64 - 1
    /\ Columns \subseteq 0 .. Uint16 - 1 /\ Columns # {}

VARIABLES
    program, \* the one that runs
    platform, main, status, handler, caught, request, fin, fd,
    step, session, ctty, ignores, desc, i, failed,
    goroutine, total, finish, inc, ts_cols, line, sends,
    server, served, client, result, sent, echo

Aio    == INSTANCE AioRead
Daemon == INSTANCE Daemonize
Bar    == INSTANCE PBar
Echo   == INSTANCE CliSrv

aioVars    == <<platform, main, status, handler, caught, request, fin, fd>>
daemonVars == <<step, session, ctty, ignores, desc, i, failed>>
barVars    == <<goroutine, total, finish, inc, ts_cols, line, sends>>
echoVars   == <<server, served, client, result, sent, echo>>
toolVars   == <<program, vars, aioVars, daemonVars, barVars, echoVars>>

\* A program that does not run has one initial state.
ToolInit ==
    /\ program \in {"audio", "aio", "daemonize", "pbar", "clisrv"}
    /\ Init /\ (program = "audio" \/ packets = 0)
    /\ Aio!Init /\ (program = "aio" \/ platform = "mach")
    /\ Daemon!Init /\ (program = "daemonize" \/ session["parent"] = "shell")
    /\ Bar!Init /\ (program = "pbar" \/ ts_cols = CHOOSE n \in Columns : TRUE)
    /\ Echo!Init

Audio    == program = "audio" /\ UNCHANGED <<program, aioVars, daemonVars, barVars, echoVars>>
ReadRuns == program = "aio" /\ UNCHANGED <<program, vars, daemonVars, barVars, echoVars>>
Forks    == program = "daemonize" /\ UNCHANGED <<program, vars, aioVars, barVars, echoVars>>
Draws    == program = "pbar" /\ UNCHANGED <<program, vars, aioVars, daemonVars, echoVars>>
Talks    == program = "clisrv" /\ UNCHANGED <<program, vars, aioVars, daemonVars, barVars>>

ToolNext ==
    \/ Audio /\ Next
    \/ ReadRuns /\ Aio!Next
    \/ Forks /\ Daemon!Next
    \/ Draws /\ Bar!Next
    \/ Talks /\ Echo!Next

\* The run loop dispatches its events and the queue plays; main, the handler and
\* the read go on; each of the forked processes, the server and each client is
\* scheduled.  The bar has no obligation: its sender may stop.
ToolSpec ==
    /\ ToolInit /\ [][ToolNext]_toolVars
    /\ WF_toolVars(Audio /\ RunLoop) /\ WF_toolVars(Audio /\ Play) /\ WF_toolVars(Audio /\ Halt)
    /\ WF_toolVars(ReadRuns /\ Aio!Main) /\ WF_toolVars(ReadRuns /\ Aio!ReadDone)
    /\ WF_toolVars(ReadRuns /\ Aio!Handler)
    /\ \A p \in Daemon!Process :
          WF_toolVars(Forks /\ (Daemon!Runs(p) \/ Daemon!Fails(p) \/ Daemon!Return(p)))
    /\ WF_toolVars(Talks /\ Echo!Server)
    /\ \A c \in Client : WF_toolVars(Talks /\ Echo!ClientRuns(c))

-----------------------------------------------------------------------------
(* Properties, besides those of AudioPlayer                                *)

\* main of the asynchronous read ends, and where its completion handler is a signal
\* handler, not before that has returned the request and closed the file.
EndsClean == Aio!EndsClean

\* daemonize returns without session, terminal and descriptors of its caller but 0.
Detached == Daemon!Detached

\* No hang-up and no order of the exits keeps the daemon from running.
DaemonRuns == Daemon!DaemonRuns

\* A line of the progress bar fits, and is full exactly at the end.
LineFits == Bar!LineFits

\* Every client ends, and the one that is served gets its line.
Answered == Echo!Answered
=============================================================================
