----------------------------- MODULE Daemonize -----------------------------
(***************************************************************************)
(* daemonize of c/cl_daemonize.h, called as in testdaemon.c: the process   *)
(* forks a child, which starts a session and forks the daemon.  The three  *)
(* run concurrently, and the terminal may hang up at any time.             *)
(***************************************************************************)
EXTENDS Integers

CONSTANT OpenMax  \* sysconf(_SC_OPEN_MAX)

VARIABLES
    step,    \* what each process does next
    session, \* its session, named for the leader
    ctty,    \* the sessions with a controlling terminal
    ignores, \* the processes that ignore SIGHUP
    desc,    \* open descriptors
    i,       \* the loop that closes them
    failed   \* a call has failed (auxiliary)

vars == <<step, session, ctty, ignores, desc, i, failed>>

Process == {"parent", "child", "daemon"}
forked(p) == IF p = "parent" THEN "child" ELSE "daemon"
Exists(p) == step[p] \notin {"none", "exited"}

\* The program is started from a shell, or as the leader of the session.
Init ==
    /\ step = [p \in Process |-> IF p = "parent" THEN "fork" ELSE "none"]
    /\ session \in {[p \in Process |-> s] : s \in {"shell", "parent"}}
    /\ ctty = {session["parent"]}
    /\ ignores = {}
    /\ desc = [p \in Process |-> 0 .. OpenMax - 1]
    /\ i = OpenMax
    /\ failed = FALSE

\* SIGHUP to the processes of a session (external).
HungUp(s, steps) ==
    [p \in Process |-> IF session[p] = s /\ p \notin ignores /\ Exists(p)
                       THEN "exited" ELSE steps[p]]

HangUp ==
    /\ \E s \in ctty : step' = HungUp(s, step) /\ ctty' = ctty \ {s}
    /\ UNCHANGED <<session, ignores, desc, i, failed>>

Fork(p) ==
    /\ step[p] \in {"fork", "fork again"}
    /\ LET c == forked(p)
       IN  /\ step' = [step EXCEPT ![p] = "exit",
                                   ![c] = IF p = "parent" THEN "setsid" ELSE "chdir"]
           /\ session' = [session EXCEPT ![c] = session[p]]
           /\ ignores' = IF p \in ignores THEN ignores \cup {c} ELSE ignores
           /\ desc' = [desc EXCEPT ![c] = desc[p]]
    /\ UNCHANGED <<ctty, i, failed>>

\* Both parents exit after their fork.  When the leader of a session exits its
\* terminal hangs up.
Exit(p) ==
    /\ step[p] = "exit"
    /\ LET steps == [step EXCEPT ![p] = "exited"]
       IN  step' = IF session[p] = p /\ p \in ctty THEN HungUp(p, steps) ELSE steps
    /\ ctty' = ctty \ {p}
    /\ UNCHANGED <<session, ignores, desc, i, failed>>

\* fork, setsid and chdir are checked.
Fails(p) ==
    /\ step[p] \in {"fork", "setsid", "fork again", "chdir"}
    /\ step' = [step EXCEPT ![p] = "exited"]
    /\ failed' = TRUE
    /\ UNCHANGED <<session, ctty, ignores, desc, i>>

\* Mutants: the session stays; the second fork is left out.
SetsidNot(p) ==
    /\ step[p] = "setsid"
    /\ step' = [step EXCEPT ![p] = "fork again"]
    /\ UNCHANGED <<session, ctty, ignores, desc, i, failed>>
SetsidOnly(p) ==
    /\ step[p] = "setsid"
    /\ session' = [session EXCEPT ![p] = p]
    /\ ignores' = ignores \cup {p}
    /\ step' = [step EXCEPT ![p] = "chdir"]
    /\ UNCHANGED <<ctty, desc, i, failed>>
\* setsid, and SIGHUP is ignored.
Setsid(p) ==
    /\ step[p] = "setsid"
    /\ session' = [session EXCEPT ![p] = p]
    /\ ignores' = ignores \cup {p}
    /\ step' = [step EXCEPT ![p] = "fork again"]
    /\ UNCHANGED <<ctty, desc, i, failed>>

\* umask, chdir, and the start of the loop; sysconf may say -1.
Chdir(p) ==
    /\ step[p] = "chdir"
    /\ i' \in {OpenMax, -1}
    /\ step' = [step EXCEPT ![p] = "close"]
    /\ UNCHANGED <<session, ctty, ignores, desc, failed>>

\* close(i) while i > 0, then openlog, which opens nothing yet, and return.
Close(p) ==
    /\ step[p] = "close"
    /\ IF i > 0 THEN /\ desc' = [desc EXCEPT ![p] = @ \ {i}]
                     /\ i' = i - 1 /\ UNCHANGED step
                ELSE /\ step' = [step EXCEPT ![p] = "run"]
                     /\ UNCHANGED <<desc, i>>
    /\ UNCHANGED <<session, ctty, ignores, failed>>

\* The caller opens a terminal: it becomes that of its session if it is the leader.
OpenTerminal(p) ==
    /\ step[p] = "run"
    /\ ctty' = IF session[p] = p THEN ctty \cup {p} ELSE ctty
    /\ step' = [step EXCEPT ![p] = "opened"]
    /\ UNCHANGED <<session, ignores, desc, i, failed>>

\* The caller is done.
Return(p) ==
    /\ step[p] \in {"run", "opened"}
    /\ step' = [step EXCEPT ![p] = "exited"]
    /\ UNCHANGED <<session, ctty, ignores, desc, i, failed>>

Runs(p) == Fork(p) \/ Exit(p) \/ Setsid(p) \/ Chdir(p) \/ Close(p)
Next == HangUp \/ \E p \in Process : Runs(p) \/ Fails(p) \/ OpenTerminal(p) \/ Return(p)

-----------------------------------------------------------------------------
(* Properties                                                              *)

\* daemonize returns only in the daemon, which leads no session and therefore never
\* gets a controlling terminal, whatever it opens (cl_daemonize.h:29-48); of the
\* descriptors of its caller it has at most 0, which the loop leaves out, unless
\* their number is unknown (cl_daemonize.h:59-61).
Detached ==
    \A p \in Process : step[p] \in {"run", "opened"} =>
        /\ p = "daemon" /\ session[p] # p /\ session[p] \notin ctty
        /\ i = 0 => desc[p] \subseteq {0}

\* Once it exists the daemon gets to run, whether the terminal hangs up and in
\* whatever order its ancestors exit, unless chdir fails; and they do exit
\* (cl_daemonize.h:20-53).
DaemonRuns ==
    /\ step["daemon"] = "chdir" ~> step["daemon"] = "run" \/ failed
    /\ \A p \in Process : step[p] = "exit" ~> ~Exists(p)
=============================================================================
