---------------------------- MODULE Tools_proofs ----------------------------
(***************************************************************************)
(* Theorems about the small programs: the daemon, for every limit of       *)
(* descriptors; the progress bar, for every width of the integers and of   *)
(* the terminal and all totals and increments; the player, for every       *)
(* length of the file and of the buffers; the asynchronous read; client    *)
(* and server, for every number of clients.                                *)
(***************************************************************************)
EXTENDS Tools, TLAPS

-----------------------------------------------------------------------------
(* The daemon                                                              *)

Names == {"shell", "parent", "child", "daemon"}
Steps == {"none", "fork", "setsid", "fork again", "exit", "chdir", "close", "run", "opened", "exited"}
DaemonTypes ==
    /\ step \in [Daemon!Process -> Steps]
    /\ session \in [Daemon!Process -> Names]
    /\ desc \in [Daemon!Process -> SUBSET Nat]
    /\ i \in Int

\* Who takes which step, and the session of the two that leave the caller's.
Roles ==
    /\ step["parent"] \in {"fork", "exit", "exited"}
    /\ step["child"] \in {"none", "setsid", "fork again", "exit", "exited"}
    /\ step["daemon"] \in {"none", "chdir", "close", "run", "opened", "exited"}
    /\ step["child"] \in {"fork again", "exit"} => session["child"] = "child"
    /\ step["daemon"] # "none" => session["daemon"] = "child"
    /\ step["parent"] = "fork" => step["child"] = "none"
    /\ step["child"] \in {"none", "setsid", "fork again"} => step["daemon"] = "none"

\* The new session never has a terminal.
NoTerminal == ctty \subseteq {"shell", "parent"}

\* The loop leaves the descriptors up to i.
Closing ==
    /\ \A p \in Daemon!Process : desc[p] \subseteq 0 .. OpenMax
    /\ step["daemon"] \in {"close", "run", "opened"} /\ i >= 0 => desc["daemon"] \subseteq 0 .. i

DaemonInv == DaemonTypes /\ Roles /\ NoTerminal /\ Closing

\* A hang-up ends processes and does nothing else to them.
LEMMA HangUpEnds ==
    ASSUME NEW s, NEW steps \in [Daemon!Process -> Steps]
    PROVE  /\ Daemon!HungUp(s, steps) \in [Daemon!Process -> Steps]
           /\ \A p \in Daemon!Process :
                 /\ Daemon!HungUp(s, steps)[p] \in {steps[p], "exited"}
                 /\ step[p] = "none" => Daemon!HungUp(s, steps)[p] = steps[p]
<1>1. "exited" \in Steps
  BY DEF Steps
<1>2. ASSUME NEW p \in Daemon!Process
      PROVE  /\ Daemon!HungUp(s, steps)[p] \in {steps[p], "exited"}
             /\ step[p] = "none" => Daemon!HungUp(s, steps)[p] = steps[p]
  BY DEF Daemon!HungUp, Daemon!Exists
<1>3. Daemon!HungUp(s, steps) \in [Daemon!Process -> Steps]
  BY <1>1 DEF Daemon!HungUp
<1> QED BY <1>2, <1>3

\* Processes end.
LEMMA EndsKeep ==
    ASSUME DaemonInv, step' \in [Daemon!Process -> Steps],
           \A q \in Daemon!Process : /\ step'[q] \in {step[q], "exited"}
                                     /\ step[q] = "none" => step'[q] = "none",
           ctty' \subseteq ctty, UNCHANGED <<session, desc, i>>
    PROVE  DaemonInv'
BY DEF DaemonInv, DaemonTypes, Roles, NoTerminal, Closing, Daemon!Process

\* Every step of the three processes and of the terminal keeps the invariant.
LEMMA DaemonStep == DaemonInv /\ Daemon!Next => DaemonInv'
<1> SUFFICES ASSUME DaemonInv, Daemon!Next PROVE DaemonInv'
  OBVIOUS
<1> USE DEF Daemon!Process
<1>1. /\ "parent" # "child" /\ "parent" # "daemon" /\ "child" # "daemon"
      /\ step \in [Daemon!Process -> Steps]
  BY DEF DaemonInv, DaemonTypes
<1>2. CASE Daemon!HangUp
  <2>1. PICK s \in ctty : step' = Daemon!HungUp(s, step) /\ ctty' = ctty \ {s}
    BY <1>2 DEF Daemon!HangUp
  <2>2. UNCHANGED <<session, desc, i>>
    BY <1>2 DEF Daemon!HangUp
  <2> QED BY <1>1, <2>1, <2>2, HangUpEnds, EndsKeep
<1>3. ASSUME NEW p \in Daemon!Process, Daemon!Fork(p) PROVE DaemonInv'
  <2>1. p \in {"parent", "child"} /\ Daemon!forked(p) = IF p = "parent" THEN "child" ELSE "daemon"
    BY <1>3 DEF Daemon!Fork, Daemon!forked, DaemonInv, Roles
  <2> DEFINE c == Daemon!forked(p)
  <2>2. /\ step' = [step EXCEPT ![p] = "exit", ![c] = IF p = "parent" THEN "setsid" ELSE "chdir"]
        /\ session' = [session EXCEPT ![c] = session[p]]
        /\ desc' = [desc EXCEPT ![c] = desc[p]]
        /\ UNCHANGED <<ctty, i>>
    BY <1>3 DEF Daemon!Fork
  <2>3. CASE p = "parent"
    <3>1. c = "child" /\ step["parent"] = "fork" /\ step["child"] = "none" /\ step["daemon"] = "none"
      <4>1. c = "child"
        BY <2>1, <2>3
      <4>2. step["parent"] = "fork"
        BY <1>3, <2>3 DEF Daemon!Fork, DaemonInv, Roles
      <4>3. step["child"] = "none" /\ step["daemon"] = "none"
        BY <4>2 DEF DaemonInv, Roles
      <4> QED BY <4>1, <4>2, <4>3
    <3> HIDE DEF c
    <3>2. DaemonTypes'
      BY <1>1, <2>2, <2>3, <3>1 DEF DaemonInv, DaemonTypes, Steps
    <3>3. Roles'
      BY <1>1, <2>2, <2>3, <3>1 DEF Roles
    <3> QED BY <1>1, <2>2, <2>3, <3>1, <3>2, <3>3 DEF DaemonInv, NoTerminal, Closing, DaemonTypes
  <2>4. CASE p = "child"
    <3>1. c = "daemon" /\ step["child"] = "fork again"
      BY <1>1, <1>3, <2>1, <2>4 DEF Daemon!Fork, DaemonInv, Roles
    <3> HIDE DEF c
    <3> QED BY <1>1, <2>2, <2>4, <3>1 DEF DaemonInv, DaemonTypes, Steps, Roles, NoTerminal, Closing
  <2> QED BY <2>1, <2>3, <2>4
<1>4. ASSUME NEW p \in Daemon!Process, Daemon!Exit(p) PROVE DaemonInv'
  <2> DEFINE steps == [step EXCEPT ![p] = "exited"]
  <2>1. /\ steps \in [Daemon!Process -> Steps] /\ step' \in {steps, Daemon!HungUp(p, steps)}
        /\ \A q \in Daemon!Process : /\ steps[q] \in {step[q], "exited"}
                                     /\ step[q] = "none" => steps[q] = "none"
    BY <1>1, <1>4 DEF Daemon!Exit, Steps
  <2>2. ctty' \subseteq ctty /\ UNCHANGED <<session, desc, i>>
    BY <1>4 DEF Daemon!Exit
  <2> HIDE DEF steps
  <2>3. /\ step' \in [Daemon!Process -> Steps]
        /\ \A q \in Daemon!Process : /\ step'[q] \in {steps[q], "exited"}
                                     /\ step[q] = "none" => step'[q] = steps[q]
    BY <2>1, HangUpEnds
  <2>4. \A q \in Daemon!Process : /\ step'[q] \in {step[q], "exited"}
                                  /\ step[q] = "none" => step'[q] = "none"
    BY <2>1, <2>3
  <2> QED BY <2>2, <2>3, <2>4, EndsKeep
<1>5. ASSUME NEW p \in Daemon!Process, Daemon!Fails(p) \/ Daemon!Return(p) PROVE DaemonInv'
  BY <1>5 DEF Daemon!Fails, Daemon!Return, DaemonInv, DaemonTypes, Steps, Roles, NoTerminal, Closing
<1>6. ASSUME NEW p \in Daemon!Process, Daemon!Setsid(p) PROVE DaemonInv'
  BY <1>6 DEF Daemon!Setsid, DaemonInv, DaemonTypes, Steps, Names, Roles, NoTerminal, Closing
<1>7. ASSUME NEW p \in Daemon!Process, Daemon!Chdir(p) PROVE DaemonInv'
  <2>1. /\ p = "daemon" /\ step' = [step EXCEPT ![p] = "close"] /\ i' \in {OpenMax, -1}
        /\ UNCHANGED <<session, ctty, desc>>
    BY <1>7 DEF Daemon!Chdir, DaemonInv, Roles
  <2>2. i' \in Int /\ (i' >= 0 => i' = OpenMax)
    BY <2>1, LimitAssumption
  <2>3. Closing'
    BY <2>1, <2>2 DEF DaemonInv, Closing
  <2> QED
    BY <1>7, <2>1, <2>2, <2>3 DEF Daemon!Chdir, DaemonInv, DaemonTypes, Steps, Roles, NoTerminal
<1>8. ASSUME NEW p \in Daemon!Process, Daemon!Close(p) PROVE DaemonInv'
  <2>1. p = "daemon"
    BY <1>8 DEF Daemon!Close, DaemonInv, Roles
  <2>2. CASE i > 0
    <3>1. step' = step /\ i' = i - 1 /\ desc' = [desc EXCEPT !["daemon"] = @ \ {i}]
          /\ UNCHANGED <<session, ctty>> /\ step["daemon"] = "close"
      BY <1>8, <2>1, <2>2 DEF Daemon!Close
    <3>2. desc'["daemon"] = desc["daemon"] \ {i} /\ \A q \in Daemon!Process : desc'[q] \subseteq desc[q]
      BY <3>1 DEF DaemonInv, DaemonTypes
    <3>3. desc["daemon"] \subseteq 0 .. i /\ i \in Nat
      BY <2>2, <3>1 DEF DaemonInv, DaemonTypes, Closing
    <3>4. desc'["daemon"] \subseteq 0 .. i - 1
      BY <3>2, <3>3
    <3>5. Closing'
      BY <3>1, <3>2, <3>4 DEF DaemonInv, Closing
    <3>6. desc' \in [Daemon!Process -> SUBSET Nat] /\ i' \in Int
      BY <3>1, <3>3 DEF DaemonInv, DaemonTypes
    <3> QED BY <3>1, <3>5, <3>6 DEF DaemonInv, DaemonTypes, Roles, NoTerminal
  <2>3. CASE ~(i > 0)
    BY <1>8, <2>1, <2>3 DEF Daemon!Close, DaemonInv, DaemonTypes, Steps, Roles, NoTerminal, Closing
  <2> QED BY <2>2, <2>3
<1>9. ASSUME NEW p \in Daemon!Process, Daemon!OpenTerminal(p) PROVE DaemonInv'
  <2>1. p = "daemon" /\ session[p] # p
    BY <1>9 DEF Daemon!OpenTerminal, DaemonInv, Roles
  <2> QED
    BY <1>9, <2>1 DEF Daemon!OpenTerminal, DaemonInv, DaemonTypes, Steps, Roles, NoTerminal, Closing
<1> QED
  BY <1>2, <1>3, <1>4, <1>5, <1>6, <1>7, <1>8, <1>9 DEF Daemon!Next, Daemon!Runs

\* So it holds in every reachable state, whichever program runs.
LEMMA DaemonOrder == ToolSpec => []DaemonInv
<1>1. ToolInit => DaemonInv
  BY LimitAssumption DEF ToolInit, Daemon!Init, DaemonInv, DaemonTypes, Steps, Names, Roles, NoTerminal,
     Closing, Daemon!Process
<1>2. DaemonInv /\ [ToolNext]_toolVars => DaemonInv'
  <2>1. CASE Daemon!Next
    BY <2>1, DaemonStep
  <2>2. CASE UNCHANGED daemonVars
    BY <2>2 DEF daemonVars, DaemonInv, DaemonTypes, Roles, NoTerminal, Closing
  <2> QED BY <2>1, <2>2 DEF ToolNext, toolVars, Audio, ReadRuns, Forks, Draws, Talks
<1> QED BY <1>1, <1>2, PTL DEF ToolSpec

\* daemonize returns only in a process without a controlling terminal, which cannot
\* get one, and with descriptor 0 at most (cl_daemonize.h:20-61), whatever the limit
\* of descriptors, and whenever the terminal hangs up or a call fails.
THEOREM DaemonDetached == ToolSpec => []Detached
<1>1. DaemonInv => Detached
  <2> SUFFICES ASSUME DaemonInv, NEW p \in Daemon!Process, step[p] \in {"run", "opened"}
               PROVE  /\ p = "daemon" /\ session[p] # p /\ session[p] \notin ctty
                      /\ i = 0 => desc[p] \subseteq {0}
    BY DEF Detached, Daemon!Detached
  <2>1. p = "daemon"
    BY DEF DaemonInv, Roles, Daemon!Process
  <2>2. session[p] = "child"
    BY <2>1 DEF DaemonInv, Roles
  <2>3. i = 0 => desc[p] \subseteq 0 .. 0
    BY <2>1 DEF DaemonInv, Closing
  <2> QED BY <2>1, <2>2, <2>3 DEF DaemonInv, NoTerminal
<1> QED BY <1>1, DaemonOrder, PTL
\* What a step does to a daemon that is not yet detached from the directory and the
\* descriptors of its caller.
Survives == step["daemon"] \in {"chdir", "close"} /\ step'["daemon"] = "exited" =>
               step["daemon"] = "chdir" /\ failed'

\* No hang-up of any terminal and no exit of an ancestor ends the daemon before it
\* runs: only its own chdir can, when it fails (cl_daemonize.h:29-53).
THEOREM DaemonSurvives == ToolSpec => [][Survives]_toolVars
<1>1. DaemonInv /\ [ToolNext]_toolVars => Survives
  <2> SUFFICES ASSUME DaemonInv, [ToolNext]_toolVars, step["daemon"] \in {"chdir", "close"},
                      step'["daemon"] = "exited"
               PROVE  step["daemon"] = "chdir" /\ failed'
    BY DEF Survives
  <2>1. /\ step \in [Daemon!Process -> Steps] /\ session["daemon"] = "child"
        /\ ctty \subseteq {"shell", "parent"} /\ step["daemon"] # "exited"
        /\ step["child"] \notin {"none", "setsid", "fork again"} /\ step["parent"] # "fork"
    BY DEF DaemonInv, DaemonTypes, Roles, NoTerminal
  <2>2. ASSUME NEW s, NEW steps, s # "child", Daemon!HungUp(s, steps)["daemon"] = "exited"
        PROVE  steps["daemon"] = "exited"
    BY <2>1, <2>2 DEF Daemon!HungUp, Daemon!Process
  <2>3. Daemon!Next
    BY <2>1 DEF ToolNext, toolVars, daemonVars, Audio, ReadRuns, Forks, Draws, Talks
  <2>4. ~Daemon!HangUp
    BY <2>1, <2>2 DEF Daemon!HangUp
  <2>5. ASSUME NEW p \in Daemon!Process, Daemon!Exit(p) PROVE FALSE
    <3>1. p # "daemon"
      BY <2>1, <2>5 DEF Daemon!Exit
    <3> DEFINE steps == [step EXCEPT ![p] = "exited"]
    <3>2. steps["daemon"] = step["daemon"]
      BY <2>1, <3>1 DEF Daemon!Process
    <3>3. p \in ctty => p # "child"
      BY <2>1
    <3> QED BY <2>1, <2>2, <2>5, <3>2, <3>3 DEF Daemon!Exit
  <2>6. ASSUME NEW p \in Daemon!Process, Daemon!Fork(p) PROVE FALSE
    BY <2>1, <2>6 DEF Daemon!Fork, Daemon!Process, Daemon!forked
  <2>7. ASSUME NEW p \in Daemon!Process, Daemon!Fails(p)
        PROVE  step["daemon"] = "chdir" /\ failed'
    BY <2>1, <2>7 DEF Daemon!Fails, Daemon!Process
  <2>8. ASSUME NEW p \in Daemon!Process, Daemon!Setsid(p) \/ Daemon!Chdir(p) \/ Daemon!Close(p) \/ Daemon!OpenTerminal(p)
        PROVE  FALSE
    BY <2>1, <2>8 DEF Daemon!Setsid, Daemon!Chdir, Daemon!Close, Daemon!OpenTerminal, Daemon!Process
  <2>9. ASSUME NEW p \in Daemon!Process, Daemon!Return(p) PROVE FALSE
    BY <2>1, <2>9 DEF Daemon!Return, Daemon!Process
  <2> QED BY <2>3, <2>4, <2>5, <2>6, <2>7, <2>8, <2>9 DEF Daemon!Next, Daemon!Runs
<1> QED BY <1>1, DaemonOrder, PTL DEF ToolSpec

-----------------------------------------------------------------------------
(* The progress bar                                                        *)

\* A part a of t, scaled to w, is at most w, and w only when the whole is there.
LEMMA Scale ==
    ASSUME NEW a \in Nat, NEW t \in Nat, NEW w \in Nat, t > 0, a <= t, w > 0
    PROVE  /\ (a * w) \div t \in 0 .. w
           /\ (a * w) \div t = w <=> a = t
<1> DEFINE x == a * w
           d == x \div t
<1>1. x \in Nat /\ x <= t * w
  OBVIOUS
<1>2. d \in Nat /\ t * d <= x /\ x < t * d + t
  <2> HIDE DEF x
  <2> QED BY <1>1
<1>3. d <= w
  <2> HIDE DEF x, d
  <2>1. SUFFICES ASSUME d >= w + 1 PROVE FALSE
    BY <1>2
  <2>2. t * d >= t * (w + 1)
    BY <1>2, <2>1
  <2>3. t * (w + 1) = t * w + t
    OBVIOUS
  <2> QED BY <1>1, <1>2, <2>2, <2>3
<1>4. CASE a = t
  <2>1. x = t * w
    BY <1>4
  <2>2. d >= w
    <3> HIDE DEF x, d
    <3>1. SUFFICES ASSUME d + 1 <= w PROVE FALSE
      BY <1>2
    <3>2. t * (d + 1) <= t * w
      BY <1>2, <3>1
    <3>3. t * (d + 1) = t * d + t
      BY <1>2
    <3> QED BY <1>2, <2>1, <3>2, <3>3
  <2> QED BY <1>2, <1>3, <1>4, <2>2
<1>5. CASE a < t
  <2>1. x < t * w
    BY <1>5
  <2>2. d # w
    <3> HIDE DEF x, d
    <3>1. SUFFICES ASSUME d = w PROVE FALSE
      OBVIOUS
    <3>2. t * d = t * w
      BY <3>1
    <3> QED BY <1>1, <1>2, <2>1, <3>2
  <2> QED BY <1>2, <1>3, <1>5, <2>2
<1> QED BY <1>4, <1>5

\* The line drawn for a width, a position and a total.
Drawn(cols, at, t) ==
    LET w  == (cols - Bar!minw) % Uint16
        bw == ((at * w) % Uint64) \div t
    IN  [cols |-> cols, at |-> at, pct |-> ((at * 100) % Uint64) \div t,
         bar |-> bw, blank |-> (w - bw) % Uint16, ended |-> at = t]

LineInv ==
    /\ total \in Nat /\ finish \in Nat /\ inc \in Nat /\ ts_cols \in Columns
    /\ line # Bar!NoLine =>
          \E cols \in Columns, at \in Nat, t \in Nat \ {0} : at <= t /\ line = Drawn(cols, at, t)

\* Every step of the bar, of its sender and of the terminal keeps the invariant.
LEMMA BarStep == LineInv /\ Bar!Next => LineInv'
<1> SUFFICES ASSUME LineInv, Bar!Next PROVE LineInv'
  OBVIOUS
<1>1. CASE Bar!Resize
  BY <1>1 DEF Bar!Resize, LineInv
<1>2. CASE Bar!Start
  BY <1>2, WidthAssumption DEF Bar!Start, LineInv
<1>3. CASE Bar!Receive
  BY <1>3, WidthAssumption DEF Bar!Receive, LineInv
<1>4. CASE Bar!Closed
  BY <1>4 DEF Bar!Closed, LineInv
<1>5. CASE Bar!Check
  <2>1. finish' \in Nat /\ UNCHANGED <<total, inc, ts_cols>>
    BY <1>5, WidthAssumption DEF Bar!Check, LineInv
  <2>2. CASE line' = line
    BY <2>1, <2>2 DEF LineInv
  <2>3. CASE line' # line
    <3>1. line' = Drawn(ts_cols, finish', total) /\ finish' <= total /\ total # 0
      BY <1>5, <2>1, <2>3 DEF Bar!Check, Bar!drawn, Drawn, LineInv
    <3> QED BY <2>1, <3>1 DEF LineInv
  <2> QED BY <2>2, <2>3
<1> QED BY <1>1, <1>2, <1>3, <1>4, <1>5 DEF Bar!Next

\* So it holds in every reachable state, whichever program runs.
LEMMA BarOrder == ToolSpec => []LineInv
<1>1. ToolInit => LineInv
  BY DEF ToolInit, Bar!Init, LineInv
<1>2. LineInv /\ [ToolNext]_toolVars => LineInv'
  <2>1. CASE Bar!Next
    BY <2>1, BarStep
  <2>2. CASE UNCHANGED barVars
    BY <2>2 DEF barVars, LineInv
  <2> QED BY <2>1, <2>2 DEF ToolNext, toolVars, Audio, ReadRuns, Forks, Draws, Talks
<1> QED BY <1>1, <1>2, PTL DEF ToolSpec

\* On a terminal with room for it, while no product of 64 bits overflows, a line of
\* the bar is as wide as intended, and full, with 100%, exactly at the end
\* (pbar.go:49-61), for every total, width and sequence of increments, also when the
\* terminal is resized or the bar started again.
THEOREM LinesFit == ToolSpec => []LineFits
<1>1. LineInv => LineFits
  <2> DEFINE w == line.cols - Bar!minw
  <2> SUFFICES ASSUME LineInv, line # Bar!NoLine, w > 0,
                      line.at * w < Uint64, line.at * 100 < Uint64
               PROVE  /\ 5 + 1 + line.bar + 1 + line.blank + 1 = line.cols - Bar!fraction
                      /\ line.ended <=> line.bar = w
                      /\ line.ended <=> line.pct = 100
    BY DEF LineFits, Bar!LineFits
  <2>1. PICK cols \in Columns, at \in Nat, t \in Nat \ {0} : at <= t /\ line = Drawn(cols, at, t)
    BY DEF LineInv
  <2>2. line.cols = cols /\ line.at = at
    BY <2>1 DEF Drawn
  <2>3. Bar!minw = 32 /\ Bar!fraction = 24
    BY DEF Bar!minw, Bar!fraction
  <2>4. cols \in 0 .. Uint16 - 1 /\ w = cols - 32
    BY <2>2, <2>3, WidthAssumption
  <2>5. w \in Nat /\ w < Uint16 /\ (cols - Bar!minw) % Uint16 = w
    BY <2>3, <2>4, WidthAssumption
  <2>6. at * w \in Nat /\ at * w < Uint64 /\ at * 100 < Uint64
    BY <2>2, <2>5
  <2> HIDE DEF w
  <2>7. (at * w) % Uint64 = at * w /\ (at * 100) % Uint64 = at * 100
    BY <2>6, WidthAssumption
  <2>8. /\ line.bar = (at * w) \div t
        /\ line.pct = (at * 100) \div t
        /\ line.blank = (w - line.bar) % Uint16
        /\ line.ended = (at = t)
    BY <2>1, <2>5, <2>7 DEF Drawn
  <2>9. line.bar \in 0 .. w /\ (line.bar = w <=> at = t)
    BY <2>1, <2>5, <2>8, Scale
  <2>10. line.pct = 100 <=> at = t
    BY <2>1, <2>8, Scale
  <2>11. line.blank = w - line.bar
    BY <2>5, <2>8, <2>9, WidthAssumption
  <2>12. 5 + 1 + line.bar + 1 + line.blank + 1 = line.cols - Bar!fraction
    BY <2>2, <2>3, <2>4, <2>9, <2>11
  <2> QED BY <2>8, <2>9, <2>10, <2>12, Zenon
<1> QED BY <1>1, BarOrder, PTL
-----------------------------------------------------------------------------
(* The audio player                                                        *)

\* The packet at position n of what is heard: the m packets of the first three
\* buffers, then the file from its beginning.
Heard(m, n) == IF n <= m THEN n - 1 ELSE n - 1 - m

\* The buffers of q, one after another, hold what is heard after position f, up to t.
Holds(m, q, d, f, t) ==
    \E off \in [1 .. Len(q) + 1 -> Nat] :
       /\ off[1] = f /\ off[Len(q) + 1] = t
       /\ \A k \in 1 .. Len(q) :
             /\ off[k + 1] = off[k] + Len(d[q[k]])
             /\ \A j \in 1 .. Len(d[q[k]]) : d[q[k]][j] = Heard(m, off[k] + j)

\* InTurns of a queue q and the pending events p.
Apart(q, p) ==
    /\ \A k, l \in 1 .. Len(q) : q[k] = q[l] => k = l
    /\ \A k, l \in 1 .. Len(p) : p[k] = p[l] /\ p[k] # 0 => k = l
    /\ \A k \in 1 .. Len(q), l \in 1 .. Len(p) : q[k] # p[l]

\* What was played and what is queued is all that was read, in order.
Stream ==
    /\ \A n \in 1 .. Len(played) : played[n] = Heard(mCurrentPacket, n)
    /\ Holds(mCurrentPacket, queue, data, Len(played), mCurrentPacket + currentPacket)

\* Until the listener has heard the start, which it does only if the queue has started,
\* there are three buffers at most, and nothing plays.
Unfilled ==
    Len(data) # 6 =>
        /\ queue = <<>> /\ played = <<>> /\ ~stopping /\ currentPacket = 0
        /\ phase = "loop" => Len(data) = 3 /\ pending = IF running THEN <<IsRunning>> ELSE <<>>
        /\ phase # "loop" => data = <<>> /\ pending = <<>>

\* Afterwards the queue is stopped only at the end of the file, and the listener
\* hears of it only when everything has been played.
Filled ==
    Len(data) = 6 =>
        /\ phase # "start" /\ (phase = "end" => ~running)
        /\ stopping => currentPacket = packets
        /\ running => \A k \in 1 .. Len(pending) : pending[k] # IsRunning
        /\ ~running => stopping /\ queue = <<>>
        /\ Stream

PlayerInv ==
    /\ TypeOK /\ data \in Seq(Seq(Nat)) /\ played \in Seq(Nat)
    /\ phase = "loop" => mBuffers \in [Slot -> 1 .. Len(data)]
    /\ Apart(queue, pending) /\ Unfilled /\ Filled

LEMMA ApartInTurns ==
    ASSUME queue \in Seq(Nat), pending \in Seq(Nat), Apart(queue, pending) PROVE InTurns
<1>1. DOMAIN queue = 1 .. Len(queue) /\ DOMAIN pending = 1 .. Len(pending)
  OBVIOUS
<1>2. IsInjective(queue)
  BY <1>1 DEF Apart, IsInjective
<1> QED BY <1>1, <1>2 DEF Apart, InTurns, IsRunning

\* What a read returns.
LEMMA ReadProperty ==
    ASSUME packets \in Nat, NEW f \in 0 .. packets
    PROVE  /\ read(f) \in Seq(Nat) /\ f + Len(read(f)) \in 0 .. packets
           /\ read(f) = <<>> <=> f = packets
           /\ \A j \in 1 .. Len(read(f)) : read(f)[j] = f + j - 1
<1> DEFINE n == IF f >= packets THEN 0
                ELSE IF f + bufferSizeInSamples <= packets THEN bufferSizeInSamples
                ELSE packets - f
<1>1. n \in Nat /\ f + n <= packets /\ (n = 0 <=> f = packets)
  BY SizeAssumption
<1> HIDE DEF n
<1>2. read(f) = [k \in 1 .. n |-> f + k - 1]
  BY DEF read, n
<1>3. \A k \in 1 .. n : f + k - 1 \in Nat
  BY <1>1
<1>4. read(f) \in Seq(Nat) /\ Len(read(f)) = n
  BY <1>1, <1>2, <1>3
<1>5. read(f) = <<>> <=> n = 0
  BY <1>1, <1>4
<1> QED BY <1>1, <1>2, <1>4, <1>5

\* Sequences, taken apart and put together.
LEMMA TailProperty ==
    ASSUME NEW S, NEW q \in Seq(S), q # <<>>
    PROVE  /\ Head(q) \in S /\ Head(q) = q[1] /\ 1 \in 1 .. Len(q)
           /\ Tail(q) \in Seq(S) /\ Len(q) \in Nat /\ Len(Tail(q)) = Len(q) - 1
           /\ \A k \in 1 .. Len(Tail(q)) : k + 1 \in 1 .. Len(q) /\ k + 1 # 1 /\ Tail(q)[k] = q[k + 1]
OBVIOUS

LEMMA AsFunction ==
    ASSUME NEW S, NEW d \in Seq(S)
    PROVE  d \in [1 .. Len(d) -> S] /\ Len(d) \in Nat /\ \A k \in 1 .. Len(d) : d[k] \in S
OBVIOUS

LEMMA AsSequence ==
    ASSUME NEW S, NEW n \in Nat, NEW d \in [1 .. n -> S] PROVE d \in Seq(S) /\ Len(d) = n
OBVIOUS

LEMMA SeqOfMore ==
    ASSUME NEW S, NEW T, NEW q \in Seq(S), \A k \in 1 .. Len(q) : q[k] \in T PROVE q \in Seq(T)
<1>1. Len(q) \in Nat /\ q = [k \in 1 .. Len(q) |-> q[k]]
  OBVIOUS
<1> QED BY <1>1

LEMMA ConcatProperty ==
    ASSUME NEW S, NEW q \in Seq(S), NEW p \in Seq(S)
    PROVE  /\ q \o p \in Seq(S) /\ Len(q \o p) = Len(q) + Len(p)
           /\ \A k \in 1 .. Len(p) : (q \o p)[Len(q) + k] = p[k]
OBVIOUS

LEMMA AppendProperty ==
    ASSUME NEW S, NEW q \in Seq(S), NEW b \in S
    PROVE  /\ Append(q, b) \in Seq(S) /\ Len(q) \in Nat /\ Len(Append(q, b)) = Len(q) + 1
           /\ \A k \in 1 .. Len(q) : Append(q, b)[k] = q[k]
           /\ Append(q, b)[Len(q) + 1] = b
           /\ \A k \in 1 .. Len(q) + 1 : k \in 1 .. Len(q) \/ k = Len(q) + 1
OBVIOUS

\* A buffer goes from the queue to the events, or the other way.
LEMMA ApartPlayed ==
    ASSUME NEW q \in Seq(Nat), NEW p \in Seq(Nat), q # <<>>, Apart(q, p)
    PROVE  Apart(Tail(q), Append(p, Head(q)))
<1> DEFINE b == Head(q)
           t == Tail(q)
           a == Append(p, b)
<1>1. /\ b \in Nat /\ b = q[1] /\ 1 \in 1 .. Len(q) /\ Len(t) = Len(q) - 1
      /\ \A k \in 1 .. Len(t) : k + 1 \in 1 .. Len(q) /\ k + 1 # 1 /\ t[k] = q[k + 1]
  BY TailProperty
<1>2. /\ Len(a) = Len(p) + 1 /\ \A k \in 1 .. Len(p) : a[k] = p[k]
      /\ a[Len(p) + 1] = b /\ \A k \in 1 .. Len(a) : k \in 1 .. Len(p) \/ k = Len(p) + 1
  BY <1>1, AppendProperty
<1> HIDE DEF b, t, a
<1>3. \A k, l \in 1 .. Len(t) : t[k] = t[l] => k = l
  <2> SUFFICES ASSUME NEW k \in 1 .. Len(t), NEW l \in 1 .. Len(t), t[k] = t[l] PROVE k = l
    OBVIOUS
  <2>1. q[k + 1] = q[l + 1] /\ k + 1 \in 1 .. Len(q) /\ l + 1 \in 1 .. Len(q)
    BY <1>1
  <2>2. k + 1 = l + 1
    BY <2>1 DEF Apart
  <2>3. k \in Int /\ l \in Int
    OBVIOUS
  <2> QED BY <2>2, <2>3
<1>4. \A k \in 1 .. Len(t) : t[k] # b
  <2> SUFFICES ASSUME NEW k \in 1 .. Len(t) PROVE t[k] # b
    OBVIOUS
  <2>1. t[k] = q[k + 1] /\ k + 1 \in 1 .. Len(q) /\ k + 1 # 1
    BY <1>1
  <2> QED BY <1>1, <2>1 DEF Apart
<1>5. \A l \in 1 .. Len(p) : p[l] # b
  BY <1>1 DEF Apart
<1>6. \A k, l \in 1 .. Len(a) : a[k] = a[l] /\ a[k] # 0 => k = l
  BY <1>2, <1>5 DEF Apart
<1>7. \A k \in 1 .. Len(t), l \in 1 .. Len(p) : t[k] # p[l]
  BY <1>1 DEF Apart
<1>8. \A k \in 1 .. Len(t), l \in 1 .. Len(a) : t[k] # a[l]
  BY <1>2, <1>4, <1>7
<1>9. Apart(t, a)
  BY <1>3, <1>6, <1>8 DEF Apart
<1> QED BY <1>9 DEF t, a, b

LEMMA ApartTaken ==
    ASSUME NEW q \in Seq(Nat), NEW p \in Seq(Nat), p # <<>>, Apart(q, p)
    PROVE  /\ Apart(q, Tail(p)) /\ \A k \in 1 .. Len(q) : q[k] # Head(p)
           /\ Head(p) # 0 => Apart(Append(q, Head(p)), Tail(p))
<1> DEFINE b == Head(p)
           t == Tail(p)
           a == Append(q, b)
<1>1. /\ b \in Nat /\ b = p[1] /\ 1 \in 1 .. Len(p) /\ Len(t) = Len(p) - 1
      /\ \A k \in 1 .. Len(t) : k + 1 \in 1 .. Len(p) /\ k + 1 # 1 /\ t[k] = p[k + 1]
  BY TailProperty
<1>2. /\ Len(a) = Len(q) + 1 /\ \A k \in 1 .. Len(q) : a[k] = q[k]
      /\ a[Len(q) + 1] = b /\ \A k \in 1 .. Len(a) : k \in 1 .. Len(q) \/ k = Len(q) + 1
  BY <1>1, AppendProperty
<1> HIDE DEF b, t, a
<1>3. \A k, l \in 1 .. Len(t) : t[k] = t[l] /\ t[k] # 0 => k = l
  <2> SUFFICES ASSUME NEW k \in 1 .. Len(t), NEW l \in 1 .. Len(t), t[k] = t[l], t[k] # 0
               PROVE  k = l
    OBVIOUS
  <2>1. p[k + 1] = p[l + 1] /\ p[k + 1] # 0 /\ k + 1 \in 1 .. Len(p) /\ l + 1 \in 1 .. Len(p)
    BY <1>1
  <2>2. k + 1 = l + 1
    BY <2>1 DEF Apart
  <2>3. k \in Int /\ l \in Int
    OBVIOUS
  <2> QED BY <2>2, <2>3
<1>4. \A k \in 1 .. Len(t) : t[k] # 0 => t[k] # b
  <2> SUFFICES ASSUME NEW k \in 1 .. Len(t), t[k] # 0 PROVE t[k] # b
    OBVIOUS
  <2>1. t[k] = p[k + 1] /\ k + 1 \in 1 .. Len(p) /\ k + 1 # 1
    BY <1>1
  <2> QED BY <1>1, <2>1 DEF Apart
<1>5. \A k \in 1 .. Len(q), l \in 1 .. Len(t) : q[k] # t[l]
  <2> SUFFICES ASSUME NEW k \in 1 .. Len(q), NEW l \in 1 .. Len(t) PROVE q[k] # t[l]
    OBVIOUS
  <2>1. t[l] = p[l + 1] /\ l + 1 \in 1 .. Len(p)
    BY <1>1
  <2> QED BY <2>1 DEF Apart
<1>6. \A k \in 1 .. Len(q) : q[k] # b
  BY <1>1 DEF Apart
<1>7. Apart(q, t)
  BY <1>3, <1>5 DEF Apart
<1>8. ASSUME b # 0 PROVE Apart(a, t)
  <2>1. \A k, l \in 1 .. Len(a) : a[k] = a[l] => k = l
    <3> SUFFICES ASSUME NEW k \in 1 .. Len(a), NEW l \in 1 .. Len(a), a[k] = a[l] PROVE k = l
      OBVIOUS
    <3>1. (k \in 1 .. Len(q) \/ k = Len(q) + 1) /\ (l \in 1 .. Len(q) \/ l = Len(q) + 1)
      BY <1>2
    <3>2. CASE k \in 1 .. Len(q) /\ l \in 1 .. Len(q)
      BY <1>2, <3>2 DEF Apart
    <3> QED BY <1>2, <1>6, <3>1, <3>2
  <2>2. \A k \in 1 .. Len(t) : t[k] # b
    BY <1>4, <1>8
  <2>3. \A k \in 1 .. Len(a), l \in 1 .. Len(t) : a[k] # t[l]
    BY <1>2, <1>5, <2>2
  <2> QED BY <1>3, <2>1, <2>3 DEF Apart
<1> QED BY <1>6, <1>7, <1>8 DEF t, a, b

LEMMA ApartEnqueue ==
    ASSUME NEW S, NEW q \in Seq(S), NEW b, b \notin S, NEW d, Apart(q, <<>>)
    PROVE  Apart(Enqueue(q, b, d), <<>>)
<1>1. CASE d[b] = <<>>
  BY <1>1 DEF Enqueue
<1>2. CASE d[b] # <<>>
  <2> DEFINE a == Append(q, b)
  <2>1. q \in Seq(S \cup {b}) /\ b \in S \cup {b}
    OBVIOUS
  <2>2. /\ Len(a) = Len(q) + 1 /\ \A k \in 1 .. Len(q) : a[k] = q[k]
        /\ a[Len(q) + 1] = b /\ \A k \in 1 .. Len(a) : k \in 1 .. Len(q) \/ k = Len(q) + 1
    BY <2>1, AppendProperty
  <2> HIDE DEF a
  <2>3. \A k \in 1 .. Len(q) : q[k] # b
    BY AsFunction
  <2>4. 1 .. Len(<<>>) = {}
    OBVIOUS
  <2>5. Apart(a, <<>>)
    BY <2>2, <2>3, <2>4 DEF Apart
  <2> QED BY <1>2, <2>5 DEF Enqueue, a
<1> QED BY <1>1, <1>2

\* The first buffer of the queue holds what is heard next.
LEMMA HoldsTail ==
    ASSUME NEW m \in Nat, NEW S, NEW q \in Seq(S), NEW d \in [S -> Seq(Nat)], NEW f, NEW t,
           q # <<>>, Holds(m, q, d, f, t)
    PROVE  /\ \A j \in 1 .. Len(d[Head(q)]) : d[Head(q)][j] = Heard(m, f + j)
           /\ Holds(m, Tail(q), d, f + Len(d[Head(q)]), t)
<1>1. PICK off \in [1 .. Len(q) + 1 -> Nat] :
         /\ off[1] = f /\ off[Len(q) + 1] = t
         /\ \A k \in 1 .. Len(q) :
               /\ off[k + 1] = off[k] + Len(d[q[k]])
               /\ \A j \in 1 .. Len(d[q[k]]) : d[q[k]][j] = Heard(m, off[k] + j)
  BY DEF Holds
<1>2. /\ Head(q) \in S /\ Head(q) = q[1] /\ 1 \in 1 .. Len(q)
      /\ Tail(q) \in Seq(S) /\ Len(q) \in Nat /\ Len(Tail(q)) = Len(q) - 1
      /\ \A k \in 1 .. Len(Tail(q)) : k + 1 \in 1 .. Len(q) /\ k + 1 # 1 /\ Tail(q)[k] = q[k + 1]
  BY TailProperty
<1>3. /\ off[2] = f + Len(d[Head(q)])
      /\ \A j \in 1 .. Len(d[Head(q)]) : d[Head(q)][j] = Heard(m, f + j)
  BY <1>1, <1>2
<1> DEFINE new == [k \in 1 .. Len(q) |-> off[k + 1]]
           r == Tail(q)
<1>4. new \in [1 .. Len(r) + 1 -> Nat] /\ \A k \in 1 .. Len(r) + 1 : new[k] = off[k + 1]
  BY <1>1, <1>2
<1>5. new[1] = f + Len(d[Head(q)]) /\ new[Len(r) + 1] = t
  BY <1>1, <1>2, <1>3
<1>6. ASSUME NEW k \in 1 .. Len(r)
      PROVE  /\ new[k + 1] = new[k] + Len(d[r[k]])
             /\ \A j \in 1 .. Len(d[r[k]]) : d[r[k]][j] = Heard(m, new[k] + j)
  <2>1. r[k] = q[k + 1] /\ new[k] = off[k + 1] /\ new[k + 1] = off[(k + 1) + 1] /\ k + 1 \in 1 .. Len(q)
    BY <1>2, <1>4
  <2> HIDE DEF new, r
  <2> QED BY <1>1, <2>1
<1> HIDE DEF new
<1> QED BY <1>3, <1>4, <1>5, <1>6 DEF Holds

\* A buffer that is handed over goes behind the others; an empty one is refused.
LEMMA HoldsEnqueue ==
    ASSUME NEW m \in Nat, NEW S, NEW q \in Seq(S), NEW T, S \subseteq T, NEW d \in [T -> Seq(Nat)],
           NEW f, NEW t \in Nat, NEW b \in T, b \notin S, Holds(m, q, d, f, t),
           \A j \in 1 .. Len(d[b]) : d[b][j] = Heard(m, t + j)
    PROVE  /\ Enqueue(q, b, d) \in Seq(S \cup {b})
           /\ Holds(m, Enqueue(q, b, d), d, f, t + Len(d[b]))
<1>1. PICK off \in [1 .. Len(q) + 1 -> Nat] :
         /\ off[1] = f /\ off[Len(q) + 1] = t
         /\ \A k \in 1 .. Len(q) :
               /\ off[k + 1] = off[k] + Len(d[q[k]])
               /\ \A j \in 1 .. Len(d[q[k]]) : d[q[k]][j] = Heard(m, off[k] + j)
  BY DEF Holds
<1>2. q \in Seq(S \cup {b}) /\ Len(q) \in Nat /\ d[b] \in Seq(Nat) /\ Len(d[b]) \in Nat
  OBVIOUS
<1>3. CASE d[b] = <<>>
  BY <1>2, <1>3 DEF Enqueue
<1>4. CASE d[b] # <<>>
  <2> DEFINE a == Append(q, b)
             n == Len(q) + 1
             new == [k \in 1 .. n + 1 |-> IF k = n + 1 THEN t + Len(d[b]) ELSE off[k]]
  <2>1. /\ a \in Seq(S \cup {b}) /\ Len(a) = n /\ \A k \in 1 .. Len(q) : a[k] = q[k]
        /\ a[n] = b /\ \A k \in 1 .. n : k \in 1 .. Len(q) \/ k = n
    BY <1>2, AppendProperty
  <2> HIDE DEF a
  <2>2. new \in [1 .. Len(a) + 1 -> Nat]
    BY <1>1, <1>2, <2>1
  <2>3. new[1] = f /\ new[Len(a) + 1] = t + Len(d[b]) /\ \A k \in 1 .. n : new[k] = off[k]
    BY <1>1, <1>2, <2>1
  <2>4. ASSUME NEW k \in 1 .. Len(a)
        PROVE  /\ new[k + 1] = new[k] + Len(d[a[k]])
               /\ \A j \in 1 .. Len(d[a[k]]) : d[a[k]][j] = Heard(m, new[k] + j)
    <3>1. CASE k \in 1 .. Len(q)
      <4>1. new[k] = off[k] /\ new[k + 1] = off[k + 1] /\ a[k] = q[k]
        BY <1>2, <2>1, <2>3, <3>1
      <4> HIDE DEF new
      <4> QED BY <1>1, <3>1, <4>1
    <3>2. CASE k = n
      <4>1. new[k] = t /\ new[k + 1] = t + Len(d[b]) /\ a[k] = b
        BY <1>1, <1>2, <2>1, <2>3, <3>2
      <4> QED BY <4>1
    <3> QED BY <2>1, <3>1, <3>2
  <2> HIDE DEF new
  <2>5. Holds(m, a, d, f, t + Len(d[b]))
    BY <2>2, <2>3, <2>4 DEF Holds
  <2> QED BY <1>4, <2>1, <2>5 DEF Enqueue, a
<1> QED BY <1>3, <1>4

\* The program ends before it has started, or goes on to start the queue.
LEMMA OpenStep == PlayerInv /\ OpenFails => PlayerInv'
<1> SUFFICES ASSUME PlayerInv, OpenFails PROVE PlayerInv'
  OBVIOUS
<1>1. Len(data) # 6 /\ phase = "start" /\ phase' = "end"
      /\ UNCHANGED <<packets, mAudioFile, mBuffers, data, freed, mCurrentPacket, currentPacket, queue,
                     running, stopping, pending, played>>
  BY DEF OpenFails, PlayerInv, Filled, playerVars, queueVars
<1> QED BY <1>1 DEF PlayerInv, TypeOK, Apart, Unfilled, Filled

LEMMA StartStep == PlayerInv /\ Start => PlayerInv'
<1> SUFFICES ASSUME PlayerInv, Start PROVE PlayerInv'
  OBVIOUS
<1>1. Len(data') = 3 /\ data' \in Seq(Seq(Nat)) /\ Len(data) # 6
  BY DEF Start, kNumberBuffers, PlayerInv, Filled
<1>2. /\ queue' = <<>> /\ played' = <<>> /\ ~stopping' /\ currentPacket' = 0
      /\ running' \in BOOLEAN /\ pending' = (IF running' THEN <<IsRunning>> ELSE <<>>)
      /\ phase' = "loop" /\ data = <<>>
      /\ UNCHANGED <<packets, mCurrentPacket, currentPacket, freed, stopping>>
  BY <1>1 DEF Start, PlayerInv, Unfilled, IsRunning
<1>3. mBuffers' \in [Slot -> 1 .. Len(data')] /\ mBuffers' \in [Slot -> 0 .. Len(data')] /\ mAudioFile' = TRUE
  BY <1>1 DEF Start, Slot, kNumberBuffers
<1>4. freed' \subseteq 1 .. Len(data')
  BY <1>2 DEF PlayerInv, TypeOK
<1>5. queue' \in Seq(1 .. Len(data')) /\ pending' \in Seq(0 .. Len(data'))
  <2>1. <<>> \in Seq(0 .. 3) /\ <<0>> \in Seq(0 .. 3) /\ <<>> \in Seq(1 .. 3)
    OBVIOUS
  <2>2. pending' = <<>> \/ pending' = <<0>>
    BY <1>2 DEF IsRunning
  <2> QED BY <1>1, <1>2, <2>1, <2>2
<1>6. TypeOK'
  BY <1>2, <1>3, <1>4, <1>5 DEF TypeOK, PlayerInv
<1>7. Apart(queue', pending')
  BY <1>2 DEF Apart
<1>8. Unfilled' /\ Filled'
  BY <1>1, <1>2 DEF Unfilled, Filled, IsRunning
<1>9. played' \in Seq(Nat)
  BY <1>2
<1> QED BY <1>1, <1>3, <1>6, <1>7, <1>8, <1>9 DEF PlayerInv

\* The queue plays its first buffer.
LEMMA PlayStep == PlayerInv /\ Play => PlayerInv'
<1> SUFFICES ASSUME PlayerInv, Play PROVE PlayerInv'
  OBVIOUS
<1> DEFINE b == Head(queue)
<1>1. /\ phase' = phase /\ packets' = packets /\ mAudioFile' = mAudioFile /\ mBuffers' = mBuffers
      /\ data' = data /\ freed' = freed /\ mCurrentPacket' = mCurrentPacket
      /\ currentPacket' = currentPacket /\ running' = running /\ stopping' = stopping
      /\ queue' = Tail(queue) /\ pending' = Append(pending, b) /\ played' = played \o data[b]
      /\ phase = "loop" /\ running /\ queue # <<>>
  BY DEF Play, playerVars
<1>2. /\ queue \in Seq(1 .. Len(data)) /\ pending \in Seq(0 .. Len(data)) /\ Len(data) = 6
      /\ data \in Seq(Seq(Nat)) /\ played \in Seq(Nat) /\ Stream /\ Apart(queue, pending)
      /\ mCurrentPacket \in Nat
  BY <1>1 DEF PlayerInv, TypeOK, Unfilled, Filled
<1>3. /\ queue \in Seq(1 .. 6) /\ queue \in Seq(Nat) /\ pending \in Seq(0 .. 6)
      /\ pending \in Seq(Nat) /\ data \in [1 .. 6 -> Seq(Nat)]
  <2>1. queue \in Seq(1 .. 6) /\ pending \in Seq(0 .. 6)
    BY <1>2
  <2>2. data \in [1 .. Len(data) -> Seq(Nat)]
    BY <1>2, AsFunction
  <2>3. /\ \A k \in 1 .. Len(queue) : queue[k] \in 1 .. 6
        /\ \A k \in 1 .. Len(pending) : pending[k] \in 0 .. 6
    BY <2>1, AsFunction
  <2>4. /\ \A k \in 1 .. Len(queue) : queue[k] \in Nat
        /\ \A k \in 1 .. Len(pending) : pending[k] \in Nat
    BY <2>3
  <2>5. queue \in Seq(Nat) /\ pending \in Seq(Nat)
    BY <2>1, <2>4, SeqOfMore
  <2>6. data \in [1 .. 6 -> Seq(Nat)]
    BY <1>2, <2>2
  <2> QED BY <2>1, <2>5, <2>6
<1>4. b \in 1 .. 6 /\ b \in 0 .. 6 /\ queue' \in Seq(1 .. 6)
  <2>1. b \in 1 .. 6 /\ queue' \in Seq(1 .. 6)
    BY <1>1, <1>3, TailProperty
  <2> QED BY <2>1
<1> HIDE DEF b
<1>5. /\ pending' \in Seq(0 .. 6) /\ Len(pending') = Len(pending) + 1 /\ pending'[Len(pending) + 1] = b
      /\ \A k \in 1 .. Len(pending) : pending'[k] = pending[k]
      /\ \A k \in 1 .. Len(pending') : k \in 1 .. Len(pending) \/ k = Len(pending) + 1
  <2>1. pending \in Seq(0 .. 6) /\ b \in 0 .. 6
    BY <1>3, <1>4
  <2>2. pending' = Append(pending, b)
    BY <1>1
  <2> QED BY <2>1, <2>2, AppendProperty
<1>6. Apart(queue', pending')
  BY <1>1, <1>2, <1>3, ApartPlayed DEF b
<1>7. /\ \A j \in 1 .. Len(data[b]) : data[b][j] = Heard(mCurrentPacket, Len(played) + j)
      /\ Holds(mCurrentPacket, Tail(queue), data, Len(played) + Len(data[b]), mCurrentPacket + currentPacket)
  BY <1>1, <1>2, <1>3, HoldsTail DEF Stream, b
<1>8. /\ played' \in Seq(Nat) /\ Len(played') = Len(played) + Len(data[b])
      /\ data[b] \in Seq(Nat) /\ Len(played) \in Nat
  <2>1. data[b] \in Seq(Nat)
    BY <1>3, <1>4
  <2> QED BY <1>1, <1>2, <2>1
<1>9. ASSUME NEW n \in 1 .. Len(played') PROVE played'[n] = Heard(mCurrentPacket, n)
  <2>1. CASE n <= Len(played)
    BY <1>1, <1>2, <1>8, <2>1 DEF Stream
  <2>2. CASE n > Len(played)
    <3>1. /\ n - Len(played) \in 1 .. Len(data[b]) /\ played'[n] = data[b][n - Len(played)]
          /\ Len(played) + (n - Len(played)) = n
      <4>1. Len(played) \in Nat /\ Len(data[b]) \in Nat /\ n \in Int /\ n <= Len(played) + Len(data[b])
        BY <1>8
      <4>2. n - Len(played) \in 1 .. Len(data[b]) /\ Len(played) + (n - Len(played)) = n
        BY <2>2, <4>1
      <4>3. \A j \in 1 .. Len(data[b]) : (played \o data[b])[Len(played) + j] = data[b][j]
        <5>1. played \in Seq(Nat) /\ data[b] \in Seq(Nat)
          BY <1>2, <1>8
        <5> QED BY <5>1, ConcatProperty
      <4>4. (played \o data[b])[Len(played) + (n - Len(played))] = data[b][n - Len(played)]
        BY <4>2, <4>3
      <4> QED BY <1>1, <4>2, <4>4
    <3>2. played'[n] = Heard(mCurrentPacket, Len(played) + (n - Len(played)))
      BY <1>7, <3>1
    <3> QED BY <3>1, <3>2
  <2> QED BY <1>8, <2>1, <2>2
<1>10. Stream'
  BY <1>1, <1>7, <1>8, <1>9 DEF Stream
<1>11. TypeOK'
  BY <1>1, <1>2, <1>4, <1>5 DEF PlayerInv, TypeOK
<1>12. \A k \in 1 .. Len(pending') : pending'[k] # 0
  <2>1. \A k \in 1 .. Len(pending) : pending[k] # 0
    BY <1>1, <1>2 DEF PlayerInv, Filled, IsRunning
  <2>2. b # 0
    BY <1>4
  <2> QED BY <1>5, <2>1, <2>2
<1>13. Filled' /\ Unfilled'
  BY <1>1, <1>2, <1>10, <1>12 DEF PlayerInv, Filled, Unfilled, IsRunning
<1> QED BY <1>1, <1>6, <1>8, <1>11, <1>13 DEF PlayerInv

\* The queue halts.
LEMMA HaltStep == PlayerInv /\ Halt => PlayerInv'
<1> SUFFICES ASSUME PlayerInv, Halt PROVE PlayerInv'
  OBVIOUS
<1>1. /\ phase' = phase /\ packets' = packets /\ mAudioFile' = mAudioFile /\ mBuffers' = mBuffers
      /\ data' = data /\ freed' = freed /\ mCurrentPacket' = mCurrentPacket
      /\ currentPacket' = currentPacket /\ running' = FALSE /\ stopping' = stopping
      /\ queue' = queue /\ pending' = Append(pending, 0) /\ played' = played
      /\ phase = "loop" /\ running /\ stopping /\ queue = <<>>
  BY DEF Halt, playerVars, IsRunning
<1>2. /\ pending \in Seq(0 .. Len(data)) /\ Len(data) = 6 /\ Stream /\ Apart(queue, pending)
  BY <1>1 DEF PlayerInv, TypeOK, Unfilled, Filled
<1>3. /\ pending' \in Seq(0 .. 6) /\ Len(pending') = Len(pending) + 1 /\ pending'[Len(pending) + 1] = 0
      /\ \A k \in 1 .. Len(pending) : pending'[k] = pending[k]
      /\ \A k \in 1 .. Len(pending') : k \in 1 .. Len(pending) \/ k = Len(pending) + 1
  BY <1>1, <1>2, AppendProperty
<1>4. Apart(queue', pending')
  BY <1>1, <1>2, <1>3 DEF Apart
<1>5. Stream'
  BY <1>1, <1>2 DEF Stream
<1>6. TypeOK'
  BY <1>1, <1>2, <1>3 DEF PlayerInv, TypeOK
<1>7. Filled' /\ Unfilled'
  BY <1>1, <1>2, <1>5 DEF PlayerInv, Filled, Unfilled
<1> QED BY <1>1, <1>4, <1>6, <1>7 DEF PlayerInv

\* The listener hears the stop.
LEMMA FinishStep == PlayerInv /\ Finish => PlayerInv'
<1> SUFFICES ASSUME PlayerInv, Finish PROVE PlayerInv'
  OBVIOUS
<1>1. /\ phase = "loop" /\ ~running /\ pending # <<>> /\ pending' = Tail(pending)
      /\ stopping' = TRUE /\ mAudioFile' = FALSE /\ mBuffers' = [s \in Slot |-> 0] /\ phase' = "end"
      /\ freed' = freed \cup {mBuffers[s] : s \in Slot}
      /\ packets' = packets /\ data' = data /\ mCurrentPacket' = mCurrentPacket
      /\ currentPacket' = currentPacket /\ queue' = queue /\ running' = running /\ played' = played
  BY DEF Finish, Event
<1>2. /\ pending \in Seq(0 .. Len(data)) /\ Len(data) = 6 /\ Stream /\ Apart(queue, pending)
      /\ mBuffers \in [Slot -> 1 .. Len(data)] /\ stopping /\ queue = <<>>
  BY <1>1 DEF PlayerInv, TypeOK, Unfilled, Filled
<1>3. pending \in Seq(0 .. 6) /\ pending \in Seq(Nat) /\ queue \in Seq(Nat)
  BY <1>2
<1>4. pending' \in Seq(0 .. 6)
  BY <1>1, <1>3, TailProperty
<1>5. Apart(queue', pending')
  BY <1>1, <1>2, <1>3, ApartTaken
<1>6. Stream'
  BY <1>1, <1>2 DEF Stream
<1>7. mBuffers' \in [Slot -> 0 .. Len(data')] /\ freed' \subseteq 1 .. Len(data')
  <2>1. freed \subseteq 1 .. Len(data) /\ \A s \in Slot : mBuffers[s] \in 1 .. Len(data)
    BY <1>2 DEF PlayerInv, TypeOK
  <2>2. freed' \subseteq 1 .. Len(data')
    BY <1>1, <2>1
  <2>3. 0 \in 0 .. Len(data')
    BY <1>1, <1>2
  <2> QED BY <1>1, <2>2, <2>3
<1>8. TypeOK'
  BY <1>1, <1>2, <1>4, <1>7 DEF PlayerInv, TypeOK
<1>9. Filled' /\ Unfilled'
  BY <1>1, <1>2, <1>6 DEF PlayerInv, Filled, Unfilled
<1> QED BY <1>1, <1>5, <1>8, <1>9 DEF PlayerInv

\* A buffer was played: it is refilled and goes to the end of the queue.
LEMMA CallbackStep ==
    ASSUME NEW b \in 1 .. Len(data), PlayerInv, Callback(b) PROVE PlayerInv'
<1> DEFINE s == read(currentPacket)
<1>1. /\ phase = "loop" /\ pending # <<>> /\ Head(pending) = b /\ pending' = Tail(pending)
      /\ data' = [data EXCEPT ![b] = s]
      /\ currentPacket' = currentPacket + Len(data'[b])
      /\ phase' = phase /\ packets' = packets /\ mAudioFile' = mAudioFile /\ mBuffers' = mBuffers
      /\ freed' = freed /\ mCurrentPacket' = mCurrentPacket /\ running' = running /\ played' = played
      /\ b # 0
  BY DEF Callback, Event
<1>2. data'[b] = <<>> => stopping' = TRUE /\ queue' = queue
  BY DEF Callback
<1>3. data'[b] # <<>> => stopping' = stopping /\ queue' = Append(queue, b)
  BY DEF Callback, Enqueue
<1>4. queue' = Enqueue(queue, b, data')
  BY <1>2, <1>3 DEF Enqueue
<1>5. Len(data) = 6
  <2>1. pending = <<0>> => Head(pending) = 0
    OBVIOUS
  <2> QED BY <1>1, <2>1 DEF PlayerInv, Unfilled, IsRunning
<1>6. /\ queue \in Seq(1 .. 6) /\ pending \in Seq(0 .. 6) /\ data \in [1 .. 6 -> Seq(Nat)]
      /\ queue \in Seq(Nat) /\ pending \in Seq(Nat) /\ b \in 1 .. 6 /\ b \in Nat
      /\ mCurrentPacket \in Nat /\ currentPacket \in 0 .. packets /\ packets \in Nat
      /\ Apart(queue, pending) /\ Stream /\ data \in Seq(Seq(Nat)) /\ currentPacket \in Nat
  <2>1. queue \in Seq(1 .. 6) /\ pending \in Seq(0 .. 6) /\ data \in Seq(Seq(Nat))
    BY <1>5 DEF PlayerInv, TypeOK
  <2>2. data \in [1 .. Len(data) -> Seq(Nat)]
    BY <2>1, AsFunction
  <2>3. queue \in Seq(Nat) /\ pending \in Seq(Nat)
    <3>1. \A k \in 1 .. Len(queue) : queue[k] \in 1 .. 6
      BY <2>1, AsFunction
    <3>2. \A k \in 1 .. Len(pending) : pending[k] \in 0 .. 6
      BY <2>1, AsFunction
    <3>3. 1 .. 6 \subseteq Nat /\ 0 .. 6 \subseteq Nat
      OBVIOUS
    <3>4. queue \in Seq(Nat)
      BY <2>1, <3>1, <3>3, SeqOfMore, Zenon
    <3>5. pending \in Seq(Nat)
      BY <2>1, <3>2, <3>3, SeqOfMore, Zenon
    <3> QED BY <3>4, <3>5
  <2>4. mCurrentPacket \in Nat /\ currentPacket \in 0 .. packets /\ packets \in Nat /\ currentPacket \in Nat
    BY SizeAssumption DEF PlayerInv, TypeOK
  <2> QED BY <1>5, <2>1, <2>2, <2>3, <2>4 DEF PlayerInv, Filled
<1>7. /\ s \in Seq(Nat) /\ currentPacket + Len(s) \in 0 .. packets
      /\ s = <<>> => currentPacket = packets
      /\ \A j \in 1 .. Len(s) : s[j] = currentPacket + j - 1
  BY <1>6, ReadProperty
<1> HIDE DEF s
<1>8. /\ data'[b] = s /\ data' \in [1 .. 6 -> Seq(Nat)]
      /\ \A c \in 1 .. 6 : c # b => data'[c] = data[c]
  BY <1>1, <1>6, <1>7
<1>9. data' \in Seq(Seq(Nat)) /\ Len(data') = 6
  <2> DEFINE n == 6
  <2>1. n \in Nat /\ data' \in [1 .. n -> Seq(Nat)]
    BY <1>8
  <2> HIDE DEF n
  <2>2. data' \in Seq(Seq(Nat)) /\ Len(data') = n
    BY <2>1, AsSequence, Zenon
  <2> QED BY <2>2 DEF n
<1>10. pending' \in Seq(0 .. 6)
  BY <1>1, <1>6, TailProperty
<1>11. /\ Apart(queue, Tail(pending)) /\ \A k \in 1 .. Len(queue) : queue[k] # b
       /\ Apart(Append(queue, b), Tail(pending))
  BY <1>1, <1>6, ApartTaken
<1>12. Apart(queue', pending')
  BY <1>1, <1>2, <1>3, <1>11
<1> DEFINE S == (1 .. 6) \ {b}
<1>13. queue \in Seq(S)
  <2>1. queue \in Seq(1 .. 6)
    BY <1>6
  <2>2. \A k \in 1 .. Len(queue) : queue[k] \in S
    BY <1>11, <2>1, AsFunction
  <2> QED BY <2>1, <2>2, SeqOfMore
<1>14. Holds(mCurrentPacket, queue, data', Len(played), mCurrentPacket + currentPacket)
  <2>0. queue \in Seq(1 .. 6)
    BY <1>6
  <2>1. \A k \in 1 .. Len(queue) : queue[k] \in 1 .. 6
    BY <2>0, AsFunction
  <2>2. \A k \in 1 .. Len(queue) : data'[queue[k]] = data[queue[k]]
    BY <1>8, <1>11, <2>1
  <2>3. Holds(mCurrentPacket, queue, data, Len(played), mCurrentPacket + currentPacket)
    BY <1>6 DEF Stream
  <2>4. PICK off \in [1 .. Len(queue) + 1 -> Nat] :
           /\ off[1] = Len(played) /\ off[Len(queue) + 1] = mCurrentPacket + currentPacket
           /\ \A k \in 1 .. Len(queue) :
                 /\ off[k + 1] = off[k] + Len(data[queue[k]])
                 /\ \A j \in 1 .. Len(data[queue[k]]) :
                       data[queue[k]][j] = Heard(mCurrentPacket, off[k] + j)
    BY <2>3 DEF Holds
  <2>5. \A k \in 1 .. Len(queue) :
           /\ off[k + 1] = off[k] + Len(data'[queue[k]])
           /\ \A j \in 1 .. Len(data'[queue[k]]) :
                 data'[queue[k]][j] = Heard(mCurrentPacket, off[k] + j)
    BY <2>2, <2>4
  <2> QED BY <2>4, <2>5 DEF Holds
<1>15. \A j \in 1 .. Len(s) : s[j] = Heard(mCurrentPacket, (mCurrentPacket + currentPacket) + j)
  BY <1>6, <1>7 DEF Heard
<1>16. S \cup {b} = 1 .. 6 /\ S \subseteq 1 .. 6 /\ b \notin S /\ mCurrentPacket + currentPacket \in Nat
  <2>1. S \cup {b} = 1 .. 6 /\ S \subseteq 1 .. 6 /\ b \notin S
    BY <1>6, Zenon
  <2>2. mCurrentPacket \in Nat /\ currentPacket \in Nat
    BY <1>6
  <2> QED BY <2>1, <2>2
<1> HIDE DEF S
<1>17. /\ Enqueue(queue, b, data') \in Seq(S \cup {b})
       /\ Holds(mCurrentPacket, Enqueue(queue, b, data'), data', Len(played),
                (mCurrentPacket + currentPacket) + Len(data'[b]))
  BY <1>6, <1>8, <1>13, <1>14, <1>15, <1>16, HoldsEnqueue
<1>18. queue' \in Seq(1 .. 6) /\ currentPacket' = currentPacket + Len(s) /\ Len(s) \in Nat
  <2>1. queue' \in Seq(1 .. 6)
    BY <1>4, <1>16, <1>17
  <2> QED BY <1>1, <1>7, <1>8, <2>1
<1>19. Stream'
  <2>1. (mCurrentPacket + currentPacket) + Len(s) = mCurrentPacket' + currentPacket'
    BY <1>1, <1>6, <1>18
  <2> QED BY <1>1, <1>4, <1>6, <1>8, <1>17, <2>1 DEF Stream
<1>20. stopping' \in BOOLEAN /\ (stopping' => currentPacket' = packets')
  <2>1. CASE s = <<>>
    <3>1. Len(s) = 0 /\ stopping' = TRUE
      BY <1>2, <1>8, <2>1
    <3>2. currentPacket = packets /\ packets \in Nat
      BY <1>6, <1>7, <2>1
    <3> QED BY <1>1, <1>18, <3>1, <3>2
  <2>2. CASE s # <<>>
    <3>1. Len(s) > 0
      BY <1>7, <2>2
    <3>2. stopping => currentPacket = packets
      BY <1>5 DEF PlayerInv, Filled
    <3> QED BY <1>1, <1>3, <1>6, <1>7, <1>8, <2>2, <3>1, <3>2 DEF PlayerInv, TypeOK
  <2> QED BY <2>1, <2>2
<1>21. TypeOK'
  BY <1>1, <1>5, <1>7, <1>9, <1>10, <1>18, <1>20 DEF PlayerInv, TypeOK
<1>22. running => \A k \in 1 .. Len(pending') : pending'[k] # 0
  <2>1. running => \A k \in 1 .. Len(pending) : pending[k] # 0
    BY <1>5 DEF PlayerInv, Filled, IsRunning
  <2> QED BY <1>1, <1>6, <2>1, TailProperty
<1>23. ~running => stopping' /\ queue' = <<>>
  <2>1. ~running => stopping /\ queue = <<>> /\ currentPacket = packets
    BY <1>5 DEF PlayerInv, Filled
  <2>2. currentPacket = packets => s = <<>>
    <3>1. currentPacket = packets => Len(s) = 0
      BY <1>6, <1>7
    <3> QED BY <1>7, <3>1
  <2> QED BY <1>2, <1>8, <2>1, <2>2
<1>24. Filled' /\ Unfilled'
  BY <1>1, <1>5, <1>9, <1>19, <1>20, <1>22, <1>23 DEF PlayerInv, Filled, Unfilled, IsRunning
<1> QED BY <1>1, <1>5, <1>9, <1>12, <1>21, <1>24 DEF PlayerInv

\* The listener hears the start: three more buffers hold the beginning of the file.
LEMMA FillStep == PlayerInv /\ Fill => PlayerInv'
<1> SUFFICES ASSUME PlayerInv, Fill PROVE PlayerInv'
  OBVIOUS
<1> DEFINE r0 == read(0)
           r1 == read(Len(r0))
           r2 == read(Len(r0) + Len(r1))
<1>1. Len(data) = 3
  <2>1. running /\ phase = "loop" /\ pending # <<>> /\ Head(pending) = 0
    BY DEF Fill, Event, IsRunning
  <2>2. pending \in Seq(0 .. Len(data))
    BY DEF PlayerInv, TypeOK
  <2>3. 1 \in 1 .. Len(pending) /\ pending[1] = 0
    BY <2>1, <2>2, TailProperty
  <2> QED BY <2>1, <2>3 DEF PlayerInv, Unfilled, Filled, IsRunning
<1>2. /\ phase = "loop" /\ running /\ pending = <<0>> /\ queue = <<>> /\ played = <<>> /\ ~stopping
      /\ currentPacket = 0 /\ data \in Seq(Seq(Nat)) /\ packets \in Nat
  BY <1>1, SizeAssumption DEF Fill, Event, PlayerInv, TypeOK, Unfilled, IsRunning
<1>3. /\ pending' = Tail(pending) /\ mBuffers' = [s \in Slot |-> 3 + s + 1]
      /\ mCurrentPacket' = Len(r0) + Len(r1) + Len(r2)
      /\ data' = data \o [k \in 1 .. 3 |-> IF k = 1 THEN r0 ELSE IF k = 2 THEN r1 ELSE r2]
      /\ queue' = Enqueue(Enqueue(Enqueue(<<>>, 4, data'), 5, data'), 6, data')
      /\ UNCHANGED <<phase, packets, mAudioFile, freed, currentPacket, running, stopping, played>>
  <2> DEFINE new   == [s \in Slot |-> Len(data) + s + 1]
             from(s) == IF s = 0 THEN 0 ELSE IF s = 1 THEN Len(r0) ELSE Len(r0) + Len(r1)
  <2>1. /\ pending' = Tail(pending) /\ mBuffers' = new
        /\ data' = data \o [k \in 1 .. kNumberBuffers |-> read(from(k - 1))]
        /\ mCurrentPacket' = from(2) + Len(read(from(2)))
        /\ queue' = Enqueue(Enqueue(Enqueue(queue, new[0], data'), new[1], data'), new[2], data')
        /\ UNCHANGED <<phase, packets, mAudioFile, freed, currentPacket, running, stopping, played>>
    BY DEF Fill, Event
  <2>2. new[0] = 4 /\ new[1] = 5 /\ new[2] = 6
    BY <1>1 DEF Slot, kNumberBuffers
  <2>3. new = [s \in Slot |-> 3 + s + 1]
    BY <1>1
  <2>4. /\ from(0) = 0 /\ from(1) = Len(r0) /\ from(2) = Len(r0) + Len(r1)
        /\ \A k \in 1 .. 3 : from(k - 1) = IF k = 1 THEN 0 ELSE IF k = 2 THEN Len(r0) ELSE Len(r0) + Len(r1)
    OBVIOUS
  <2>5. \A k \in 1 .. 3 : read(from(k - 1)) = IF k = 1 THEN r0 ELSE IF k = 2 THEN r1 ELSE r2
    BY <2>4
  <2>6. [k \in 1 .. kNumberBuffers |-> read(from(k - 1))]
           = [k \in 1 .. 3 |-> IF k = 1 THEN r0 ELSE IF k = 2 THEN r1 ELSE r2]
    BY <2>5 DEF kNumberBuffers
  <2> HIDE DEF new
  <2>7. queue' = Enqueue(Enqueue(Enqueue(<<>>, 4, data'), 5, data'), 6, data')
    BY <1>2, <2>1, <2>2
  <2> QED BY <2>1, <2>3, <2>4, <2>6, <2>7
<1>4. /\ r0 \in Seq(Nat) /\ Len(r0) \in 0 .. packets /\ \A j \in 1 .. Len(r0) : r0[j] = j - 1
  <2>1. 0 \in 0 .. packets
    BY <1>2
  <2> QED BY <1>2, <2>1, ReadProperty
<1>5. /\ r1 \in Seq(Nat) /\ Len(r0) + Len(r1) \in 0 .. packets /\ Len(r1) \in Nat
      /\ \A j \in 1 .. Len(r1) : r1[j] = Len(r0) + j - 1
  <2> DEFINE f == Len(r0)
  <2>1. f \in 0 .. packets
    BY <1>4
  <2> HIDE DEF f
  <2>2. /\ read(f) \in Seq(Nat) /\ f + Len(read(f)) \in 0 .. packets
        /\ \A j \in 1 .. Len(read(f)) : read(f)[j] = f + j - 1
    BY <1>2, <2>1, ReadProperty
  <2>3. Len(read(f)) \in Nat
    BY <2>2
  <2> QED BY <2>2, <2>3 DEF f
<1>6. /\ r2 \in Seq(Nat) /\ Len(r0) + Len(r1) + Len(r2) \in 0 .. packets /\ Len(r2) \in Nat
      /\ \A j \in 1 .. Len(r2) : r2[j] = Len(r0) + Len(r1) + j - 1
  <2> DEFINE f == Len(r0) + Len(r1)
  <2>1. f \in 0 .. packets
    BY <1>5
  <2> HIDE DEF f
  <2>2. /\ read(f) \in Seq(Nat) /\ f + Len(read(f)) \in 0 .. packets
        /\ \A j \in 1 .. Len(read(f)) : read(f)[j] = f + j - 1
    BY <1>2, <2>1, ReadProperty
  <2>3. Len(read(f)) \in Nat
    BY <2>2
  <2> QED BY <2>2, <2>3 DEF f
<1> DEFINE m == mCurrentPacket'
           d == data'
<1> HIDE DEF r0, r1, r2
<1>7. /\ d \in [1 .. 6 -> Seq(Nat)] /\ d[4] = r0 /\ d[5] = r1 /\ d[6] = r2
      /\ d \in Seq(Seq(Nat)) /\ Len(d) = 6
  <2> DEFINE more == [k \in 1 .. 3 |-> IF k = 1 THEN r0 ELSE IF k = 2 THEN r1 ELSE r2]
  <2>1. more \in [1 .. 3 -> Seq(Nat)] /\ more[1] = r0 /\ more[2] = r1 /\ more[3] = r2
    BY <1>4, <1>5, <1>6
  <2> HIDE DEF more
  <2>2. more \in Seq(Seq(Nat)) /\ Len(more) = 3
    BY <2>1, AsSequence
  <2>3. d = data \o more
    BY <1>3 DEF more
  <2>4. /\ d \in Seq(Seq(Nat)) /\ Len(d) = 6
        /\ d[4] = more[1] /\ d[5] = more[2] /\ d[6] = more[3]
    <3> DEFINE S == Seq(Nat)
    <3>1. data \in Seq(S) /\ more \in Seq(S)
      BY <1>2, <2>2
    <3> HIDE DEF S
    <3>2. /\ data \o more \in Seq(S) /\ Len(data \o more) = Len(data) + Len(more)
          /\ \A k \in 1 .. Len(more) : (data \o more)[Len(data) + k] = more[k]
      BY <3>1, ConcatProperty
    <3>3. \A k \in 1 .. 3 : (data \o more)[3 + k] = more[k]
      BY <1>1, <2>2, <3>2
    <3>4. \A n \in 4 .. 6 : d[n] = more[n - 3]
      <4> SUFFICES ASSUME NEW n \in 4 .. 6 PROVE d[n] = more[n - 3]
        OBVIOUS
      <4>1. n - 3 \in 1 .. 3 /\ 3 + (n - 3) = n
        OBVIOUS
      <4>2. (data \o more)[3 + (n - 3)] = more[n - 3]
        BY <3>3, <4>1
      <4> QED BY <2>3, <4>1, <4>2
    <3>5. Len(d) = 6
      BY <1>1, <2>2, <2>3, <3>2
    <3>6. d \in Seq(Seq(Nat))
      BY <2>3, <3>2 DEF S
    <3> QED BY <3>4, <3>5, <3>6
  <2>5. d \in [1 .. Len(d) -> Seq(Nat)]
    BY <2>4, AsFunction
  <2> QED BY <2>1, <2>4, <2>5
<1> HIDE DEF d
<1>8. m \in Nat /\ m \in 0 .. packets
  BY <1>2, <1>3, <1>6
<1> DEFINE q1 == Enqueue(<<>>, 4, d)
           q2 == Enqueue(q1, 5, d)
           q3 == Enqueue(q2, 6, d)
           B  == 1 .. 6
           S0 == {}
           S1 == {4}
           S2 == {4, 5}
<1>9. <<>> \in Seq(S0) /\ Holds(m, <<>>, d, 0, 0)
  <2>1. <<>> \in Seq(S0)
    OBVIOUS
  <2> DEFINE off == [k \in 1 .. 1 |-> 0]
  <2>2. off \in [1 .. Len(<<>>) + 1 -> Nat] /\ off[1] = 0 /\ off[Len(<<>>) + 1] = 0 /\ 1 .. Len(<<>>) = {}
    OBVIOUS
  <2> HIDE DEF off
  <2>3. Holds(m, <<>>, d, 0, 0)
    BY <2>2 DEF Holds
  <2> QED BY <2>1, <2>3
<1>10. q1 \in Seq(S1) /\ Holds(m, q1, d, 0, Len(r0))
  <2>1. \A j \in 1 .. Len(d[4]) : d[4][j] = Heard(m, 0 + j)
    BY <1>3, <1>4, <1>5, <1>6, <1>7 DEF Heard
  <2>2. S0 \subseteq B /\ 4 \in B /\ 4 \notin S0 /\ S0 \cup {4} = S1 /\ 0 \in Nat
    OBVIOUS
  <2>a. d \in [B -> Seq(Nat)]
    BY <1>7
  <2> HIDE DEF B, S0, S1
  <2>3. q1 \in Seq(S0 \cup {4}) /\ Holds(m, q1, d, 0, 0 + Len(d[4]))
    BY <1>8, <1>9, <2>a, <2>1, <2>2, HoldsEnqueue
  <2> QED BY <1>4, <1>7, <2>2, <2>3
<1> HIDE DEF q1
<1>11. q2 \in Seq(S2) /\ Holds(m, q2, d, 0, Len(r0) + Len(r1))
  <2>1. \A j \in 1 .. Len(d[5]) : d[5][j] = Heard(m, Len(r0) + j)
    BY <1>3, <1>4, <1>5, <1>6, <1>7 DEF Heard
  <2>2. S1 \subseteq B /\ 5 \in B /\ 5 \notin S1 /\ S1 \cup {5} = S2 /\ Len(r0) \in Nat
    BY <1>4
  <2>a. d \in [B -> Seq(Nat)]
    BY <1>7
  <2> HIDE DEF B, S1, S2
  <2>3. q2 \in Seq(S1 \cup {5}) /\ Holds(m, q2, d, 0, Len(r0) + Len(d[5]))
    BY <1>8, <1>10, <2>a, <2>1, <2>2, HoldsEnqueue
  <2> QED BY <1>7, <2>2, <2>3
<1> HIDE DEF q2
<1>12. q3 \in Seq(4 .. 6) /\ Holds(m, q3, d, 0, Len(r0) + Len(r1) + Len(r2))
  <2>1. \A j \in 1 .. Len(d[6]) : d[6][j] = Heard(m, (Len(r0) + Len(r1)) + j)
    BY <1>3, <1>4, <1>5, <1>6, <1>7 DEF Heard
  <2>2. /\ S2 \subseteq B /\ 6 \in B /\ 6 \notin S2 /\ S2 \cup {6} = 4 .. 6
        /\ Len(r0) + Len(r1) \in Nat
    BY <1>4, <1>5
  <2>a. d \in [B -> Seq(Nat)]
    BY <1>7
  <2> HIDE DEF B, S2
  <2>3. q3 \in Seq(S2 \cup {6}) /\ Holds(m, q3, d, 0, (Len(r0) + Len(r1)) + Len(d[6]))
    BY <1>8, <1>11, <2>a, <2>1, <2>2, HoldsEnqueue
  <2> QED BY <1>7, <2>2, <2>3
<1>13. Apart(q3, <<>>)
  <2>1. Apart(<<>>, <<>>)
    BY DEF Apart
  <2>2. 4 \notin S0 /\ 5 \notin S1 /\ 6 \notin S2
    OBVIOUS
  <2> HIDE DEF S0, S1, S2
  <2>3. Apart(q1, <<>>)
    BY <1>9, <2>1, <2>2, ApartEnqueue DEF q1
  <2>4. Apart(q2, <<>>)
    BY <1>10, <2>2, <2>3, ApartEnqueue DEF q2
  <2> QED BY <1>11, <2>2, <2>4, ApartEnqueue
<1> HIDE DEF q3
<1>14. queue' = q3 /\ pending' = <<>>
  BY <1>2, <1>3 DEF q1, q2, q3, d
<1>15. Stream'
  <2>1. m + currentPacket' = Len(r0) + Len(r1) + Len(r2) /\ played' = <<>> /\ Len(played') = 0
    BY <1>2, <1>3, <1>4, <1>5, <1>6
  <2> QED BY <1>12, <1>14, <2>1 DEF Stream, d
<1>16. mBuffers' \in [Slot -> 1 .. 6] /\ mBuffers' \in [Slot -> 0 .. 6]
  BY <1>3 DEF Slot, kNumberBuffers
<1>17. /\ queue' \in Seq(1 .. 6) /\ pending' \in Seq(0 .. 6) /\ freed' \subseteq 1 .. 6
       /\ played' \in Seq(Nat)
  <2>1. \A k \in 1 .. Len(q3) : q3[k] \in 1 .. 6
    <3>1. \A k \in 1 .. Len(q3) : q3[k] \in 4 .. 6
      BY <1>12, AsFunction
    <3> QED BY <3>1
  <2>2. queue' \in Seq(1 .. 6)
    BY <1>12, <1>14, <2>1, SeqOfMore
  <2>3. freed' \subseteq 1 .. 6
    BY <1>1, <1>3 DEF PlayerInv, TypeOK
  <2> QED BY <1>2, <1>3, <1>14, <2>2, <2>3
<1>18. TypeOK'
  BY <1>2, <1>3, <1>7, <1>8, <1>16, <1>17 DEF PlayerInv, TypeOK, d
<1>19. Filled' /\ Unfilled'
  BY <1>2, <1>3, <1>7, <1>14, <1>15 DEF Filled, Unfilled, d
<1> QED BY <1>7, <1>13, <1>14, <1>16, <1>17, <1>18, <1>19 DEF PlayerInv, d

LEMMA PlayerStep == PlayerInv /\ [Next]_vars => PlayerInv'
<1> SUFFICES ASSUME PlayerInv, [Next]_vars PROVE PlayerInv'
  OBVIOUS
<1>1. CASE OpenFails
  BY <1>1, OpenStep
<1>2. CASE Start
  BY <1>2, StartStep
<1>3. CASE Fill
  BY <1>3, FillStep
<1>4. CASE Finish
  BY <1>4, FinishStep
<1>5. ASSUME NEW b \in 1 .. Len(data), Callback(b) PROVE PlayerInv'
  BY <1>5, CallbackStep
<1>6. CASE Play
  BY <1>6, PlayStep
<1>7. CASE Halt
  BY <1>7, HaltStep
<1>8. CASE UNCHANGED vars
  <2>1. /\ phase' = phase /\ packets' = packets /\ mAudioFile' = mAudioFile /\ mBuffers' = mBuffers
        /\ data' = data /\ freed' = freed /\ mCurrentPacket' = mCurrentPacket
        /\ currentPacket' = currentPacket /\ running' = running /\ stopping' = stopping
        /\ queue' = queue /\ pending' = pending /\ played' = played
    BY <1>8 DEF vars, playerVars, queueVars
  <2>2. Stream' <=> Stream
    BY <2>1 DEF Stream
  <2>3. TypeOK' /\ Apart(queue', pending')
    BY <2>1 DEF PlayerInv, TypeOK
  <2>4. Unfilled' /\ Filled'
    BY <2>1, <2>2 DEF PlayerInv, Unfilled, Filled
  <2> QED BY <2>1, <2>3, <2>4 DEF PlayerInv
<1> QED
  BY <1>1, <1>2, <1>3, <1>4, <1>5, <1>6, <1>7, <1>8 DEF Next, RunLoop, Done

\* So it holds in every reachable state, whichever program runs.
LEMMA PlayerOrder == ToolSpec => []PlayerInv
<1>1. ToolInit => PlayerInv
  <2> SUFFICES ASSUME Init PROVE PlayerInv
    BY DEF ToolInit
  <2>1. /\ Len(data) = 0 /\ data \in Seq(Seq(Nat)) /\ played \in Seq(Nat)
        /\ queue \in Seq(1 .. Len(data)) /\ pending \in Seq(0 .. Len(data))
    BY DEF Init
  <2>2. mBuffers \in [Slot -> 0 .. Len(data)]
    BY <2>1 DEF Init
  <2>3. mCurrentPacket \in 0 .. packets /\ currentPacket \in 0 .. packets
    BY SizeAssumption DEF Init
  <2>4. TypeOK
    BY <2>1, <2>2, <2>3 DEF Init, TypeOK
  <2>5. Apart(queue, pending)
    BY DEF Init, Apart
  <2> QED BY <2>1, <2>4, <2>5 DEF Init, PlayerInv, Unfilled, Filled
<1>2. PlayerInv /\ [ToolNext]_toolVars => PlayerInv'
  <2>1. [ToolNext]_toolVars => [Next]_vars
    BY DEF ToolNext, toolVars, Audio, ReadRuns, Forks, Draws, Talks
  <2> QED BY <2>1, PlayerStep
<1> QED BY <1>1, <1>2, PTL DEF ToolSpec

\* A buffer is in the queue or with the callback, never both, and never twice: no
\* buffer is refilled while it is heard (audio.c:49, 105), for every length of the
\* file and of the buffers.
THEOREM BuffersInTurn == ToolSpec => []InTurns
<1>1. PlayerInv => InTurns
  <2> SUFFICES ASSUME PlayerInv PROVE InTurns
    OBVIOUS
  <2>1. queue \in Seq(1 .. Len(data)) /\ pending \in Seq(0 .. Len(data)) /\ Apart(queue, pending)
    BY DEF PlayerInv, TypeOK
  <2>2. /\ \A k \in 1 .. Len(queue) : queue[k] \in 1 .. Len(data)
        /\ \A k \in 1 .. Len(pending) : pending[k] \in 0 .. Len(data)
    BY <2>1, AsFunction
  <2>3. /\ \A k \in 1 .. Len(queue) : queue[k] \in Nat
        /\ \A k \in 1 .. Len(pending) : pending[k] \in Nat
    BY <2>2
  <2>4. queue \in Seq(Nat) /\ pending \in Seq(Nat)
    BY <2>1, <2>3, SeqOfMore
  <2> QED BY <2>1, <2>4, ApartInTurns
<1> QED BY <1>1, PlayerOrder, PTL

\* The whole file is the end of what was heard when the player has ended (audio.c:46,
\* 52, 129), for every length of the file and of the buffers.
THEOREM FileIsHeard == ToolSpec => []WholeFile
<1>1. PlayerInv => WholeFile
  <2> SUFFICES ASSUME PlayerInv, phase = "end", played # <<>>
               PROVE  IsSuffix([k \in 1 .. packets |-> k - 1], played)
    BY DEF WholeFile
  <2> DEFINE file == [k \in 1 .. packets |-> k - 1]
  <2>1. /\ Len(data) = 6 /\ Stream /\ currentPacket = packets /\ queue = <<>>
        /\ played \in Seq(Nat) /\ mCurrentPacket \in Nat /\ packets \in Nat
    BY SizeAssumption DEF PlayerInv, TypeOK, Unfilled, Filled
  <2>2. Len(played) = mCurrentPacket + packets
    <3>1. Len(queue) + 1 = 1
      BY <2>1
    <3> QED BY <2>1, <3>1 DEF Stream, Holds
  <2>3. file \in Seq(Nat) /\ Len(file) = packets /\ \A k \in 1 .. packets : file[k] = k - 1
    BY <2>1
  <2>4. \A k \in 1 .. packets : played[mCurrentPacket + k] = k - 1
    BY <2>1, <2>2 DEF Stream, Heard
  <2> HIDE DEF file
  <2>5. /\ Len(Reverse(file)) = packets /\ Len(Reverse(played)) = Len(played)
        /\ \A k \in 1 .. packets : /\ Reverse(file)[k] = packets - k
                                   /\ Reverse(played)[k] = played[(Len(played) - k) + 1]
    BY <2>1, <2>2, <2>3 DEF Reverse
  <2>6. IsPrefix(Reverse(file), Reverse(played))
    <3> DEFINE rf == Reverse(file)
               rp == Reverse(played)
    <3>1. rf \in Seq(Nat) /\ rp \in Seq(Nat)
      <4>1. /\ \A k \in 1 .. Len(file) : (Len(file) - k) + 1 \in 1 .. Len(file)
            /\ \A k \in 1 .. Len(played) : (Len(played) - k) + 1 \in 1 .. Len(played)
        BY <2>1, <2>3
      <4>2. /\ \A k \in 1 .. Len(file) : file[(Len(file) - k) + 1] \in Nat
            /\ \A k \in 1 .. Len(played) : played[(Len(played) - k) + 1] \in Nat
        BY <2>1, <2>3, <4>1, AsFunction
      <4> QED BY <2>1, <2>3, <4>2 DEF Reverse
    <3>2. Len(rf) <= Len(rp) /\ \A k \in 1 .. packets : rf[k] = rp[k]
      <4> SUFFICES ASSUME NEW k \in 1 .. packets PROVE Len(rf) <= Len(rp) /\ rf[k] = rp[k]
        BY <2>1, <2>2, <2>5
      <4>1. /\ (packets - k) + 1 \in 1 .. packets
            /\ mCurrentPacket + ((packets - k) + 1) = (Len(played) - k) + 1
        BY <2>1, <2>2
      <4>2. played[(Len(played) - k) + 1] = ((packets - k) + 1) - 1
        BY <2>4, <4>1
      <4> QED BY <2>1, <2>2, <2>5, <4>2
    <3> HIDE DEF rf, rp
    <3>3. /\ SubSeq(rf, 1, packets) = [k \in 1 .. packets |-> rf[k]]
          /\ SubSeq(rp, 1, packets) = [k \in 1 .. packets |-> rp[k]]
      BY <2>1, <2>2, <2>5, <3>1, <3>2 DEF rf, rp
    <3>4. Len(rf) = packets
      BY <2>5 DEF rf
    <3> QED BY <3>2, <3>3, <3>4 DEF IsPrefix, rf, rp
  <2> QED BY <2>6 DEF IsSuffix, file
<1> QED BY <1>1, PlayerOrder, PTL

\* The types of the player's variables: both positions stay in the file, and every
\* buffer in the queue, with an event or given back was allocated.
THEOREM PlayerTypes == ToolSpec => []TypeOK
<1>1. PlayerInv => TypeOK
  BY DEF PlayerInv
<1> QED BY <1>1, PlayerOrder, PTL

-----------------------------------------------------------------------------
(* The asynchronous read                                                   *)

\* How far the request is when the handler is at each of its statements, and what
\* that means for main.
ReadInv ==
    /\ platform \in {"mach", "linux"}
    /\ main \in {"open", "sigaction", "aio_read", "loop", "exited"}
    /\ status \in {"success", "failure"}
    /\ main \in {"open", "sigaction", "aio_read"} => request = "none" /\ status = "success"
    /\ request = "none" => handler = "none"
    /\ request = "queued" => handler = "none" /\ main = "loop"
    /\ handler \in {"pending", "fin", "aio_return"} => request = "done"
    /\ handler \in {"close", "done"} => request = "returned"
    /\ handler = "done" => ~fd
    /\ fin <=> handler \in {"aio_return", "close", "done"}
    /\ handler # "none" => main \in {"loop", "exited"} /\ status = "success"
    /\ main = "loop" => status = "success"
    /\ platform = "mach" /\ main \in {"aio_read", "loop"} => caught
    /\ main = "exited" /\ status = "success" => fin /\ (platform = "mach" => handler = "done")

LEMMA ReadStep == ReadInv /\ Aio!Next => ReadInv'
<1> SUFFICES ASSUME ReadInv, Aio!Next PROVE ReadInv'
  OBVIOUS
<1>1. CASE Aio!Main
  BY <1>1 DEF Aio!Main, Aio!Open, Aio!Sigaction, Aio!AioRead, Aio!Loop, Aio!MainMoves, ReadInv
<1>2. CASE Aio!ReadDone
  BY <1>2 DEF Aio!ReadDone, ReadInv
<1>3. CASE Aio!Handler
  BY <1>3 DEF Aio!Handler, Aio!Notify, Aio!SetFin, Aio!Return, Aio!CloseFile, Aio!Alive, ReadInv
<1> QED BY <1>1, <1>2, <1>3 DEF Aio!Next

LEMMA ReadOrder == ToolSpec => []ReadInv
<1>1. ToolInit => ReadInv
  BY DEF ToolInit, Aio!Init, ReadInv
<1>2. ReadInv /\ [ToolNext]_toolVars => ReadInv'
  <2>1. CASE Aio!Next
    BY <2>1, ReadStep
  <2>2. CASE UNCHANGED aioVars
    BY <2>2 DEF aioVars, ReadInv
  <2> QED BY <2>1, <2>2 DEF ToolNext, toolVars, Audio, ReadRuns, Forks, Draws, Talks
<1> QED BY <1>1, <1>2, PTL DEF ToolSpec

\* No order of main, the read and the handler lets the signal end the process or main
\* succeed before the data is there; where the handler is a signal handler, main has
\* its request returned and its file closed (cl_aio.c:23-34, 62-98).
THEOREM ReadEndsClean == ToolSpec => [](~Aio!Alive => Aio!Clean)
<1>1. ReadInv => (~Aio!Alive => Aio!Clean)
  BY DEF ReadInv, Aio!Alive, Aio!Clean
<1> QED BY <1>1, ReadOrder, PTL

-----------------------------------------------------------------------------
(* Client and server                                                       *)

\* The connection that is accepted is closed by its client before the server leaves
\* it; only a client whose server is gone goes without an answer.
EchoInv ==
    /\ server \in {"start", "accept", "copy", "close", "main", "failed", "exited"}
    /\ client \in [Client -> {"start", "dialled", "read", "main", "exited"}]
    /\ result \in [Client -> {"none", "refused", "line", "no response"}]
    /\ served \subseteq Client /\ \A c, d \in served : c = d
    /\ server \in {"start", "accept", "failed"} => served = {}
    /\ \A c \in Client :
          /\ client[c] \in {"start", "dialled", "read"} <=> result[c] = "none"
          /\ result[c] = "no response" => server = "exited" /\ c \notin served
          /\ c \in served => client[c] # "start" /\ result[c] \in {"none", "line"}
          /\ c \in served /\ server # "copy" => client[c] = "exited"

LEMMA EchoStep == EchoInv /\ Echo!Next => EchoInv'
<1> SUFFICES ASSUME EchoInv, Echo!Next PROVE EchoInv'
  OBVIOUS
<1>1. CASE Echo!Listen
  BY <1>1 DEF Echo!Listen, EchoInv
<1>2. CASE Echo!Accept
  BY <1>2 DEF Echo!Accept, EchoInv
<1>3. CASE Echo!Copy
  <2>1. /\ server = "copy" /\ server' \in {"copy", "close"} /\ UNCHANGED <<served, client, result>>
        /\ server' = "close" => \E c \in served : client[c] = "exited"
    BY <1>3 DEF Echo!Copy, Echo!Left
  <2> QED BY <2>1 DEF EchoInv
<1>4. CASE Echo!Close \/ Echo!ServerMain
  BY <1>4 DEF Echo!Close, Echo!ServerMain, EchoInv
<1>5. ASSUME NEW c \in Client, Echo!Dial(c) PROVE EchoInv'
  <2>1. client[c] = "start" /\ c \notin served /\ UNCHANGED <<server, served>>
    BY <1>5 DEF Echo!Dial, EchoInv
  <2>2. CASE client' = [client EXCEPT ![c] = "dialled"] /\ UNCHANGED result
    BY <2>1, <2>2 DEF EchoInv
  <2>3. CASE /\ client' = [client EXCEPT ![c] = "main"]
             /\ result' = [result EXCEPT ![c] = "refused"]
    BY <2>1, <2>3 DEF EchoInv
  <2> QED BY <1>5, <2>2, <2>3 DEF Echo!Dial
<1>6. ASSUME NEW c \in Client, Echo!Send(c) PROVE EchoInv'
  BY <1>6 DEF Echo!Send, EchoInv
<1>7. ASSUME NEW c \in Client, Echo!ReadString(c) PROVE EchoInv'
  BY <1>7 DEF Echo!ReadString, Echo!Closed, EchoInv
<1>8. ASSUME NEW c \in Client, Echo!ClientMain(c) PROVE EchoInv'
  BY <1>8 DEF Echo!ClientMain, EchoInv
<1> QED
  BY <1>1, <1>2, <1>3, <1>4, <1>5, <1>6, <1>7, <1>8 DEF Echo!Next, Echo!Server, Echo!ClientRuns

\* What is true of the client that is served.
ServedFirst == \A c \in served : /\ client[c] \in {"main", "exited"} => result[c] = "line"
                                 /\ server # "copy" => client[c] = "exited"

\* The client that is served prints the line it sent, however the server and the other
\* clients are scheduled, and the server does not leave it before (clisrv.go:17-31,
\* 45-54), for any number of clients.
THEOREM ServedGetsLine == ToolSpec => []ServedFirst
<1>1. ToolInit => EchoInv
  BY DEF ToolInit, Echo!Init, EchoInv
<1>2. EchoInv /\ [ToolNext]_toolVars => EchoInv'
  <2>1. CASE Echo!Next
    BY <2>1, EchoStep
  <2>2. CASE UNCHANGED echoVars
    BY <2>2 DEF echoVars, EchoInv
  <2> QED BY <2>1, <2>2 DEF ToolNext, toolVars, Audio, ReadRuns, Forks, Draws, Talks
<1>3. EchoInv => ServedFirst
  BY DEF EchoInv, ServedFirst
<1> QED BY <1>1, <1>2, <1>3, PTL DEF ToolSpec
=============================================================================
