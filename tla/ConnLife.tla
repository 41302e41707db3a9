------------------------------ MODULE ConnLife ------------------------------
(***************************************************************************)
(* What the connection server of c/ibtest promises to each peer: its       *)
(* request is accepted, unless it withdraws first; then it is sent a       *)
(* message; its identifier is released after it has left, once and not     *)
(* before; a message is reported only of a peer that was accepted, be it   *)
(* that the identifier is released by then.  The server may stop at any    *)
(* time, and then nothing happens any more.                                *)
(***************************************************************************)

CONSTANT Conn

VARIABLES stage,    \* of each peer
          reported, \* peers whose message was printed
          up        \* the server runs

vars == <<stage, reported, up>>

Init ==
    /\ stage = [c \in Conn |-> "idle"]
    /\ reported = {}
    /\ up = TRUE

\* A peer's next stage.
Follows(s) == CASE s = "idle"   -> {"asked"}
                [] s = "asked"  -> {"open", "withdrawn"}
                [] s = "open"   -> {"served", "left"}
                [] s = "served" -> {"left"}
                [] s = "left"   -> {"released"}
                [] OTHER        -> {}

Advance(c) ==
    /\ up
    /\ \E s \in Follows(stage[c]) : stage' = [stage EXCEPT ![c] = s]
    /\ UNCHANGED <<reported, up>>

Report(c) ==
    /\ up /\ stage[c] \in {"open", "served", "left", "released"}
    /\ reported' = reported \cup {c}
    /\ UNCHANGED <<stage, up>>

Stop ==
    /\ up' = FALSE
    /\ UNCHANGED <<stage, reported>>

Next == Stop \/ \E c \in Conn : Advance(c) \/ Report(c)

Spec == Init /\ [][Next]_vars
=============================================================================
