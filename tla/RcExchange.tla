----------------------------- MODULE RcExchange -----------------------------
(***************************************************************************)
(* What the test of c/ibtest/ibv-rc.c promises to somebody who sees only   *)
(* the lines that show buffer contents and the results of the two          *)
(* processes: the client shows the message and then what it read from the  *)
(* server, only then the server shows what the client wrote into its       *)
(* buffer, and a result of 0 is given only for a complete exchange.        *)
(***************************************************************************)
EXTENDS Naturals, Sequences

CONSTANTS Client, Server

VARIABLES out,  \* the buffer contents each process has shown
          rc    \* the result of each process

vars == <<out, rc>>

Node == {Client, Server}

\* What each side shows in a run that succeeds.
Transcript(p) == IF p = Client THEN <<"MSG", "RDMAMSGR">> ELSE <<"RDMAMSGW">>
Complete(p) == out[p] = Transcript(p)

Init ==
    /\ out = [p \in Node |-> <<>>]
    /\ rc = [p \in Node |-> 1]

\* The client shows the next line.
ClientShows ==
    /\ Len(out[Client]) < 2
    /\ out' = [out EXCEPT ![Client] = SubSeq(Transcript(Client), 1, Len(@) + 1)]
    /\ UNCHANGED rc

ClientSucceeds ==
    /\ Complete(Client)
    /\ rc' = [rc EXCEPT ![Client] = 0]
    /\ UNCHANGED out

\* The server shows its buffer when the client is done with it, and succeeds.
ServerSucceeds ==
    /\ Complete(Client)
    /\ out[Server] = <<>>
    /\ out' = [out EXCEPT ![Server] = Transcript(Server)]
    /\ rc' = [rc EXCEPT ![Server] = 0]

\* A failure while the resources are released spoils the result.
Spoil(p) ==
    /\ rc' = [rc EXCEPT ![p] = 1]
    /\ UNCHANGED out

Next == \/ ClientShows
        \/ ClientSucceeds
        \/ ServerSucceeds
        \/ \E p \in Node : Spoil(p)

Spec == Init /\ [][Next]_vars
=============================================================================
