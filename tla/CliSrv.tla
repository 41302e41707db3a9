------------------------------ MODULE CliSrv ------------------------------
(***************************************************************************)
(* go/clisrv: a server that serves one connection by echoing it, and       *)
(* clients that send a request and print the first line of the answer.     *)
(* Each is a process whose main waits for its goroutine on a channel.  TCP *)
(* is external: a stream each way, a backlog of connections the server     *)
(* never accepts, a reset when an end closes with data unread.             *)
(***************************************************************************)
EXTENDS Naturals

CONSTANT Client  \* the processes started as "client"

VARIABLES
    server,  \* "start", "accept", "copy", "close", "main" (ch <- 1), "failed", "exited"
    served,  \* the connection accepted, a set of at most one
    client,  \* each: "start", "dialled", "read", "main", "exited"
    result,  \* what it printed
    sent,    \* lines on their way to the server, or waiting there
    echo     \* lines on their way back, or waiting there

vars == <<server, served, client, result, sent, echo>>

Lines == 2  \* of the request; the second is empty

Init ==
    /\ server = "start" /\ served = {}
    /\ client = [c \in Client |-> "start"]
    /\ result = [c \in Client |-> "none"]
    /\ sent = [c \in Client |-> 0] /\ echo = [c \in Client |-> 0]

Listens == server \in {"accept", "copy", "close", "main"}
\* The client's end is closed, or the server's: main exits, or Close.
Left(c)   == client[c] = "exited"
Closed(c) == server = "exited" \/ (c \in served /\ server = "main")

-----------------------------------------------------------------------------
(* The server                                                              *)

Listen ==
    /\ server = "start"
    /\ server' \in {"accept", "failed"}
    /\ UNCHANGED <<served, client, result, sent, echo>>

\* Of the connections that wait one is accepted, or Accept fails.
Accept ==
    /\ server = "accept"
    /\ \/ \E c \in Client : /\ client[c] # "start" /\ result[c] # "refused"
                            /\ served' = {c} /\ server' = "copy"
       \/ server' = "main" /\ UNCHANGED served
    /\ UNCHANGED <<client, result, sent, echo>>

\* Mutant: io.Copy goes on after the end of the stream.
CopyOn ==
    /\ server = "copy"
    /\ \E c \in served :
          /\ sent[c] > 0
          /\ \E n \in 1 .. sent[c] :
                /\ sent' = [sent EXCEPT ![c] = @ - n]
                /\ echo' = [echo EXCEPT ![c] = @ + n]
    /\ UNCHANGED <<server, served, client, result>>
\* io.Copy(conn, conn) echoes until the client has closed its end.
Copy ==
    /\ server = "copy"
    /\ \E c \in served :
          \/ \E n \in 1 .. sent[c] :
                /\ sent' = [sent EXCEPT ![c] = @ - n]
                /\ echo' = [echo EXCEPT ![c] = @ + n]
                /\ UNCHANGED server
          \/ /\ Left(c)
             /\ server' = "close" /\ UNCHANGED <<sent, echo>>
    /\ UNCHANGED <<served, client, result>>

Close ==
    /\ server = "close"
    /\ server' = "main"
    /\ UNCHANGED <<served, client, result, sent, echo>>

\* The value in the channel lets main return; the kernel closes what is open.
ServerMain ==
    /\ server \in {"main", "failed"}
    /\ server' = "exited"
    /\ UNCHANGED <<served, client, result, sent, echo>>

Server == Listen \/ Accept \/ Copy \/ Close \/ ServerMain

-----------------------------------------------------------------------------
(* A client                                                                *)

\* A listening server takes connections without having accepted them.
Dial(c) ==
    /\ client[c] = "start"
    /\ IF Listens
       THEN client' = [client EXCEPT ![c] = "dialled"] /\ UNCHANGED result
       ELSE /\ client' = [client EXCEPT ![c] = "main"]
            /\ result' = [result EXCEPT ![c] = "refused"]
    /\ UNCHANGED <<server, served, sent, echo>>

\* The result of Fprintf is ignored: on a closed connection nothing is sent.
Send(c) ==
    /\ client[c] = "dialled"
    /\ client' = [client EXCEPT ![c] = "read"]
    /\ sent' = IF Closed(c) THEN sent ELSE [sent EXCEPT ![c] = Lines]
    /\ UNCHANGED <<server, served, result, echo>>

\* ReadString takes what has arrived, at least the first line; or the connection
\* has ended before (or was reset).
ReadString(c) ==
    /\ client[c] = "read"
    /\ \/ /\ \E n \in 1 .. echo[c] : echo' = [echo EXCEPT ![c] = @ - n]
          /\ result' = [result EXCEPT ![c] = "line"]
       \/ /\ Closed(c)
          /\ result' = [result EXCEPT ![c] = "no response"]
          /\ UNCHANGED echo
    /\ client' = [client EXCEPT ![c] = "main"]
    /\ UNCHANGED <<server, served, sent>>

ClientMain(c) ==
    /\ client[c] = "main"
    /\ client' = [client EXCEPT ![c] = "exited"]
    /\ UNCHANGED <<server, served, result, sent, echo>>

ClientRuns(c) == Dial(c) \/ Send(c) \/ ReadString(c) \/ ClientMain(c)

Next == Server \/ \E c \in Client : ClientRuns(c)

-----------------------------------------------------------------------------
(* Properties                                                              *)

\* Every client ends, also one that waits behind the only client that is served; the
\* one that is served prints the line it sent (clisrv.go:17-31, 45-54).
Answered ==
    /\ \A c \in Client : client[c] # "start" ~> client[c] = "exited"
    /\ \A c \in Client : c \in served ~> result[c] = "line"
=============================================================================
