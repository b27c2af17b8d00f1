----------------------------- MODULE TcpSample -----------------------------
(***************************************************************************)
(* anet/tcpClient.cpp and anet/tcpServer.cpp: each client writes a greeting *)
(* on a socket that does not block and polls for the answer; the server     *)
(* takes one connection after the other, reads, answers and closes.         *)
(* anetRead collects until its buffer is full or the stream ends and        *)
(* returns -1, with what it has forgotten, when there is nothing to read.   *)
(* What the kernel does to a connection is external.                        *)
(***************************************************************************)
EXTENDS Integers, Sequences

CONSTANTS TcpClients

VARIABLES
  tpc,       \* of each client: connecting, connected, reading, printed, killed, noSocket
  tgot,      \* of each client: this anetRead has the answer
  greeting,  \* of each connection: none, sent, read
  answer,    \* of each connection: what the client can read: data, err, eof
  accepted, closedBy,   \* the connections accepted and closed by the server
  tsrv, cur, \* the server: accept, read, write, close; its connection
  missed     \* history: the clients whose anetRead forgot the answer

tcpVars == <<tpc, tgot, greeting, answer, accepted, closedBy, tsrv, cur, missed>>

TcpInit ==
  /\ tpc = [c \in TcpClients |-> "connecting"] /\ tgot = [c \in TcpClients |-> FALSE]
  /\ greeting = [c \in TcpClients |-> "none"] /\ answer = [c \in TcpClients |-> <<>>]
  /\ accepted = {} /\ closedBy = {} /\ missed = {}
  /\ tsrv = "accept" /\ cur = CHOOSE c \in TcpClients : TRUE

\* The kernel completes the connection, whether or not it is accepted yet.
connected(c) ==
  /\ tpc[c] = "connecting" /\ tpc' = [tpc EXCEPT ![c] = "connected"]
  /\ UNCHANGED <<tgot, greeting, answer, accepted, closedBy, tsrv, cur, missed>>

\* The connection is refused later: the second anetWrite raises SIGPIPE.  Or it
\* fails at once, and the thread goes on to read from descriptor -1 for ever.
not_connected(c, how) ==
  /\ tpc[c] = "connecting" /\ tpc' = [tpc EXCEPT ![c] = how]
  /\ UNCHANGED <<tgot, greeting, answer, accepted, closedBy, tsrv, cur, missed>>

client_anetWrite(c) ==
  /\ tpc[c] = "connected" /\ tpc' = [tpc EXCEPT ![c] = "reading"]
  /\ greeting' = [greeting EXCEPT ![c] = "sent"]
  /\ UNCHANGED <<tgot, answer, accepted, closedBy, tsrv, cur, missed>>

\* read returns the answer, an error, or that there is nothing yet: in the last
\* two cases anetRead returns -1 and the next call starts anew.
client_read(c) ==
  /\ tpc[c] = "reading"
  /\ CASE answer[c] # <<>> /\ Head(answer[c]) = "data" ->
            tgot' = [tgot EXCEPT ![c] = TRUE] /\ answer' = [answer EXCEPT ![c] = Tail(@)]
            /\ UNCHANGED missed
       [] answer[c] # <<>> /\ Head(answer[c]) = "err" ->
            tgot' = [tgot EXCEPT ![c] = FALSE] /\ answer' = [answer EXCEPT ![c] = Tail(@)]
            /\ missed' = missed \cup {c}
       [] answer[c] = <<>> /\ tgot[c] ->
            tgot' = [tgot EXCEPT ![c] = FALSE] /\ missed' = missed \cup {c}
            /\ UNCHANGED answer
       [] OTHER -> FALSE
  /\ UNCHANGED <<tpc, greeting, accepted, closedBy, tsrv, cur>>

\* The stream ends behind the answer: it is printed.  Without the answer
\* anetRead returns 0 and the loop goes on for ever.
client_prints(c) ==
  /\ tpc[c] = "reading" /\ tgot[c] /\ answer[c] # <<>> /\ Head(answer[c]) = "eof"
  /\ tpc' = [tpc EXCEPT ![c] = "printed"] /\ tgot' = [tgot EXCEPT ![c] = FALSE]
  /\ UNCHANGED <<greeting, answer, accepted, closedBy, tsrv, cur, missed>>

server_accept(c) ==
  /\ tsrv = "accept" /\ tsrv' = "read" /\ c \notin accepted
  /\ tpc[c] \in {"connected", "reading"} /\ accepted' = accepted \cup {c} /\ cur' = c
  /\ UNCHANGED <<tpc, tgot, greeting, answer, closedBy, missed>>

\* The greeting, if it is there, and then nothing: anetRead returns -1.
server_anetRead ==
  /\ tsrv = "read" /\ tsrv' = "write"
  /\ greeting' = [greeting EXCEPT ![cur] = IF @ = "sent" THEN "read" ELSE @]
  /\ UNCHANGED <<tpc, tgot, answer, accepted, closedBy, cur, missed>>

server_anetWrite ==
  /\ tsrv = "write" /\ tsrv' = "close"
  /\ answer' = [answer EXCEPT ![cur] = Append(@, "data")]
  /\ UNCHANGED <<tpc, tgot, greeting, accepted, closedBy, cur, missed>>

\* Closing with the greeting unread resets the connection.
server_close ==
  /\ tsrv = "close" /\ tsrv' = "accept" /\ closedBy' = closedBy \cup {cur}
  /\ answer' = [answer EXCEPT ![cur] =
                  @ \o IF greeting[cur] = "sent" THEN <<"err", "eof">> ELSE <<"eof">>]
  /\ UNCHANGED <<tpc, tgot, greeting, accepted, cur, missed>>

tcpServer == (\E c \in TcpClients : server_accept(c)) \/ server_anetRead
             \/ server_anetWrite \/ server_close
tcpClient(c) == connected(c) \/ client_anetWrite(c) \/ client_read(c) \/ client_prints(c)

TcpNext ==
  \/ tcpServer
  \/ \E c \in TcpClients : tcpClient(c) \/ \E h \in {"killed", "noSocket"} : not_connected(c, h)

-----------------------------------------------------------------------------
\* The server gets to every connection, whatever its clients do, and a client
\* that is connected prints the answer and ends, unless the answer reached it
\* before the end of the stream did or behind a reset.
\* (thread_func of tcpServer.cpp and of tcpClient.cpp, anetRead)
TcpEnds(c) ==
  \/ tpc[c] \in {"killed", "noSocket"}
  \/ c \in closedBy /\ (tpc[c] = "printed" \/ c \in missed)
=============================================================================
