------------------------------ MODULE ZmqEcho ------------------------------
(***************************************************************************)
(* zmqtest/zmqnet: the echo server ZmqServerEnd with its polling thread and *)
(* the thread that owns it, and clients ZmqClientEnd.  A message is its     *)
(* client, which ZeroMQ and the client both put in front, and its number.   *)
(* The sockets are ZeroMQ's.                                                *)
(***************************************************************************)
EXTENDS Integers, Sequences

CONSTANTS
  Senders,
  MaxSends   \* bound on the messages of each client

VARIABLES
  zmain,     \* the owner: new, running, joined, destroying, destroyed
  zpc,       \* the polling thread: none, begin, loop, poll, recv, ended; thrown out of zmq::poll
  zheld,     \* items of pollFunction hold a socket that was open
  bStop, zopen,   \* zopen: zmqsocket is open
  zin,       \* the messages at the ROUTER socket
  zsent,     \* how many messages each client has sent
  zgot       \* the messages each client got back

echoVars == <<zmain, zpc, zheld, bStop, zopen, zin, zsent, zgot>>

EchoInit ==
  /\ zmain = "new" /\ zpc = "none" /\ zheld = FALSE /\ bStop = FALSE /\ zopen = TRUE
  /\ zin = <<>> /\ zsent = [c \in Senders |-> 0] /\ zgot = [c \in Senders |-> <<>>]

\* ZmqClientEnd::Send; ZeroMQ keeps the message until the server is bound.
client_Send(c) ==
  /\ zopen /\ zsent[c] < MaxSends /\ zsent' = [zsent EXCEPT ![c] = @ + 1]
  /\ zin' = Append(zin, <<c, zsent[c] + 1>>)
  /\ UNCHANGED <<zmain, zpc, zheld, bStop, zopen, zgot>>

\* Also again after a Join; the second bind fails, which Start does not look at.
server_Start ==
  /\ zmain \in {"new", "joined"} /\ zmain' = "running" /\ bStop' = FALSE /\ zpc' = "begin"
  /\ UNCHANGED <<zheld, zopen, zin, zsent, zgot>>

server_Stop ==
  /\ zmain = "running" /\ bStop' = TRUE
  /\ UNCHANGED <<zmain, zpc, zheld, zopen, zin, zsent, zgot>>

\* Join returns when the thread has ended.
server_Join ==
  /\ zmain = "running" /\ zpc = "ended" /\ zmain' = "joined"
  /\ UNCHANGED <<zpc, zheld, bStop, zopen, zin, zsent, zgot>>

\* ~ZmqServerEnd, with or without Stop and Join: the socket is closed first.
destroy_close ==
  /\ zmain \in {"new", "running", "joined"} /\ zopen' = FALSE /\ zin' = <<>>
  /\ zmain' = IF zmain = "running" THEN "destroying" ELSE "destroyed"
  /\ UNCHANGED <<zpc, zheld, bStop, zsent, zgot>>

destroy_join ==
  /\ zmain = "destroying" /\ zpc = "ended" /\ zmain' = "destroyed"
  /\ UNCHANGED <<zpc, zheld, bStop, zopen, zin, zsent, zgot>>

\* The socket is put into items: null if the destructor has closed it by then.
poll_begin ==
  /\ zpc = "begin" /\ zpc' = "loop" /\ zheld' = zopen
  /\ UNCHANGED <<zmain, bStop, zopen, zin, zsent, zgot>>

\* Mutant: the loop does not look at bStop.
poll_testAlways ==
  /\ zpc = "loop" /\ zpc' = "poll"
  /\ UNCHANGED <<zmain, zheld, bStop, zopen, zin, zsent, zgot>>

\* while (!bStop)
poll_test ==
  /\ zpc = "loop" /\ zpc' = IF bStop THEN "ended" ELSE "poll"
  /\ UNCHANGED <<zmain, zheld, bStop, zopen, zin, zsent, zgot>>

\* The poll of up to a second, which throws on a socket that is closed, before the
\* call or during it and whatever bStop is by now.  In place of a null socket it
\* looks at descriptor 0; zmq_recv then fails on the closed socket.
poll_wait ==
  /\ zpc = "poll"
  /\ zpc' = CASE ~zheld -> "loop"
              [] zheld /\ ~zopen -> "thrown"
              [] zheld /\ zopen -> IF zin # <<>> THEN "recv" ELSE "loop"
  /\ UNCHANGED <<zmain, zheld, bStop, zopen, zin, zsent, zgot>>

\* The three frames and MsgHandle, which echoes the message.  It makes a ZmqClient
\* that nothing refers to: mapClients stays empty.  On a closed socket zmq_recv
\* fails.
poll_recv ==
  /\ zpc = "recv" /\ zpc' = "loop"
  /\ IF ~zopen THEN UNCHANGED <<zin, zgot>>
     ELSE /\ zin' = Tail(zin)
          /\ zgot' = [zgot EXCEPT ![Head(zin)[1]] = Append(@, Head(zin)[2])]
  /\ UNCHANGED <<zmain, zheld, bStop, zopen, zsent>>

pollFunction == poll_begin \/ poll_test \/ poll_wait \/ poll_recv

EchoNext ==
  \/ \E c \in Senders : client_Send(c)
  \/ server_Start \/ server_Stop \/ server_Join \/ destroy_close \/ destroy_join
  \/ pollFunction

-----------------------------------------------------------------------------
\* The numbers of the messages of c that are at the socket.
Waiting(c) == {zin[k][2] : k \in {k \in 1 .. Len(zin) : zin[k][1] = c}}

\* Every client gets its own messages back, in order and once, and while the
\* socket is open those that are not back are at the socket, over any number of
\* restarts.  The exception of a poll on the closed socket, which ends the process,
\* comes only while a destructor waits for a thread that its owner did not join:
\* bStop alone does not prevent it, the close may fall between test and poll.
EchoIntact ==
  /\ \A c \in Senders :
       /\ zgot[c] = [k \in 1 .. Len(zgot[c]) |-> k] /\ Len(zgot[c]) <= zsent[c]
       /\ zopen => Waiting(c) = Len(zgot[c]) + 1 .. zsent[c]
  /\ zpc = "thrown" => zmain = "destroying"

\* A server that is stopped ends its thread, and its destructor then returns; but
\* one that is destroyed without a Join may end the process instead.
EchoStopped == bStop
EchoEnds ==
  \/ zpc = "ended" /\ (zopen \/ zmain = "destroyed")
  \/ zpc = "thrown"
=============================================================================
