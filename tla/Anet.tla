-------------------------------- MODULE Anet --------------------------------
(***************************************************************************)
(* The calls of anet/anet.cpp that open a socket, made by several threads   *)
(* of one process (anet/tcpClient.cpp starts one per connection).  Each     *)
(* system call is a step that succeeds or fails, and a descriptor is a      *)
(* small number that the next socket or accept gives out again.             *)
(***************************************************************************)
EXTENDS Integers, Sequences, FiniteSets

CONSTANTS
  Threads, Fds,
  MaxAddrs,   \* bound on the entries getaddrinfo returns
  MaxCalls    \* bound on the calls of each thread

NoFd == 0     \* ANET_ERR

ASSUME AnetAssumption ==
  Fds \subseteq Nat \ {NoFd} /\ "free" \notin Threads /\ MaxAddrs \in Nat

\* Each call: the system calls made on a new socket, in their order.
Script(call) ==
  CASE call = "TcpConnect"     -> <<"socket", "reuse", "nonblock", "connect">>
    [] call = "TcpBindConnect" -> <<"socket", "reuse", "nonblock", "bind", "connect">>
    [] call = "UnixConnect"    -> <<"socket", "reuse", "nonblock", "connect">>
    [] call = "TcpServer"      -> <<"socket", "reuse", "listen">>
    [] call = "Tcp6Server"     -> <<"socket", "v6only", "reuse", "listen">>
    [] call = "UnixServer"     -> <<"socket", "reuse", "listen">>
    [] call = "Accept"         -> <<"socket">>
Calls == {"TcpConnect", "TcpBindConnect", "UnixConnect", "TcpServer", "Tcp6Server",
          "UnixServer", "Accept"}

\* The calls that go through the addresses of getaddrinfo.
Resolving == {"TcpConnect", "TcpBindConnect", "TcpServer", "Tcp6Server"}

VARIABLES
  owner,       \* of each descriptor: the thread that opened it, or "free"
  acall, astep,  \* of each thread: its call, and the step of the script it is at
  s,           \* the local variable s
  addrs,       \* entries of servinfo left
  apc,         \* idle, script, closing (the second close of the error label), holds
  callsMade,
  closedTwice6   \* history: a descriptor was closed by anetV6Only and again after it

anetVars == <<owner, acall, astep, s, addrs, apc, callsMade, closedTwice6>>

NetTypeOK ==
  /\ owner \in [Fds -> Threads \cup {"free"}]
  /\ \A t \in Threads : /\ acall[t] \in Calls /\ s[t] \in Fds \cup {NoFd}
                        /\ addrs[t] \in 0 .. MaxAddrs
                        /\ apc[t] \in {"idle", "script", "closing", "holds"}
  /\ closedTwice6 \in BOOLEAN

NetInit ==
  /\ owner = [f \in Fds |-> "free"] /\ closedTwice6 = FALSE
  /\ acall = [t \in Threads |-> "Accept"] /\ astep = [t \in Threads |-> 1]
  /\ s = [t \in Threads |-> NoFd] /\ addrs = [t \in Threads |-> 0]
  /\ apc = [t \in Threads |-> "idle"] /\ callsMade = [t \in Threads |-> 0]

\* getaddrinfo finds k addresses; with none (or an error) the call fails at once.
begin_call(t, c, k) ==
  /\ apc[t] = "idle" /\ callsMade[t] < MaxCalls
  /\ c \in Resolving \/ k = 1
  /\ callsMade' = [callsMade EXCEPT ![t] = @ + 1]
  /\ IF k = 0 THEN UNCHANGED <<acall, addrs, apc>>
     ELSE /\ acall' = [acall EXCEPT ![t] = c] /\ addrs' = [addrs EXCEPT ![t] = k]
          /\ apc' = [apc EXCEPT ![t] = "script"]
  /\ UNCHANGED <<owner, astep, s, closedTwice6>>

Doing(t, what) == apc[t] = "script" /\ Script(acall[t])[astep[t]] = what

\* socket or accept gives out the lowest free descriptor.
opens(t) ==
  /\ Doing(t, "socket")
  /\ \E f \in Fds : /\ owner[f] = "free" /\ \A g \in Fds : owner[g] = "free" => f <= g
                    /\ owner' = [owner EXCEPT ![f] = t] /\ s' = [s EXCEPT ![t] = f]
  /\ IF acall[t] = "Accept" THEN apc' = [apc EXCEPT ![t] = "holds"] /\ UNCHANGED astep
     ELSE astep' = [astep EXCEPT ![t] = @ + 1] /\ UNCHANGED apc
  /\ UNCHANGED <<acall, addrs, callsMade, closedTwice6>>

\* The call returns ANET_ERR; the best-effort variant first calls itself again
\* without the source address.
give_up(t) ==
  /\ s' = [s EXCEPT ![t] = NoFd] /\ astep' = [astep EXCEPT ![t] = 1]
  /\ \/ /\ apc' = [apc EXCEPT ![t] = "idle"] /\ acall' = [acall EXCEPT ![t] = "Accept"]
        /\ addrs' = [addrs EXCEPT ![t] = 0]
     \/ /\ acall[t] = "TcpBindConnect" /\ acall' = [acall EXCEPT ![t] = "TcpConnect"]
        /\ \E k \in 1 .. MaxAddrs : addrs' = [addrs EXCEPT ![t] = k]
        /\ UNCHANGED apc

\* The next entry of servinfo, if there is one.
next_addr(t) ==
  IF addrs[t] = 1 THEN give_up(t)
  ELSE /\ addrs' = [addrs EXCEPT ![t] = @ - 1] /\ astep' = [astep EXCEPT ![t] = 1]
       /\ s' = [s EXCEPT ![t] = NoFd] /\ UNCHANGED <<acall, apc>>

opens_fails(t) ==
  Doing(t, "socket") /\ next_addr(t) /\ UNCHANGED <<owner, callsMade, closedTwice6>>

\* Any other system call of the script succeeds; after the last one the call
\* returns the descriptor.
succeeds(t) ==
  /\ apc[t] = "script" /\ Script(acall[t])[astep[t]] # "socket"
  /\ IF astep[t] = Len(Script(acall[t]))
     THEN apc' = [apc EXCEPT ![t] = "holds"] /\ UNCHANGED astep
     ELSE astep' = [astep EXCEPT ![t] = @ + 1] /\ UNCHANGED apc
  /\ UNCHANGED <<owner, acall, s, addrs, callsMade, closedTwice6>>

\* close(s) gives the descriptor back, whoever opened it.
Close(t) == owner' = [owner EXCEPT ![s[t]] = "free"]

\* setsockopt, fcntl, bind or listen fails, and the descriptor is closed: at the
\* error label, in anetListen or by the caller.
fails(t) ==
  /\ \E what \in {"reuse", "nonblock", "bind", "listen"} : Doing(t, what)
  /\ Close(t) /\ give_up(t) /\ UNCHANGED <<callsMade, closedTwice6>>

\* connect is refused: the socket is closed and the next address is tried.
connect_fails(t) ==
  Doing(t, "connect") /\ Close(t) /\ next_addr(t) /\ UNCHANGED <<callsMade, closedTwice6>>

\* anetV6Only closes the socket and leaves s to the error label.
v6only_fails(t) ==
  /\ Doing(t, "v6only") /\ Close(t)
  /\ apc' = [apc EXCEPT ![t] = "closing"]
  /\ UNCHANGED <<acall, astep, s, addrs, callsMade, closedTwice6>>

\* The error label of _anetTcpServer closes s again.
close_again6(t) ==
  /\ apc[t] = "closing" /\ Close(t) /\ closedTwice6' = TRUE
  /\ give_up(t) /\ UNCHANGED callsMade

\* The caller has used the descriptor and closes it.
release(t) ==
  /\ apc[t] = "holds" /\ Close(t)
  /\ s' = [s EXCEPT ![t] = NoFd] /\ apc' = [apc EXCEPT ![t] = "idle"]
  /\ acall' = [acall EXCEPT ![t] = "Accept"] /\ addrs' = [addrs EXCEPT ![t] = 0]
  /\ astep' = [astep EXCEPT ![t] = 1] /\ UNCHANGED <<callsMade, closedTwice6>>

NetNext ==
  \E t \in Threads :
    \/ \E c \in Calls, k \in 0 .. MaxAddrs : begin_call(t, c, k)
    \/ opens(t) \/ opens_fails(t) \/ succeeds(t) \/ fails(t)
    \/ connect_fails(t) \/ v6only_fails(t) \/ close_again6(t) \/ release(t)

-----------------------------------------------------------------------------
\* A descriptor belongs to one thread from socket to its close: a call that
\* returned an error left nothing open, one under way or returned has its own
\* open descriptor and no other, and nobody else closed it.  The second close
\* after anetV6Only is the one exception.  (every error path of anet.cpp)
FdOwned ==
  ~closedTwice6 =>
    \A t \in Threads : apc[t] # "closing" =>
      {f \in Fds : owner[f] = t} = IF s[t] = NoFd THEN {} ELSE {s[t]}
=============================================================================
