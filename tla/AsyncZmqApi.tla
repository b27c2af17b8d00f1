----------------------------- MODULE AsyncZmqApi -----------------------------
(***************************************************************************)
(* The asynchronous ZeroMQ client of StragetyDeployer/AsyncZmqApi.{h,cpp}:  *)
(* one thread of the application calls Connect, Start, Stop, Join and the   *)
(* destructor; pollFunc runs in a thread of its own.  What pollFunc does    *)
(* with a received frame (m_funcRecv) and what is sent is added by          *)
(* DispatcherManager, which extends this module.                            *)
(*                                                                          *)
(* The flags are volatile and unlocked; a step accesses one of them that    *)
(* the other thread may be changing.  ZeroMQ passes multipart messages on   *)
(* as a whole and owns endpoint, link and events.                           *)
(***************************************************************************)
EXTENDS Integers, Sequences, FiniteSets

CONSTANTS
  Addrs,      \* addresses of servers
  NoAddr,     \* the empty address
  MaxCalls,   \* bound on the calls of the application
  MaxLinks    \* bound on the TCP connections ZeroMQ establishes

ASSUME ApiBounds == MaxCalls \in Nat /\ MaxLinks \in Nat
ASSUME ApiAddrs == NoAddr \notin Addrs

VARIABLES
  m_strAddr,        \* the address registered last
  m_bInitConnect, m_bStop, m_bPolling, m_bTcpConnected,
  joinable,         \* m_thdPoll holds a thread
  tpc,              \* where pollFunc is
  apc,              \* where the thread of the application is
  calls,            \* calls of the application so far
  endpoint,         \* the address m_sockTcp is connect()ed to
  link, links,      \* the TCP connection is up; connections so far
  events,           \* what the monitor of m_sockTcp has yet to report
  inproc,           \* messages waiting in m_sockInprocServer
  server,           \* messages handed to m_sockTcp and not answered
  rx,               \* messages waiting in m_sockTcp, as sequences of frames
  terminated,       \* std::terminate or abort has been called
  hasty,            \* history: opened again before the new thread was polling
  moved             \* history: another address registered while connected

flagVars == <<m_bInitConnect, m_bStop, m_bPolling, m_bTcpConnected>>
sockVars == <<endpoint, link, links, events, inproc, server, rx>>
apiVars == <<m_strAddr, m_bInitConnect, m_bStop, m_bPolling, m_bTcpConnected,
             joinable, tpc, apc, calls, endpoint, link, links, events, inproc,
             server, rx, terminated, hasty, moved>>

AppPc  == {"idle", "start", "spawn", "join", "destroy", "gone", "login", "send"}
PollPc == {"none", "begin", "top", "check", "poll", "recv", "exit", "polled", "ended"}

ApiTypeOK ==
  /\ {m_bInitConnect, m_bStop, m_bPolling, m_bTcpConnected, joinable, link,
      terminated, hasty, moved} \subseteq BOOLEAN
  /\ {m_strAddr, endpoint} \subseteq Addrs \cup {NoAddr}
  /\ tpc \in PollPc /\ (joinable <=> tpc # "none")
  /\ apc \in AppPc
  /\ calls \in 0 .. MaxCalls /\ links \in 0 .. MaxLinks
  /\ events \in Seq({"connected", "disconnected"})
  /\ link => endpoint # NoAddr

ApiInit ==
  /\ m_strAddr = NoAddr
  /\ m_bInitConnect = FALSE /\ m_bStop = FALSE /\ m_bPolling = FALSE
  /\ m_bTcpConnected = FALSE
  /\ joinable = FALSE /\ tpc = "none" /\ apc = "idle" /\ calls = 0
  /\ endpoint = NoAddr /\ link = FALSE /\ links = 0 /\ events = <<>>
  /\ inproc = {} /\ server = {} /\ rx = <<>>
  /\ terminated = FALSE /\ hasty = FALSE /\ moved = FALSE

-----------------------------------------------------------------------------
(* The application                                                          *)

\* A call of the application begins.
Call == apc = "idle" /\ calls < MaxCalls /\ calls' = calls + 1

SetRemoteAddr(a) ==
  /\ Call
  /\ m_strAddr' = a
  /\ moved' = (moved \/ endpoint \notin {NoAddr, a})
  /\ UNCHANGED <<flagVars, sockVars, joinable, tpc, apc, terminated, hasty>>

\* OpenAsyncApi: Connect, followed by Start unless it failed.
Connect ==
  /\ Call
  /\ hasty' = (hasty \/ tpc = "begin")
  /\ \/ /\ ~m_bInitConnect /\ m_strAddr # NoAddr
        /\ endpoint' = m_strAddr
        /\ m_bInitConnect' = TRUE
        /\ apc' = "start"
     \/ /\ ~m_bInitConnect /\ m_strAddr = NoAddr
        /\ UNCHANGED <<apc, endpoint, m_bInitConnect>>
     \/ /\ m_bInitConnect
        /\ apc' = "start"
        /\ UNCHANGED <<endpoint, m_bInitConnect>>
  /\ UNCHANGED <<m_strAddr, m_bStop, m_bPolling, m_bTcpConnected, joinable, tpc, link,
                 links, events, inproc, server, rx, terminated, moved>>

Start ==
  /\ apc = "start"
  /\ m_bStop' = FALSE
  /\ apc' = "spawn"
  /\ UNCHANGED <<m_strAddr, m_bInitConnect, m_bPolling, m_bTcpConnected, joinable,
                 tpc, calls, sockVars, terminated, hasty, moved>>

\* The assignment to m_thdPoll: assigning to a std::thread that is joinable
\* terminates the program.
NewThread ==
  \/ /\ ~joinable
     /\ joinable' = TRUE /\ tpc' = "begin" /\ apc' = "idle"
     /\ UNCHANGED terminated
  \/ /\ joinable
     /\ terminated' = TRUE /\ apc' = "gone"
     /\ UNCHANGED <<joinable, tpc>>

\* Mutant: m_bPolling is not looked at.
SpawnAlways ==
  /\ apc = "spawn"
  /\ NewThread
  /\ UNCHANGED <<m_strAddr, flagVars, calls, sockVars, hasty, moved>>

\* A thread is started if nobody polls.
Spawn ==
  /\ apc = "spawn"
  /\ \/ m_bPolling /\ apc' = "idle" /\ UNCHANGED <<joinable, tpc, terminated>>
     \/ ~m_bPolling /\ NewThread
  /\ UNCHANGED <<m_strAddr, flagVars, calls, sockVars, hasty, moved>>

\* CloseAsyncApi: Stop ...
Stop ==
  /\ Call
  /\ m_bStop' = TRUE
  /\ apc' = "join"
  /\ UNCHANGED <<m_strAddr, m_bInitConnect, m_bPolling, m_bTcpConnected, joinable,
                 tpc, sockVars, terminated, hasty, moved>>

\* Mutant: the thread is detached.
JoinDetaches ==
  /\ apc \in {"join", "destroy"}
  /\ joinable' = FALSE
  /\ apc' = IF apc = "join" THEN "idle" ELSE "gone"
  /\ UNCHANGED <<m_strAddr, flagVars, tpc, calls, sockVars, terminated, hasty, moved>>

\* ... and Join.  The destructor joins, too, but stops nothing.
Join ==
  /\ apc \in {"join", "destroy"}
  /\ joinable => tpc = "ended"
  /\ joinable' = FALSE /\ tpc' = "none"
  /\ apc' = IF apc = "join" THEN "idle" ELSE "gone"
  /\ UNCHANGED <<m_strAddr, flagVars, calls, sockVars, terminated, hasty, moved>>

Destroy ==
  /\ apc = "idle"
  /\ apc' = "destroy"
  /\ UNCHANGED <<m_strAddr, flagVars, joinable, tpc, calls, sockVars, terminated,
                 hasty, moved>>

-----------------------------------------------------------------------------
(* pollFunc                                                                 *)

PollGoto(from, to) == tpc = from /\ tpc' = to

\* The test and the assignment are one step: all the other thread can do in
\* between is Stop, which it might as well do afterwards.
Begin ==
  /\ PollGoto("begin", "top")
  /\ m_bPolling' = (m_bPolling \/ ~m_bStop)
  /\ UNCHANGED <<m_strAddr, m_bInitConnect, m_bStop, m_bTcpConnected, joinable, apc,
                 calls, sockVars, terminated, hasty, moved>>

LoopTest ==
  /\ PollGoto("top", IF m_bStop THEN "exit" ELSE "check")
  /\ UNCHANGED <<m_strAddr, flagVars, joinable, apc, calls, sockVars, terminated,
                 hasty, moved>>

\* Mutant: on_event_connected sets nothing.
CheckEventDownOnly ==
  /\ PollGoto("check", "poll")
  /\ \/ /\ events # <<>>
        /\ m_bTcpConnected' = (m_bTcpConnected /\ Head(events) = "connected")
        /\ events' = Tail(events)
     \/ events = <<>> /\ UNCHANGED <<m_bTcpConnected, events>>
  /\ UNCHANGED <<m_strAddr, m_bInitConnect, m_bStop, m_bPolling, joinable, apc, calls,
                 endpoint, link, links, inproc, server, rx, terminated, hasty, moved>>

\* check_event(0): on_event_connected or on_event_disconnected.
CheckEvent ==
  /\ PollGoto("check", "poll")
  /\ \/ /\ events # <<>>
        /\ m_bTcpConnected' = (Head(events) = "connected")
        /\ events' = Tail(events)
     \/ events = <<>> /\ UNCHANGED <<m_bTcpConnected, events>>
  /\ UNCHANGED <<m_strAddr, m_bInitConnect, m_bStop, m_bPolling, joinable, apc, calls,
                 endpoint, link, links, inproc, server, rx, terminated, hasty, moved>>

\* Mutant: nothing is forwarded while the monitor reports no connection.
ForwardConnected ==
  \/ inproc = {} /\ UNCHANGED <<inproc, server>>
  \/ ~m_bTcpConnected /\ UNCHANGED <<inproc, server>>
  \/ m_bTcpConnected /\ \E m \in inproc : inproc' = inproc \ {m} /\ server' = server \cup {m}

\* One message of one of the sockets connected to m_sockInprocServer is handed
\* to m_sockTcp, whichever the fair queue of ZeroMQ chooses.
Forward ==
  \/ inproc = {} /\ UNCHANGED <<inproc, server>>
  \/ \E m \in inproc : inproc' = inproc \ {m} /\ server' = server \cup {m}

\* Mutant: the poll waits until there is something to do.
PollBlocks ==
  /\ inproc # {} \/ rx # <<>>
  /\ PollGoto("poll", IF rx # <<>> THEN "recv" ELSE "top")
  /\ Forward
  /\ UNCHANGED <<m_strAddr, flagVars, joinable, apc, calls, endpoint, link, links,
                 events, rx, terminated, hasty, moved>>

\* zmq::poll without waiting.
Poll ==
  /\ PollGoto("poll", IF rx # <<>> THEN "recv" ELSE "top")
  /\ Forward
  /\ UNCHANGED <<m_strAddr, flagVars, joinable, apc, calls, endpoint, link, links,
                 events, rx, terminated, hasty, moved>>

\* m_sockTcp.disconnect, which throws if m_sockTcp is not connected to that
\* address, and the reset of m_bInitConnect.  What was queued in m_sockTcp is lost or not.
Exit ==
  /\ PollGoto("exit", "polled")
  /\ endpoint' = NoAddr /\ link' = FALSE
  /\ server' = {}
  /\ rx' \in {rx, <<>>}
  /\ events' \in IF link THEN {events, Append(events, "disconnected")} ELSE {events}
  /\ terminated' = (endpoint # m_strAddr)
  /\ m_bInitConnect' = FALSE
  /\ UNCHANGED <<m_strAddr, m_bStop, m_bPolling, m_bTcpConnected, joinable, apc, calls,
                 links, inproc, hasty, moved>>

\* Mutant: m_bPolling is left set.
ExitStillPolling ==
  /\ PollGoto("polled", "ended")
  /\ UNCHANGED <<m_strAddr, flagVars, joinable, apc, calls, sockVars, terminated,
                 hasty, moved>>

ExitPolled ==
  /\ PollGoto("polled", "ended")
  /\ m_bPolling' = FALSE
  /\ UNCHANGED <<m_strAddr, m_bInitConnect, m_bStop, m_bTcpConnected, joinable, apc,
                 calls, sockVars, terminated, hasty, moved>>

PollStep == Begin \/ LoopTest \/ CheckEvent \/ Poll \/ Exit \/ ExitPolled

-----------------------------------------------------------------------------
(* ZeroMQ                                                                   *)

LinkUp ==
  /\ endpoint # NoAddr /\ ~link /\ links < MaxLinks
  /\ link' = TRUE /\ links' = links + 1
  /\ events' = Append(events, "connected")
  /\ UNCHANGED <<m_strAddr, flagVars, joinable, tpc, apc, calls, endpoint, inproc,
                 server, rx, terminated, hasty, moved>>

LinkDown ==
  /\ link
  /\ link' = FALSE
  /\ events' = Append(events, "disconnected")
  /\ server' \in SUBSET server
  /\ UNCHANGED <<m_strAddr, flagVars, joinable, tpc, apc, calls, endpoint, links,
                 inproc, rx, terminated, hasty, moved>>
=============================================================================
