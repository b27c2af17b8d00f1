------------------------------ MODULE SolcomApi ------------------------------
(***************************************************************************)
(* The solcom client (solcomapi/src/SolcomApi.cpp): the application calls   *)
(* Start, Stop and SetAutoReconnect, and postMsg from one thread; everything*)
(* else is callbacks of the libuv loop on another.  A callback is one step, *)
(* a postMsg two.  The handles of libuv and the network are the environment.*)
(*                                                                          *)
(* sendCache is the queue that CachedBuffer implements as long as no two    *)
(* producers are inside postMsg together (SpscRefinement of                 *)
(* CachedBufferProofs).  idle_cb is a second producer: once its heartbeat   *)
(* falls into a postMsg of the application, the ring is no queue any more   *)
(* (the run ring_heartbeat) and nothing is assumed of it: raced.            *)
(* A client is started once: a second Start would connect with a handle     *)
(* that is already closed.                                                  *)
(* The body of line 373 is left out: readInterval is computed from          *)
(* lastWrite, which line 369 has kept within MAX_WRITE_IDLE_INTERVAL, so it *)
(* never exceeds the larger MAX_IDLE_INTERVAL.                              *)
(***************************************************************************)
EXTENDS PackageStream

CONSTANTS
  Posts,         \* messages the application posts, each at most once
  Heartbeat,     \* the message of sendHeartbeat
  CacheSize,     \* slots of sendCache
  MaxWriteIdle,  \* MAX_WRITE_IDLE_INTERVAL
  MaxSent,       \* bound on the messages the server sends
  MaxLosses      \* bound on failures of a connection or of an attempt to connect

ASSUME ClientAssumption ==
  /\ Heartbeat \notin Posts /\ CacheSize \in Nat \ {0}
  /\ MaxWriteIdle \in Nat /\ MaxSent \in Nat /\ MaxLosses \in Nat

VARIABLES
  thread,            \* loopThread: none, new, run, ended; crash of the process
  bStop, bAutoReconn, bConnected,
  tcp,               \* state of tcpHandle
  idle, initTimer, recnTimer,   \* the active handles
  sendCache, bReqWritereqBusy,
  posting,           \* the message the application is encoding into sendCache, if any
  raced,             \* history: a heartbeat was encoded meanwhile, the ring is spoilt
                     \* and sendCache stands for it no more (<<>> from then on)
  writing,           \* libuv has req_writereq and owes its callback
  writeAge,          \* seconds since lastWrite
  rx,                \* recvBuffer, recvStat, nNeedRead
  wire,              \* cells on their way from the server
  posted, losses, sends,   \* what the bounds count
  srvLog, spiLog,    \* history: sent and reported on the present connection
  torn,              \* history: a connection ended inside a body
  resigned,          \* history: nothing will try to connect again
  failedWrite        \* history: a write was called back with an error

appVars  == <<bStop, bAutoReconn, posted, posting>>
loopVars == <<idle, initTimer, recnTimer>>
sendVars == <<sendCache, bReqWritereqBusy, raced, writing, writeAge, failedWrite>>
recvVars == <<rx, wire, srvLog, spiLog, torn>>
vars == <<thread, bStop, bAutoReconn, bConnected, tcp, idle, initTimer, recnTimer,
          sendCache, bReqWritereqBusy, posting, raced, writing, writeAge, rx, wire,
          posted, losses, sends, srvLog, spiLog, torn, resigned, failedWrite>>

TypeOK ==
  /\ thread \in {"none", "new", "run", "ended", "crashed"}
  /\ bStop \in BOOLEAN /\ bAutoReconn \in BOOLEAN /\ bConnected \in BOOLEAN
  /\ tcp \in {"init", "connecting", "up", "closing", "closed", "failed", "misused"}
  /\ bConnected <=> tcp = "up"
  /\ idle \in BOOLEAN /\ initTimer \in BOOLEAN /\ recnTimer \in BOOLEAN
  /\ sendCache \in Seq(Posts \cup {Heartbeat}) /\ Len(sendCache) <= CacheSize
  /\ bReqWritereqBusy \in BOOLEAN /\ writing \in BOOLEAN
  /\ bReqWritereqBusy => sendCache # <<>> \/ raced
  /\ posting \subseteq posted /\ raced \in BOOLEAN
  /\ posting # {} => Len(sendCache) < CacheSize \/ raced
  /\ writeAge \in 0 .. MaxWriteIdle + 1
  /\ rx \in Receivers /\ rx.buf.nRight + rx.nNeedRead <= HeadLen + MaxBody
  /\ wire \in Seq(Cells)
  /\ posted \subseteq Posts /\ losses \in 0 .. MaxLosses /\ sends \in 0 .. MaxSent
  /\ srvLog \in Seq(Messages) /\ spiLog \in Seq(Messages \cup {Garbage})
  /\ torn \in BOOLEAN /\ resigned \in BOOLEAN /\ failedWrite \in BOOLEAN

Init ==
  /\ thread = "none" /\ bStop = FALSE /\ bAutoReconn = TRUE /\ bConnected = FALSE
  /\ tcp = "init" /\ idle = FALSE /\ initTimer = FALSE /\ recnTimer = FALSE
  /\ sendCache = <<>> /\ bReqWritereqBusy = FALSE /\ writing = FALSE /\ writeAge = 0
  /\ rx = NewReceiver /\ wire = <<>> /\ posted = {} /\ losses = 0 /\ sends = 0
  /\ srvLog = <<>> /\ spiLog = <<>> /\ torn = FALSE /\ resigned = FALSE
  /\ failedWrite = FALSE /\ posting = {} /\ raced = FALSE

-----------------------------------------------------------------------------
(* The application                                                          *)

Start ==
  /\ thread = "none"
  /\ thread' = "new" /\ bStop' = FALSE
  /\ UNCHANGED <<bAutoReconn, posted, posting, bConnected, tcp, loopVars, sendVars,
                 recvVars, losses, sends, resigned>>

Stop ==
  /\ thread \in {"new", "run"} /\ ~bStop
  /\ bStop' = TRUE
  /\ UNCHANGED <<thread, bAutoReconn, posted, posting, bConnected, tcp, loopVars, sendVars,
                 recvVars, losses, sends, resigned>>

SetAutoReconnect(recon) ==
  /\ thread # "crashed" /\ bAutoReconn # recon
  /\ bAutoReconn' = recon
  /\ UNCHANGED <<thread, bStop, posted, posting, bConnected, tcp, loopVars, sendVars, recvVars,
                 losses, sends, resigned>>

\* What isEmpty and isFull may say: anything once the ring is spoilt.
Empty == IF raced THEN BOOLEAN ELSE {sendCache = <<>>}
Full  == IF raced THEN BOOLEAN ELSE {Len(sendCache) = CacheSize}

\* PostRequest and PushMessage: ERR_NETWORK and ERR_NO_BUFFER change nothing,
\* otherwise the message is encoded into the slot behind the last one.
postMsg(m) ==
  /\ thread # "crashed" /\ posting = {} /\ m \notin posted
  /\ posted' = posted \cup {m}
  /\ \E full \in Full : posting' = IF bConnected /\ ~full THEN {m} ELSE {}
  /\ UNCHANGED <<thread, bStop, bAutoReconn, bConnected, tcp, loopVars, sendVars,
                 recvVars, losses, sends, resigned>>

\* The end of postMsg publishes the slot.
tailForward(m) ==
  /\ thread # "crashed" /\ m \in posting
  /\ posting' = {}
  /\ sendCache' = IF raced THEN <<>> ELSE Append(sendCache, m)
  /\ UNCHANGED <<thread, bStop, bAutoReconn, posted, bConnected, tcp, loopVars,
                 bReqWritereqBusy, raced, writing, writeAge, failedWrite, recvVars,
                 losses, sends, resigned>>

App ==
  \/ Start \/ Stop
  \/ \E recon \in BOOLEAN : SetAutoReconnect(recon)
  \/ \E m \in Posts : postMsg(m) \/ tailForward(m)

-----------------------------------------------------------------------------
(* The loop thread.  uv_close takes effect at the end of the iteration, so  *)
(* no other callback runs while a handle is closing.                        *)

InLoop == thread = "run" /\ tcp # "closing"

\* loopFunction: tests bStop, starts idle and initTimer, enters uv_run.
loopFunction ==
  /\ thread = "new"
  /\ thread' = IF bStop THEN "ended" ELSE "run"
  /\ idle' = ~bStop /\ initTimer' = ~bStop
  /\ writeAge' = 0
  /\ UNCHANGED <<appVars, bConnected, tcp, recnTimer, sendCache, bReqWritereqBusy,
                 raced, writing, failedWrite, recvVars, losses, sends, resigned>>

\* uv_run returns once nothing is active; idle is stopped only after bStop, so
\* the loop of loopFunction ends, too.
uv_run_returns ==
  /\ InLoop
  /\ ~idle /\ ~initTimer /\ ~recnTimer /\ tcp \notin {"connecting", "up"} /\ ~writing
  /\ thread' = "ended"
  /\ UNCHANGED <<appVars, bConnected, tcp, loopVars, sendVars, recvVars, losses, sends,
                 resigned>>

\* libuv aborts when a handle is closed twice.
uv_close == tcp' = IF tcp \in {"closing", "closed"} THEN "misused" ELSE "closing"

\* Mutant: the handle is closed without looking at bConnected.
closeConnectionAlways ==
  /\ uv_close
  /\ torn' = (torn \/ (bConnected /\ rx.recvStat = "Body"))
  /\ bConnected' = FALSE

closeConnection ==
  /\ IF bConnected THEN uv_close ELSE UNCHANGED tcp
  /\ torn' = (torn \/ (bConnected /\ rx.recvStat = "Body"))
  /\ bConnected' = FALSE

\* Mutant: the reconnect timer is not started.
startReconnTimerNever == UNCHANGED recnTimer /\ resigned' = (resigned \/ ~bAutoReconn \/ bStop)

\* After an error: the reconnect timer, unless reconnecting is off.
startReconnTimer ==
  /\ recnTimer' = (recnTimer \/ (bAutoReconn /\ ~bStop))
  /\ resigned' = (resigned \/ ~bAutoReconn \/ bStop)

\* uv_tcp_connect needs a handle that is neither open nor being closed; when it
\* fails at once nothing tries again.
connectServer ==
  \/ /\ tcp' = IF tcp \in {"init", "closed", "failed"} THEN "connecting" ELSE "misused"
     /\ UNCHANGED <<resigned, losses>>
  \/ losses < MaxLosses /\ losses' = losses + 1 /\ tcp' = "failed" /\ resigned' = TRUE

init_timer_cb ==
  /\ InLoop /\ initTimer
  /\ initTimer' = FALSE
  /\ connectServer
  /\ UNCHANGED <<thread, appVars, bConnected, idle, recnTimer, sendVars, recvVars, sends>>

reconn_timer_cb ==
  /\ InLoop /\ recnTimer
  /\ recnTimer' = FALSE
  /\ IF bConnected THEN UNCHANGED <<tcp, losses, resigned>> ELSE connectServer
  /\ UNCHANGED <<thread, appVars, bConnected, idle, initTimer, sendVars, recvVars, sends>>

\* Mutant: the machine keeps what it still wants of the old connection.
ReceiverConnectedKeepsNeed == [rx EXCEPT !.buf = InitArray(@)]

\* connect_cb starts to read with an empty buffer, but leaves recvStat.
ReceiverConnected == [rx EXCEPT !.buf = InitArray(@), !.nNeedRead = HeadLen]

connect_cb ==
  /\ InLoop /\ tcp = "connecting"
  /\ tcp' = "up" /\ bConnected' = TRUE /\ idle' = TRUE
  /\ rx' = ReceiverConnected
  /\ wire' = <<>> /\ srvLog' = <<>> /\ spiLog' = <<>>
  /\ UNCHANGED <<thread, appVars, initTimer, recnTimer, sendVars, torn, losses, sends, resigned>>

connect_cb_error ==
  /\ InLoop /\ tcp = "connecting" /\ losses < MaxLosses
  /\ losses' = losses + 1
  /\ tcp' = "failed"
  /\ startReconnTimer
  /\ UNCHANGED <<thread, appVars, bConnected, idle, initTimer, sendVars, recvVars, sends>>

\* alloc_cb offers nNeedRead cells at nRight, read_cb is told of n of them.
read_cb ==
  /\ InLoop /\ tcp = "up" /\ rx.nNeedRead > 0
  /\ \E n \in 1 .. rx.nNeedRead :
       /\ n <= Len(wire)
       /\ wire' = SubSeq(wire, n + 1, Len(wire))
       /\ \E r \in Received(rx, SubSeq(wire, 1, n)) :
            /\ rx' = r.rx
            /\ IF r.out = <<Crash>>
               THEN thread' = "crashed" /\ UNCHANGED spiLog
               ELSE spiLog' = spiLog \o r.out /\ UNCHANGED thread
  /\ UNCHANGED <<appVars, bConnected, tcp, loopVars, sendVars, srvLog, torn, losses,
                 sends, resigned>>

\* The peer is gone, or a body of length 0 leaves libuv without a buffer.
read_cb_error ==
  /\ InLoop /\ tcp = "up"
  /\ \/ losses < MaxLosses /\ losses' = losses + 1
     \/ rx.nNeedRead = 0 /\ UNCHANGED losses
  /\ closeConnection
  /\ startReconnTimer
  /\ UNCHANGED <<thread, appVars, idle, initTimer, sendVars, rx, wire, srvLog, spiLog, sends>>

headForward == sendCache' = IF raced THEN <<>> ELSE Tail(sendCache)

\* Mutant: the busy flag is cleared only when the cache is empty.
req_write_cbKeepsBusy ==
  /\ InLoop /\ writing /\ tcp = "up"
  /\ writing' = FALSE
  /\ headForward /\ writeAge' = 0
  /\ bReqWritereqBusy' = (sendCache' # <<>>)
  /\ UNCHANGED <<thread, appVars, bConnected, tcp, loopVars, raced, recvVars, losses, sends,
                 resigned, failedWrite>>

req_write_cb ==
  /\ InLoop /\ writing /\ tcp = "up"
  /\ writing' = FALSE
  /\ headForward /\ writeAge' = 0
  /\ bReqWritereqBusy' = FALSE
  /\ UNCHANGED <<thread, appVars, bConnected, tcp, loopVars, raced, recvVars, losses, sends,
                 resigned, failedWrite>>

\* The write failed, or its handle is being closed (UV_ECANCELED).
\* bReqWritereqBusy stays set.
req_write_cb_error ==
  /\ thread = "run" /\ writing
  /\ \/ tcp = "up" /\ losses < MaxLosses /\ losses' = losses + 1
     \/ tcp = "closing" /\ UNCHANGED losses
  /\ writing' = FALSE /\ failedWrite' = TRUE
  /\ closeConnection
  /\ startReconnTimer
  /\ UNCHANGED <<thread, appVars, idle, initTimer, sendCache, bReqWritereqBusy, raced, writeAge,
                 rx, wire, srvLog, spiLog, sends>>

\* The end of the iteration, after the callbacks of cancelled writes.
close_done ==
  /\ thread = "run" /\ tcp = "closing" /\ ~writing
  /\ tcp' = "closed"
  /\ wire' = <<>>
  /\ UNCHANGED <<thread, appVars, bConnected, loopVars, sendVars, rx, srvLog, spiLog, torn,
                 losses, sends, resigned>>

\* The loop thread as a second producer.  When the application is inside postMsg
\* both have the same slot: what the ring holds from then on is not known, and
\* both may free and replace the array of the slot (Reallocate).
sendHeartbeat ==
  /\ raced' = (raced \/ posting # {})
  /\ sendCache' = IF raced' THEN <<>>
                  ELSE IF Len(sendCache) = CacheSize THEN sendCache
                  ELSE Append(sendCache, Heartbeat)
  /\ thread' = thread \/ (raced' /\ thread' = "crashed")

\* Mutant: stopping waits for the cache also without a connection.
idle_endsEmpty(empty) == bStop /\ empty

\* Whether idle_cb stops idleHandle and closes the connection.
idle_ends(empty) == bStop /\ (bConnected => empty)

\* Writes the first message, posts a heartbeat on a quiet connection, and ends
\* when stopped.
idle_cb ==
  /\ InLoop /\ idle
  /\ \E empty \in Empty :
       LET write == bConnected /\ ~empty /\ ~bReqWritereqBusy
       IN  /\ bReqWritereqBusy' = (bReqWritereqBusy \/ write)
           /\ writing' = (writing \/ write)
           /\ IF idle_ends(empty)
              THEN idle' = FALSE /\ closeConnection
              ELSE UNCHANGED <<idle, tcp, torn, bConnected>>
  /\ IF bConnected /\ ~bStop /\ writeAge > MaxWriteIdle
     THEN sendHeartbeat /\ writeAge' = 0
     ELSE UNCHANGED <<thread, sendCache, raced, writeAge>>
  /\ UNCHANGED <<appVars, initTimer, recnTimer, rx, wire, srvLog, spiLog, losses,
                 sends, resigned, failedWrite>>

Loop ==
  \/ loopFunction \/ uv_run_returns \/ init_timer_cb \/ reconn_timer_cb
  \/ connect_cb \/ connect_cb_error \/ read_cb \/ read_cb_error
  \/ req_write_cb \/ req_write_cb_error \/ close_done \/ idle_cb

-----------------------------------------------------------------------------
(* The environment                                                          *)

server_sends(m) ==
  /\ thread = "run" /\ tcp = "up" /\ sends < MaxSent
  /\ sends' = sends + 1
  /\ wire' = wire \o Package(m)
  /\ srvLog' = Append(srvLog, m)
  /\ UNCHANGED <<thread, appVars, bConnected, tcp, loopVars, sendVars, rx, spiLog, torn,
                 losses, resigned>>

second_passes ==
  /\ thread = "run" /\ writeAge <= MaxWriteIdle
  /\ writeAge' = writeAge + 1
  /\ UNCHANGED <<thread, appVars, bConnected, tcp, loopVars, sendCache, bReqWritereqBusy,
                 raced, writing, failedWrite, recvVars, losses, sends, resigned>>

Next == App \/ Loop \/ (\E m \in Messages : server_sends(m)) \/ second_passes

Spec == Init /\ [][Next]_vars

(* The loop runs its callbacks: idle and closing handles in every iteration, *)
(* timers when they are due; an attempt to connect and a write end one way  *)
(* or the other (TCP gives up in the end), and bytes that arrived are read. *)
(* The thread that is inside postMsg gets to its end.                       *)
Fairness ==
  /\ WF_vars(loopFunction) /\ WF_vars(uv_run_returns) /\ WF_vars(idle_cb) /\ WF_vars(close_done)
  /\ WF_vars(init_timer_cb) /\ WF_vars(reconn_timer_cb)
  /\ WF_vars(connect_cb \/ connect_cb_error)
  /\ WF_vars(req_write_cb) /\ WF_vars(tcp = "closing" /\ req_write_cb_error)
  /\ WF_vars(read_cb \/ (rx.nNeedRead = 0 /\ read_cb_error))
  /\ \A m \in Posts : WF_vars(tailForward(m))

FairSpec == Spec /\ Fairness
-----------------------------------------------------------------------------
(* Properties                                                               *)

IsPrefixOf(s, t) == Len(s) <= Len(t) /\ s = SubSeq(t, 1, Len(s))

\* The application is told exactly the messages the server sent on this
\* connection, in their order, however the bytes are split into reads and
\* however earlier connections ended, unless one of them ended inside a body:
\* then recvStat, which connect_cb does not reset, takes a head for a body.
Framed == torn \/ IsPrefixOf(spiLog, srvLog)

\* While the loop runs without a connection, an attempt is under way or a timer
\* will start one, unless reconnecting was off at an error or uv_tcp_connect
\* failed at once: no path through the callbacks forgets to reconnect.
NeverStranded ==
  thread = "run" /\ ~bStop /\ ~bConnected /\ ~resigned =>
    initTimer \/ recnTimer \/ tcp = "connecting"

\* libuv's rules for tcpHandle are kept: it is never closed twice nor connected
\* while open.  A connection can fail twice over (a read error, then the
\* cancelled write) and a timer may fire after a Stop or a successful connect.
\* The flags and buffers around it keep their types.
HandleDiscipline == TypeOK /\ tcp # "misused"

\* Stop ends the loop thread, so Join returns, unless a failed write has left the
\* busy flag set: idle_cb then waits for a cache that is never emptied; or unless
\* the ring is spoilt, of which isEmpty may then never be true.
StopReturns == bStop ~> (thread \in {"ended", "crashed"} \/ failedWrite \/ raced)

\* A message accepted by postMsg, also one whose connection is lost or whose
\* client is stopped while it is being encoded, is written as long as the
\* connection lasts; unless a write had failed before (SolcomApi.cpp:300), or the
\* heartbeat of line 368 fell into a postMsg: then it may be lost.
PostedWritten ==
  \A m \in Posts :
    LET held == m \in posting \/ \E i \in 1 .. Len(sendCache) : sendCache[i] = m
    IN  held ~> (~held \/ ~bConnected \/ failedWrite \/ raced \/ thread = "crashed")

\* A message the server sent is reported to the application, unless the
\* connection is lost or closed first or the framing was torn before, or the
\* process has ended in a heap that two postMsg have spoilt.
MessageReported ==
  (tcp = "up" /\ Len(spiLog) < Len(srvLog))
    ~> (tcp # "up" \/ Len(spiLog) = Len(srvLog) \/ torn \/ (raced /\ thread = "crashed"))
=============================================================================
