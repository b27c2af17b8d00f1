-------------------------- MODULE DispatcherManager --------------------------
(***************************************************************************)
(* The client library of the strategy deployer:                             *)
(* StragetyDeployer/DispatcherManager.{h,cpp} on top of AsyncZmqApi.        *)
(*                                                                          *)
(* Requests are built by the thread of the application and cross to the     *)
(* polling thread through an in-process socket each.  recvHandle runs in    *)
(* the polling thread, one frame at a time, and calls the callbacks of the  *)
(* application.  The server is an environment that keeps to the order of    *)
(* frames of CommonStruct.h.                                                *)
(***************************************************************************)
EXTENDS AsyncZmqApi

CONSTANTS
  Users,        \* identities the application logs in with
  NoId, Torn,   \* no identity yet; an identity being overwritten
  Requests,     \* commands the application requests, some of ReqCmds
  Elements,     \* element types it asks for
  NoElement,
  MaxRows,      \* bound on the rows of an answer
  MaxPushes     \* bound on the messages the server pushes

ReqCmds == {"TLogin", "TLogout", "TQuery", "TInsert", "TDelete", "TDelByCol",
            "TUpdate", "TDeploy", "TExecute", "TFinish"}

ASSUME RequestBounds ==
  Requests \subseteq ReqCmds /\ MaxRows \in Nat /\ MaxPushes \in Nat
ASSUME Marks ==
  {NoId, Torn} \cap Users = {} /\ NoId # Torn /\ NoElement \notin Elements

VARIABLES
  m_strIdentity,
  areq,             \* the request being built
  stateMachine, msgPattern, reqRsp, recvCmd, recvEleType,
  frame,            \* index of the next frame of the message being received
  log,              \* history: callbacks made for that message
  known,            \* the server has a user for this connection
  pushes,           \* messages the server has pushed
  relogin           \* history: ReqLogin was called with an identity in use

recvVars == <<stateMachine, msgPattern, reqRsp, recvCmd, recvEleType, frame, log>>
envVars == <<known, pushes>>
vars == <<apiVars, m_strIdentity, areq, recvVars, envVars, relogin>>

-----------------------------------------------------------------------------
(* Messages                                                                 *)

\* client --> server; n tells messages apart.
Msg(n, cmd, id, ele) == [n |-> n, cmd |-> cmd, id |-> id, ele |-> ele]

Msgs ==
  [n : 0 .. MaxCalls + MaxPushes, cmd : ReqCmds \cup {"TKeepAlive"},
   id : Users \cup {NoId, Torn}, ele : Elements \cup {NoElement}]

\* server --> client: a response to request n or a push, a pattern, a command,
\* perhaps an element type, and then perhaps rows.
Answers ==
  [pattern : {"TPassiveResponse", "TActivePush"}, n : 0 .. MaxCalls + MaxPushes,
   cmd : ReqCmds \cup {"TKeepAlive"}, ele : Elements \cup {NoElement}, rows : 0 .. MaxRows]

\* The frames of a message, of which recvHandle sees the size and the contents.
Frames(a) ==
  [i \in 1 .. (IF a.ele = NoElement THEN 2 ELSE 3 + a.rows) |->
     CASE i = 1 -> [len |-> "int", val |-> a.pattern]
       [] i = 2 /\ a.pattern = "TPassiveResponse" -> [len |-> "rsp", val |-> <<a.n, a.cmd>>]
       [] i = 2 /\ a.pattern = "TActivePush" -> [len |-> "int", val |-> a.cmd]
       [] i = 3 -> [len |-> "int", val |-> a.ele]
       [] OTHER -> [len |-> "element", val |-> i - 3]]

Init ==
  /\ ApiInit
  /\ m_strIdentity = NoId
  /\ areq = Msg(0, "TLogin", NoId, NoElement)
  /\ stateMachine = "StatInit" /\ msgPattern = "TPassiveResponse"
  /\ reqRsp = <<0, "TNullCmd">> /\ recvCmd = "TNullCmd" /\ recvEleType = NoElement
  /\ frame = 1 /\ log = <<>>
  /\ known = FALSE /\ pushes = 0
  /\ relogin = FALSE

-----------------------------------------------------------------------------
(* Requests.  One that IsConnected refuses, or a ReqLogin without identity  *)
(* or a ReqInsUpdDelByEletype without elements, returns and changes nothing.*)

\* Mutant: the identity is sent and not kept.
ReqLoginUnkept(id) ==
  /\ Call /\ "TLogin" \in Requests
  /\ m_bTcpConnected
  /\ relogin' = (relogin \/ m_strIdentity # NoId)
  /\ areq' = Msg(calls', "TLogin", id, NoElement)
  /\ apc' = "send"
  /\ UNCHANGED <<m_strAddr, flagVars, sockVars, joinable, tpc, terminated, hasty, moved,
                 m_strIdentity, recvVars, envVars>>

\* ReqLogin begins to assign m_strIdentity.
ReqLogin(id) ==
  /\ Call /\ "TLogin" \in Requests
  /\ m_bTcpConnected
  /\ relogin' = (relogin \/ m_strIdentity # NoId)
  /\ m_strIdentity' = Torn
  /\ areq' = Msg(calls', "TLogin", id, NoElement)
  /\ apc' = "login"
  /\ UNCHANGED <<m_strAddr, flagVars, sockVars, joinable, tpc, terminated, hasty, moved,
                 recvVars, envVars>>

\* The assignment is complete.
AssignIdentity ==
  /\ apc = "login"
  /\ m_strIdentity' = areq.id
  /\ apc' = "send"
  /\ UNCHANGED <<m_strAddr, flagVars, sockVars, joinable, tpc, calls, terminated, hasty,
                 moved, areq, recvVars, envVars, relogin>>

\* The other requests, which carry m_strIdentity.
Req(cmd, ele) ==
  /\ Call /\ cmd \in Requests \ {"TLogin"}
  /\ cmd = "TLogout" <=> ele = NoElement
  /\ m_bTcpConnected
  /\ areq' = Msg(calls', cmd, m_strIdentity, ele)
  /\ apc' = "send"
  /\ UNCHANGED <<m_strAddr, flagVars, sockVars, joinable, tpc, terminated, hasty, moved,
                 m_strIdentity, recvVars, envVars, relogin>>

\* The last frame is sent: the message is in the in-process socket.
Send ==
  /\ apc = "send"
  /\ inproc' = inproc \cup {areq}
  /\ apc' = "idle"
  /\ UNCHANGED <<m_strAddr, flagVars, endpoint, link, links, events, server, rx,
                 joinable, tpc, calls, terminated, hasty, moved, m_strIdentity, areq,
                 recvVars, envVars, relogin>>

-----------------------------------------------------------------------------
(* recvHandle                                                               *)

Frame == Frames(Head(rx))[frame]
bLast == frame = Len(Frames(Head(rx)))

Callback(cb, n, row, last) == [cb |-> cb, n |-> n, row |-> row, last |-> last]

\* onReqRsp for a response without element type.
OnRsp(cmd) ==
  CASE cmd = "TLogin"  -> "OnRspLogin"
    [] cmd = "TLogout" -> "OnRspLogout"
    [] cmd = "TDeploy" -> "OnRspDeploy"
    [] cmd = "TFinish" -> "OnRspFinish"
    [] cmd = "TInsert" -> "OnRspInsert"
    [] cmd \in {"TDelete", "TDelByCol"} -> "OnRspDelete"
    [] cmd = "TUpdate" -> "OnRspUpdate"
    [] OTHER           -> "OnRspCommon"

\* onReqRsp for one with element type: a callback per element type for TQuery,
\* none for another command.
OnReqRspElement(rsp, ele, row) ==
  IF rsp[2] = "TQuery" THEN <<Callback(ele, rsp[1], row, bLast)>> ELSE <<>>

\* The message being received ends with this frame, or the next one is due.
NextFrame ==
  /\ frame' = IF bLast THEN 1 ELSE frame + 1
  /\ rx' = IF bLast THEN Tail(rx) ELSE rx
  /\ tpc' = IF bLast THEN "top" ELSE "recv"
  /\ UNCHANGED <<m_strAddr, flagVars, endpoint, link, links, events, server, joinable,
                 apc, calls, hasty, moved, m_strIdentity, areq, envVars, relogin>>

\* A frame of the size that state st expects, or the assertion aborts.
Receive(st, len) ==
  /\ tpc = "recv" /\ stateMachine = st
  /\ terminated' = (Frame.len # len)
  /\ NextFrame

GetPattern ==
  /\ Receive("StatInit", "int")
  /\ msgPattern' = Frame.val
  /\ stateMachine' = IF bLast THEN "StatInit" ELSE "StatGetPattern"
  /\ log' = <<>>
  /\ UNCHANGED <<inproc, reqRsp, recvCmd, recvEleType>>

GetRsp ==
  /\ msgPattern = "TPassiveResponse"
  /\ Receive("StatGetPattern", "rsp")
  /\ reqRsp' = Frame.val
  /\ stateMachine' = IF bLast THEN "StatInit" ELSE "StatGetRsp"
  /\ log' = IF bLast THEN Append(log, Callback(OnRsp(Frame.val[2]), Frame.val[1], 0, TRUE))
                     ELSE log
  /\ UNCHANGED <<inproc, msgPattern, recvCmd, recvEleType>>

\* onMsgPush(cmd) answers a keep-alive with the identity it finds.
GetPush ==
  /\ msgPattern = "TActivePush"
  /\ Receive("StatGetPattern", "int")
  /\ recvCmd' = Frame.val
  /\ stateMachine' = IF bLast THEN "StatInit" ELSE "StatGetCmd"
  /\ inproc' = IF bLast /\ Frame.val = "TKeepAlive"
               THEN inproc \cup {Msg(Head(rx).n, "TKeepAlive", m_strIdentity, NoElement)}
               ELSE inproc
  /\ UNCHANGED <<msgPattern, reqRsp, recvEleType, log>>

\* Mutant: the rows of a response are expected after the type even if none follow.
GetEleTypeNeverLast ==
  /\ \E st \in {"StatGetCmd", "StatGetRsp"} : Receive(st, "int")
  /\ recvEleType' = Frame.val
  /\ stateMachine' = "StatGetEleType"
  /\ log' = IF bLast /\ stateMachine = "StatGetRsp"
            THEN log \o OnReqRspElement(reqRsp, Frame.val, 0) ELSE log
  /\ UNCHANGED <<inproc, msgPattern, reqRsp, recvCmd>>

\* The element type of a push or of a response, the latter reported at once
\* when no row follows.
GetEleType ==
  /\ \E st \in {"StatGetCmd", "StatGetRsp"} : Receive(st, "int")
  /\ recvEleType' = Frame.val
  /\ stateMachine' = IF bLast THEN "StatInit" ELSE "StatGetEleType"
  /\ log' = IF bLast /\ stateMachine = "StatGetRsp"
            THEN log \o OnReqRspElement(reqRsp, Frame.val, 0) ELSE log
  /\ UNCHANGED <<inproc, msgPattern, reqRsp, recvCmd>>

\* A row; those of a push are ignored by onMsgPush.
GetElement ==
  /\ Receive("StatGetEleType", Frame.len)
  /\ stateMachine' = IF bLast THEN "StatInit" ELSE stateMachine
  /\ log' = IF msgPattern = "TPassiveResponse"
            THEN log \o OnReqRspElement(reqRsp, recvEleType, Frame.val) ELSE log
  /\ UNCHANGED <<inproc, msgPattern, reqRsp, recvCmd, recvEleType>>

RecvHandle == GetPattern \/ GetRsp \/ GetPush \/ GetEleType \/ GetElement

-----------------------------------------------------------------------------
(* The server                                                               *)

Deliver(a) ==
  /\ link
  /\ rx' = Append(rx, a)
  /\ UNCHANGED <<m_strAddr, flagVars, endpoint, link, links, events, inproc, joinable,
                 tpc, apc, calls, terminated, hasty, moved, m_strIdentity, areq, recvVars,
                 relogin>>

\* A request is answered in brief, or a query with its element type and rows.
Answer(m) ==
  /\ m.cmd # "TKeepAlive"
  /\ \E ele \in {NoElement, m.ele}, rows \in 0 .. MaxRows :
       /\ ele # NoElement => m.cmd = "TQuery"
       /\ rows > 0 => ele # NoElement
       /\ Deliver([pattern |-> "TPassiveResponse", n |-> m.n, cmd |-> m.cmd,
                   ele |-> ele, rows |-> rows])
  /\ known' = (known \/ m.id \in Users)
  /\ server' = server \ {m}
  /\ UNCHANGED pushes

\* A keep-alive to a connection with a user, or a push with elements, for which
\* the client has no use yet.
Push ==
  /\ known /\ pushes < MaxPushes
  /\ pushes' = pushes + 1
  /\ \E ele \in Elements \cup {NoElement}, rows \in 0 .. MaxRows :
       /\ rows > 0 => ele # NoElement
       /\ Deliver([pattern |-> "TActivePush", n |-> MaxCalls + pushes', cmd |-> "TKeepAlive",
                   ele |-> ele, rows |-> rows])
  /\ UNCHANGED <<server, known>>

\* The server forgets a connection with its link.
Forget == known' = (known /\ link')

-----------------------------------------------------------------------------
mgrVars == <<m_strIdentity, areq, recvVars, envVars, relogin>>

App ==
  \/ /\ \/ \E a \in Addrs : SetRemoteAddr(a)
        \/ Connect
        \/ Stop
        \/ Destroy
     /\ UNCHANGED mgrVars
  \/ \E id \in Users : ReqLogin(id)
  \/ \E cmd \in Requests, ele \in Elements \cup {NoElement} : Req(cmd, ele)

\* The application within a call.
InCall ==
  \/ (Start \/ Spawn \/ Join) /\ UNCHANGED mgrVars
  \/ AssignIdentity
  \/ Send

PollFunc ==
  \/ PollStep /\ Forget /\ UNCHANGED <<m_strIdentity, areq, recvVars, pushes, relogin>>
  \/ RecvHandle

Network ==
  /\ LinkUp \/ LinkDown
  /\ Forget
  /\ UNCHANGED <<m_strIdentity, areq, recvVars, pushes, relogin>>

Server == (\E m \in server : Answer(m)) \/ Push

Next == ~terminated /\ (App \/ InCall \/ PollFunc \/ Network \/ Server)

Spec == Init /\ [][Next]_vars

\* Both threads run; the application need not call anything, nor the server
\* answer or the network connect.
Fairness == WF_vars(~terminated /\ PollFunc) /\ WF_vars(~terminated /\ InCall)

FairSpec == Spec /\ Fairness

-----------------------------------------------------------------------------
(* Properties                                                               *)

\* Every variable has its type; a frame is being received only in recv.
TypeOK ==
  /\ ApiTypeOK
  /\ inproc \subseteq Msgs /\ server \subseteq Msgs /\ areq \in Msgs
  /\ rx \in Seq(Answers)
  /\ m_strIdentity \in Users \cup {NoId, Torn}
  /\ stateMachine \in {"StatInit", "StatGetPattern", "StatGetCmd", "StatGetRsp", "StatGetEleType"}
  /\ msgPattern \in {"TPassiveResponse", "TActivePush"}
  /\ recvEleType \in Elements \cup {NoElement}
  /\ frame \in 1 .. 3 + MaxRows
  /\ frame > 1 => tpc = "recv" /\ rx # <<>>
  /\ known \in BOOLEAN /\ pushes \in 0 .. MaxPushes /\ relogin \in BOOLEAN

\* Opening a client that is polling, closing it and opening it again are safe:
\* the program is terminated only if OpenAsyncApi is called again before the
\* thread has set m_bPolling (std::thread assigned while joinable), or another
\* address is registered while connected (disconnect throws), and no assertion
\* of recvHandle fails.
SafeReopen == terminated => hasty \/ moved

\* Between calls a connected endpoint has a thread that polls it: OpenAsyncApi
\* never finds a flag of the previous thread and then starts none.
EndpointPolled ==
  apc = "idle" /\ ~terminated =>
    /\ m_bInitConnect => tpc \notin {"none", "ended"}
    /\ ~m_bInitConnect => tpc = "none" /\ endpoint = NoAddr

\* A keep-alive of the server is answered with a whole identity, unless the
\* application logged in a second time: ReqLogin stores m_strIdentity before
\* the server can know of the login, and nothing locks it afterwards.
KeepAliveIdentified ==
  \A m \in inproc \cup server : m.cmd = "TKeepAlive" => m.id \in Users \/ relogin

\* The callbacks a message asks for.
Callbacks(a) ==
  IF a.pattern = "TActivePush" THEN <<>>
  ELSE IF a.ele = NoElement THEN <<Callback(OnRsp(a.cmd), a.n, 0, TRUE)>>
  ELSE IF a.rows = 0 THEN <<Callback(a.ele, a.n, 0, TRUE)>>
  ELSE [i \in 1 .. a.rows |-> Callback(a.ele, a.n, i, i = a.rows)]

\* Whatever messages came before, recvHandle makes exactly the callbacks a
\* message asks for, with that message's request id, element type and rows, the
\* last one marked, and is ready for the next message.
MessageDispatched ==
  [][tpc = "recv" /\ tpc' = "top" => log' = Callbacks(Head(rx)) /\ stateMachine' = "StatInit"]_vars

Closed == ~joinable \/ apc = "join" \/ terminated

\* A request that a Req function has accepted is handed to the TCP socket,
\* unless the client is closed.
RequestForwarded ==
  \A n \in 1 .. MaxCalls :
    (\E m \in inproc : m.n = n) ~> (Closed \/ ~ \E m \in inproc : m.n = n)

\* CloseAsyncApi returns, unless disconnecting from an address that was replaced
\* while connected terminates the client.
CloseReturns == apc = "join" ~> (apc # "join" \/ (terminated /\ moved))

\* IsConnected learns of a connection, unless it is lost or the client closed.
StatusCatchesUp == link ~> (m_bTcpConnected \/ ~link \/ Closed)
=============================================================================
