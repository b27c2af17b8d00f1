----------------------- MODULE DispatcherManagerProofs -----------------------
(***************************************************************************)
(* Theorems about DispatcherManager for every number of calls, links, rows  *)
(* and pushes: opening and closing the client terminates the program only   *)
(* after one of the two misuses that hasty and moved record, no assertion   *)
(* of recvHandle fails, a connected endpoint always has a polling thread,   *)
(* every message is dispatched to its callbacks, and keep-alives are        *)
(* answered with a whole identity.                                          *)
(***************************************************************************)
EXTENDS DispatcherManager, TLAPS, SequenceTheorems

\* Where the polling thread is between setting m_bPolling and leaving the loop.
Looping == {"top", "check", "poll", "recv"}

\* The flags, the two threads and the endpoint.
FlagInv ==
  /\ m_bInitConnect <=> endpoint # NoAddr
  /\ tpc \in Looping \cup {"begin", "exit"} => m_bInitConnect
  /\ tpc \in {"polled", "ended"} => ~m_bInitConnect
  /\ tpc = "none" /\ m_bInitConnect => apc \in {"start", "spawn"}
  /\ tpc \in {"none", "begin", "ended"} => ~m_bPolling
  /\ tpc \in Looping /\ ~m_bStop => m_bPolling
  /\ tpc \in {"exit", "polled", "ended"} => m_bStop
  /\ m_bStop /\ tpc # "none" => apc = "join"
  /\ apc \in {"start", "spawn"} => m_bInitConnect
  /\ apc = "spawn" => ~m_bStop
  /\ apc \in {"start", "spawn"} /\ tpc = "begin" => hasty
  /\ endpoint # NoAddr /\ endpoint # m_strAddr => moved

\* A server answers queries only with an element type.
WireInv ==
  \A i \in 1 .. Len(rx) :
    rx[i].pattern = "TPassiveResponse" /\ rx[i].ele # NoElement => rx[i].cmd = "TQuery"

\* The state of recvHandle says which frame it waits for.
RecvInv ==
  /\ tpc = "recv" => rx # <<>> /\ frame <= Len(Frames(Head(rx)))
  /\ frame = 1 <=> stateMachine = "StatInit"
  /\ frame = 2 <=> stateMachine = "StatGetPattern"
  /\ frame = 3 <=> stateMachine \in {"StatGetCmd", "StatGetRsp"}
  /\ frame = 3 => (stateMachine = "StatGetRsp" <=> msgPattern = "TPassiveResponse")
  /\ frame > 3 <=> stateMachine = "StatGetEleType"

\* What recvHandle has kept of the frames it has seen, and reported.
KeptInv ==
  frame > 1 =>
    /\ msgPattern = Head(rx).pattern
    /\ msgPattern = "TPassiveResponse" /\ frame > 2 => reqRsp = <<Head(rx).n, Head(rx).cmd>>
    /\ frame > 3 => recvEleType = Head(rx).ele
    /\ log = IF msgPattern = "TPassiveResponse" /\ frame > 3
             THEN [i \in 1 .. frame - 4 |-> Callback(Head(rx).ele, Head(rx).n, i, FALSE)]
             ELSE <<>>

\* Who has seen an identity of this client.
IdentityOut ==
  \/ known
  \/ \E m \in inproc \cup server : m.id \in Users
  \/ \E i \in 1 .. Len(rx) : rx[i].pattern = "TActivePush"

\* Nobody has before it is stored, the first time at least.
IdentInv ==
  /\ m_strIdentity = Torn => apc = "login"
  /\ apc = "login" => areq.id \in Users /\ areq.cmd # "TKeepAlive"
  /\ apc = "send" => areq.id = m_strIdentity /\ areq.cmd # "TKeepAlive"
  /\ IdentityOut => m_strIdentity \in Users \/ relogin

(* The inductive invariant.                                                  *)
IInv ==
  TypeOK /\ FlagInv /\ WireInv /\ RecvInv /\ KeptInv /\ IdentInv /\ SafeReopen
         /\ KeepAliveIdentified

-----------------------------------------------------------------------------
(* Messages                                                                 *)

(* The frames of a message, and how many there are.                          *)
LEMMA FramesOfMessage ==
  ASSUME NEW a \in Answers
  PROVE  /\ Len(Frames(a)) = (IF a.ele = NoElement THEN 2 ELSE 3 + a.rows)
         /\ Frames(a)[1] = [len |-> "int", val |-> a.pattern]
         /\ a.pattern = "TPassiveResponse" => Frames(a)[2] = [len |-> "rsp", val |-> <<a.n, a.cmd>>]
         /\ a.pattern = "TActivePush" => Frames(a)[2] = [len |-> "int", val |-> a.cmd]
         /\ a.ele # NoElement => Frames(a)[3] = [len |-> "int", val |-> a.ele]
         /\ a.ele # NoElement => \A i \in 4 .. 3 + a.rows : Frames(a)[i] = [len |-> "element", val |-> i - 3]
<1> DEFINE n == IF a.ele = NoElement THEN 2 ELSE 3 + a.rows
<1>1. a.rows \in Nat /\ n \in Nat /\ n >= 2 /\ (a.ele # NoElement => n = 3 + a.rows)
  BY RequestBounds DEF Answers
<1>2. DOMAIN Frames(a) = 1 .. n
  BY DEF Frames
<1>3. Len(Frames(a)) = n
  BY <1>1, <1>2 DEF Frames
<1>4. QED
  BY <1>1, <1>3 DEF Frames

-----------------------------------------------------------------------------
(* The flags                                                                *)

(* The steps of the application keep the flags, threads and endpoint in line.*)
LEMMA FlagsApp ==
  ASSUME TypeOK, FlagInv, App \/ InCall
  PROVE  FlagInv'
<1> USE ApiAddrs DEF FlagInv, TypeOK, ApiTypeOK, Looping, PollPc, AppPc
<1>1. ASSUME NEW a \in Addrs, SetRemoteAddr(a) PROVE FlagInv'
  BY <1>1 DEF SetRemoteAddr, Call, flagVars, sockVars
<1>2. CASE Connect
  BY <1>2 DEF Connect, Call
<1>3. CASE Stop
  BY <1>3 DEF Stop, Call, sockVars
<1>4. CASE Destroy
  BY <1>4 DEF Destroy, flagVars, sockVars
<1>5. ASSUME NEW id \in Users, ReqLogin(id) PROVE FlagInv'
  BY <1>5 DEF ReqLogin, Call, flagVars, sockVars
<1>6. ASSUME NEW cmd \in Requests, NEW ele \in Elements \cup {NoElement}, Req(cmd, ele)
      PROVE  FlagInv'
  BY <1>6 DEF Req, Call, flagVars, sockVars
<1>7. CASE Start
  BY <1>7 DEF Start, sockVars
<1>8. CASE Spawn
  BY <1>8 DEF Spawn, NewThread, flagVars, sockVars
<1>9. CASE Join
  BY <1>9 DEF Join, flagVars, sockVars
<1>10. CASE AssignIdentity
  BY <1>10 DEF AssignIdentity, flagVars, sockVars
<1>11. CASE Send
  BY <1>11 DEF Send, flagVars
<1>12. QED
  BY <1>1, <1>2, <1>3, <1>4, <1>5, <1>6, <1>7, <1>8, <1>9, <1>10, <1>11 DEF App, InCall

(* So do those of the polling thread, of the network and of the server.      *)
LEMMA FlagsOthers ==
  ASSUME TypeOK, FlagInv, PollFunc \/ Network \/ Server
  PROVE  FlagInv'
<1> USE ApiAddrs DEF FlagInv, TypeOK, ApiTypeOK, Looping, PollPc, AppPc
<1>1. CASE Begin
  BY <1>1 DEF Begin, PollGoto, sockVars
<1>2. CASE LoopTest
  BY <1>2 DEF LoopTest, PollGoto, flagVars, sockVars
<1>3. CASE CheckEvent
  BY <1>3 DEF CheckEvent, PollGoto
<1>4. CASE Poll
  BY <1>4 DEF Poll, PollGoto, flagVars
<1>5. CASE Exit
  BY <1>5 DEF Exit, PollGoto
<1>6. CASE ExitPolled
  BY <1>6 DEF ExitPolled, PollGoto, sockVars
<1>7. CASE RecvHandle
  <2>1. tpc = "recv" /\ tpc' \in {"top", "recv"}
        /\ UNCHANGED <<m_strAddr, flagVars, endpoint, apc, hasty, moved>>
    BY <1>7 DEF RecvHandle, GetPattern, GetRsp, GetPush, GetEleType, GetElement, Receive,
                NextFrame
  <2>2. QED
    BY <2>1 DEF flagVars
<1>8. CASE LinkUp \/ LinkDown
  BY <1>8 DEF LinkUp, LinkDown, flagVars
<1>9. CASE Server
  <2>1. UNCHANGED <<m_strAddr, flagVars, endpoint, joinable, tpc, apc, hasty, moved>>
    BY <1>9, Zenon DEF Server, Answer, Push, Deliver
  <2>2. QED
    BY <2>1 DEF flagVars
<1>10. QED
  BY <1>1, <1>2, <1>3, <1>4, <1>5, <1>6, <1>7, <1>8, <1>9 DEF PollFunc, PollStep, Network

-----------------------------------------------------------------------------
(* Types                                                                    *)

(* The steps of the application keep the types.                              *)
LEMMA TypesApp ==
  ASSUME TypeOK, App \/ InCall
  PROVE  TypeOK'
<1> USE ApiBounds, ApiAddrs, RequestBounds
        DEF TypeOK, ApiTypeOK, PollPc, AppPc, flagVars, sockVars, mgrVars, recvVars, envVars
<1>1. ASSUME NEW a \in Addrs, SetRemoteAddr(a), UNCHANGED mgrVars PROVE TypeOK'
  BY <1>1 DEF SetRemoteAddr, Call
<1>2. CASE Connect /\ UNCHANGED mgrVars
  <2>1. m_bInitConnect' \in BOOLEAN /\ hasty' \in BOOLEAN
    BY <1>2 DEF Connect
  <2>2. endpoint' \in Addrs \cup {NoAddr} /\ (endpoint # NoAddr => endpoint' # NoAddr)
    BY <1>2 DEF Connect
  <2>3. QED
    BY <1>2, <2>1, <2>2 DEF Connect, Call
<1>3. CASE Stop /\ UNCHANGED mgrVars
  BY <1>3 DEF Stop, Call
<1>4. CASE Destroy /\ UNCHANGED mgrVars
  BY <1>4 DEF Destroy
<1>5. ASSUME NEW id \in Users, ReqLogin(id) PROVE TypeOK'
  <2>1. areq' \in Msgs
    BY <1>5 DEF ReqLogin, Call, Msg, Msgs, ReqCmds
  <2>2. QED
    BY <1>5, <2>1 DEF ReqLogin, Call
<1>6. ASSUME NEW cmd \in Requests, NEW ele \in Elements \cup {NoElement}, Req(cmd, ele)
      PROVE  TypeOK'
  <2>1. areq' \in Msgs
    BY <1>6 DEF Req, Call, Msg, Msgs
  <2>2. QED
    BY <1>6, <2>1 DEF Req, Call
<1>7. CASE Start /\ UNCHANGED mgrVars
  <2>1. m_bStop' \in BOOLEAN /\ apc' \in AppPc
    BY <1>7 DEF Start
  <2>2. QED
    BY <1>7, <2>1 DEF Start
<1>8. CASE Spawn /\ UNCHANGED mgrVars
  <2>1. joinable' \in BOOLEAN /\ terminated' \in BOOLEAN /\ apc' \in AppPc
    BY <1>8 DEF Spawn, NewThread
  <2>2. tpc' \in PollPc /\ (joinable' <=> tpc' # "none") /\ (tpc = "recv" => tpc' = "recv")
    BY <1>8 DEF Spawn, NewThread
  <2>3. QED
    BY <1>8, <2>1, <2>2 DEF Spawn
<1>9. CASE Join /\ UNCHANGED mgrVars
  BY <1>9, ZenonT(60) DEF Join
<1>10. CASE AssignIdentity
  BY <1>10 DEF AssignIdentity, Msgs
<1>11. CASE Send
  BY <1>11 DEF Send
<1>12. QED
  BY <1>1, <1>2, <1>3, <1>4, <1>5, <1>6, <1>7, <1>8, <1>9, <1>10, <1>11 DEF App, InCall

(* So do the steps of the polling thread outside recvHandle and the network. *)
LEMMA TypesPoll ==
  ASSUME TypeOK, PollStep \/ LinkUp \/ LinkDown, Forget,
         UNCHANGED <<m_strIdentity, areq, recvVars, pushes, relogin>>
  PROVE  TypeOK'
<1> USE ApiBounds, ApiAddrs, RequestBounds
        DEF TypeOK, ApiTypeOK, PollPc, AppPc, flagVars, sockVars, recvVars, Forget
<1>1. CASE Begin
  BY <1>1 DEF Begin, PollGoto
<1>2. CASE LoopTest
  BY <1>2 DEF LoopTest, PollGoto
<1>3. CASE CheckEvent
  <2>1. m_bTcpConnected' \in BOOLEAN
    BY <1>3 DEF CheckEvent
  <2>2. events' \in Seq({"connected", "disconnected"})
    BY <1>3 DEF CheckEvent
  <2>3. QED
    BY <1>3, <2>1, <2>2 DEF CheckEvent, PollGoto
<1>4. CASE Poll
  BY <1>4 DEF Poll, Forward, PollGoto
<1>5. CASE Exit
  <2>1. m_bInitConnect' \in BOOLEAN /\ terminated' \in BOOLEAN /\ ~link' /\ link' \in BOOLEAN
    BY <1>5 DEF Exit
  <2>2. events' \in Seq({"connected", "disconnected"})
    <3>1. events' \in {events, Append(events, "disconnected")}
      BY <1>5 DEF Exit
    <3>2. Append(events, "disconnected") \in Seq({"connected", "disconnected"})
      OBVIOUS
    <3>3. QED
      BY <3>1, <3>2
  <2>3. rx' \in Seq(Answers) /\ server' \subseteq Msgs /\ endpoint' = NoAddr
    <3>1. rx' \in {rx, <<>>} /\ server' = {} /\ endpoint' = NoAddr
      BY <1>5 DEF Exit
    <3>2. <<>> \in Seq(Answers) /\ rx \in Seq(Answers)
      OBVIOUS
    <3>3. QED
      BY <3>1, <3>2
  <2>4. frame' = 1
    BY <1>5 DEF Exit, PollGoto
  <2>5. known' \in BOOLEAN /\ tpc' = "polled"
    BY <1>5 DEF Exit, PollGoto
  <2>6. UNCHANGED <<m_strAddr, m_bStop, m_bPolling, m_bTcpConnected, joinable, apc, calls,
                    links, inproc, hasty, moved>>
    BY <1>5 DEF Exit
  <2>7. ApiTypeOK'
    BY <2>1, <2>2, <2>3, <2>5, <2>6, <1>5 DEF PollGoto, Exit
  <2>8. QED
    BY <2>3, <2>4, <2>5, <2>6, <2>7
<1>6. CASE ExitPolled
  BY <1>6, ZenonT(60) DEF ExitPolled, PollGoto
<1>7. CASE LinkUp
  BY <1>7 DEF LinkUp
<1>8. CASE LinkDown
  <2>1. link' \in BOOLEAN /\ ~link' /\ server' \subseteq Msgs
    BY <1>8 DEF LinkDown
  <2>2. events' \in Seq({"connected", "disconnected"})
    BY <1>8 DEF LinkDown
  <2>3. QED
    BY <1>8, <2>1, <2>2 DEF LinkDown
<1>9. QED
  BY <1>1, <1>2, <1>3, <1>4, <1>5, <1>6, <1>7, <1>8 DEF PollStep

(* What the server delivers is a message of the protocol.                    *)
LEMMA Delivered ==
  ASSUME TypeOK, WireInv, Server
  PROVE  \E a \in Answers :
           /\ rx' = Append(rx, a)
           /\ a.pattern = "TPassiveResponse" /\ a.ele # NoElement => a.cmd = "TQuery"
           /\ a.pattern = "TActivePush" => known
<1> USE ApiBounds, RequestBounds
<1>1. ASSUME NEW m \in server, Answer(m)
      PROVE  \E a \in Answers : /\ rx' = Append(rx, a)
                                /\ a.pattern = "TPassiveResponse"
                                /\ a.ele # NoElement => a.cmd = "TQuery"
  <2>1. PICK ele \in {NoElement, m.ele}, rows \in 0 .. MaxRows :
             /\ ele # NoElement => m.cmd = "TQuery"
             /\ rx' = Append(rx, [pattern |-> "TPassiveResponse", n |-> m.n, cmd |-> m.cmd,
                                  ele |-> ele, rows |-> rows])
    BY <1>1, Zenon DEF Answer, Deliver
  <2>2. m \in Msgs
    BY DEF TypeOK
  <2>3. [pattern |-> "TPassiveResponse", n |-> m.n, cmd |-> m.cmd, ele |-> ele,
         rows |-> rows] \in Answers
    BY <2>2 DEF Msgs, Answers
  <2>4. QED
    BY <2>1, <2>3
<1>2. ASSUME Push
      PROVE  known /\ \E a \in Answers : rx' = Append(rx, a) /\ a.pattern = "TActivePush"
  <2>1. PICK ele \in Elements \cup {NoElement}, rows \in 0 .. MaxRows :
             rx' = Append(rx, [pattern |-> "TActivePush", n |-> MaxCalls + pushes',
                               cmd |-> "TKeepAlive", ele |-> ele, rows |-> rows])
    BY <1>2, Zenon DEF Push, Deliver
  <2>2. known /\ MaxCalls + pushes' \in 0 .. MaxCalls + MaxPushes
    BY <1>2 DEF Push, TypeOK
  <2>3. [pattern |-> "TActivePush", n |-> MaxCalls + pushes', cmd |-> "TKeepAlive",
         ele |-> ele, rows |-> rows] \in Answers
    BY <2>2 DEF Answers
  <2>4. QED
    BY <2>1, <2>2, <2>3
<1>3. QED
  BY <1>1, <1>2, Zenon DEF Server

(* The server keeps the types.                                               *)
LEMMA TypesServer ==
  ASSUME TypeOK, WireInv, Server
  PROVE  TypeOK'
<1>1. rx' \in Seq(Answers) /\ (rx # <<>> => rx' # <<>>)
  BY Delivered DEF TypeOK
<1>2. server' \subseteq server
      /\ UNCHANGED <<m_strAddr, flagVars, endpoint, link, links, events, inproc, joinable,
                     tpc, apc, calls, terminated, hasty, moved, m_strIdentity, areq, recvVars,
                     relogin>>
  BY Zenon DEF Server, Answer, Push, Deliver
<1>3. known' \in BOOLEAN
  BY DEF Server, Answer, Push, TypeOK
<1>4. pushes' \in 0 .. MaxPushes
  BY RequestBounds DEF Server, Answer, Push, TypeOK
<1>5. QED
  BY <1>1, <1>2, <1>3, <1>4 DEF TypeOK, ApiTypeOK, flagVars, recvVars

-----------------------------------------------------------------------------
(* recvHandle                                                               *)

(* The frame that recvHandle is called with, and the message it belongs to.  *)
LEMMA ExpectedFrame ==
  ASSUME TypeOK, RecvInv, tpc = "recv"
  PROVE  /\ Head(rx) \in Answers /\ Tail(rx) \in Seq(Answers) /\ rx # <<>>
         /\ frame \in 1 .. Len(Frames(Head(rx)))
         /\ Len(Frames(Head(rx))) = (IF Head(rx).ele = NoElement THEN 2 ELSE 3 + Head(rx).rows)
         /\ Head(rx).rows \in 0 .. MaxRows
         /\ frame = 1 => Frame = [len |-> "int", val |-> Head(rx).pattern]
         /\ frame = 2 /\ Head(rx).pattern = "TPassiveResponse" =>
              Frame = [len |-> "rsp", val |-> <<Head(rx).n, Head(rx).cmd>>]
         /\ frame = 2 /\ Head(rx).pattern = "TActivePush" =>
              Frame = [len |-> "int", val |-> Head(rx).cmd]
         /\ frame > 2 => Head(rx).ele # NoElement
         /\ frame = 3 => Frame = [len |-> "int", val |-> Head(rx).ele]
         /\ frame > 3 => Frame = [len |-> "element", val |-> frame - 3]
<1>1. rx # <<>> /\ rx \in Seq(Answers) /\ frame \in 1 .. 3 + MaxRows
      /\ frame <= Len(Frames(Head(rx)))
  BY DEF RecvInv, TypeOK
<1>2. Head(rx) \in Answers /\ Tail(rx) \in Seq(Answers)
  BY <1>1
<1>3. Head(rx).rows \in 0 .. MaxRows
  BY <1>2 DEF Answers
<1>4. /\ Len(Frames(Head(rx))) = (IF Head(rx).ele = NoElement THEN 2 ELSE 3 + Head(rx).rows)
      /\ Frames(Head(rx))[1] = [len |-> "int", val |-> Head(rx).pattern]
      /\ Head(rx).pattern = "TPassiveResponse" =>
           Frames(Head(rx))[2] = [len |-> "rsp", val |-> <<Head(rx).n, Head(rx).cmd>>]
      /\ Head(rx).pattern = "TActivePush" =>
           Frames(Head(rx))[2] = [len |-> "int", val |-> Head(rx).cmd]
      /\ Head(rx).ele # NoElement => Frames(Head(rx))[3] = [len |-> "int", val |-> Head(rx).ele]
      /\ Head(rx).ele # NoElement =>
           \A i \in 4 .. 3 + Head(rx).rows :
             Frames(Head(rx))[i] = [len |-> "element", val |-> i - 3]
  BY <1>2, FramesOfMessage, Zenon
<1>5. frame \in 1 .. Len(Frames(Head(rx)))
  BY <1>1, <1>3, <1>4, RequestBounds
<1>6. frame > 2 => Head(rx).ele # NoElement
  <2> SUFFICES ASSUME Head(rx).ele = NoElement PROVE ~(frame > 2)
    OBVIOUS
  <2>1. frame <= 2
    BY <1>1, <1>4, Zenon
  <2>2. frame \in Nat
    BY <1>1, RequestBounds
  <2>3. QED
    BY <2>1, <2>2
<1>7. frame > 3 => frame \in 4 .. 3 + Head(rx).rows
  BY <1>1, <1>3, <1>4, <1>6, RequestBounds
<1>8. frame > 3 => Frame = [len |-> "element", val |-> frame - 3]
  BY <1>4, <1>6, <1>7 DEF Frame
<1>9. QED
  BY <1>1, <1>2, <1>3, <1>4, <1>5, <1>6, <1>8 DEF Frame

(* The message is done with its last frame.                                  *)
LEMMA FrameAdvances ==
  ASSUME TypeOK, RecvInv, tpc = "recv", NextFrame
  PROVE  \/ bLast /\ frame' = 1 /\ tpc' = "top" /\ rx' = Tail(rx)
         \/ ~bLast /\ frame' = frame + 1 /\ frame' <= Len(Frames(Head(rx))) /\ tpc' = "recv"
            /\ rx' = rx
<1>1. frame \in 1 .. Len(Frames(Head(rx)))
  BY ExpectedFrame
<1>2. CASE bLast
  BY <1>2 DEF NextFrame
<1>3. CASE ~bLast
  <2>1. frame' = frame + 1 /\ tpc' = "recv" /\ rx' = rx
    BY <1>3 DEF NextFrame
  <2>2. frame # Len(Frames(Head(rx)))
    BY <1>3 DEF bLast
  <2>3. QED
    BY <1>1, <1>3, <2>1, <2>2
<1>4. QED
  BY <1>2, <1>3

(* Every step of recvHandle handles one frame, whose size is as asserted.    *)
LEMMA RecvAsserts ==
  ASSUME TypeOK, RecvInv, KeptInv, RecvHandle
  PROVE  tpc = "recv" /\ NextFrame /\ terminated' = FALSE
<1>1. tpc = "recv" /\ NextFrame
  BY DEF RecvHandle, GetPattern, GetRsp, GetPush, GetEleType, GetElement, Receive
<1>2. CASE GetPattern
  <2>1. Frame.len = "int"
    BY <1>1, <1>2, ExpectedFrame DEF GetPattern, Receive, RecvInv
  <2>2. QED
    BY <1>1, <1>2, <2>1 DEF GetPattern, Receive
<1>3. CASE GetRsp
  <2>1. frame = 2 /\ Head(rx).pattern = "TPassiveResponse"
    BY <1>3 DEF GetRsp, Receive, RecvInv, KeptInv
  <2>2. Frame.len = "rsp"
    BY <1>1, <2>1, ExpectedFrame
  <2>3. QED
    BY <1>1, <1>3, <2>2 DEF GetRsp, Receive
<1>4. CASE GetPush
  <2>1. frame = 2 /\ Head(rx).pattern = "TActivePush"
    BY <1>4 DEF GetPush, Receive, RecvInv, KeptInv
  <2>2. Frame.len = "int"
    BY <1>1, <2>1, ExpectedFrame
  <2>3. QED
    BY <1>1, <1>4, <2>2 DEF GetPush, Receive
<1>5. CASE GetEleType
  <2>1. frame = 3
    BY <1>5 DEF GetEleType, Receive, RecvInv
  <2>2. Frame.len = "int"
    BY <1>1, <2>1, ExpectedFrame
  <2>3. QED
    BY <1>1, <1>5, <2>2 DEF GetEleType, Receive
<1>6. CASE GetElement
  BY <1>1, <1>6 DEF GetElement, Receive
<1>7. QED
  BY <1>2, <1>3, <1>4, <1>5, <1>6 DEF RecvHandle

(* recvHandle keeps the types.                                               *)
LEMMA RecvTypes ==
  ASSUME TypeOK, RecvInv, KeptInv, RecvHandle
  PROVE  TypeOK'
<1>1. tpc = "recv" /\ NextFrame /\ terminated' = FALSE
  BY RecvAsserts
<1>2. /\ frame' \in 1 .. 3 + MaxRows /\ tpc' \in PollPc
      /\ frame' > 1 => tpc' = "recv" /\ rx' # <<>>
      /\ rx' \in Seq(Answers) /\ tpc' # "none"
  <2>1. /\ Tail(rx) \in Seq(Answers) /\ rx # <<>> /\ Head(rx).rows \in 0 .. MaxRows
        /\ Len(Frames(Head(rx))) = (IF Head(rx).ele = NoElement THEN 2 ELSE 3 + Head(rx).rows)
    BY <1>1, ExpectedFrame, Zenon
  <2>2. Len(Frames(Head(rx))) \in Nat /\ Len(Frames(Head(rx))) <= 3 + MaxRows
    <3>1. Len(Frames(Head(rx))) = 2 \/ Len(Frames(Head(rx))) = 3 + Head(rx).rows
      BY <2>1, Zenon
    <3>2. MaxRows \in Nat /\ Head(rx).rows \in 0 .. MaxRows
      BY <2>1, RequestBounds
    <3>3. \A k \in Nat : \A i \in 0 .. k : 2 \in Nat /\ 2 <= 3 + k /\ 3 + i \in Nat /\ 3 + i <= 3 + k
      OBVIOUS
    <3>4. QED
      BY <3>1, <3>2, <3>3, Zenon
  <2>3. CASE bLast
    BY <1>1, <2>1, <2>3, FrameAdvances, RequestBounds DEF PollPc
  <2>4. CASE ~bLast
    <3>1. frame' = frame + 1 /\ frame' <= Len(Frames(Head(rx))) /\ tpc' = "recv" /\ rx' = rx
      BY <1>1, <2>4, FrameAdvances
    <3>2. frame' \in 1 .. 3 + MaxRows
      BY <2>2, <3>1, RequestBounds DEF TypeOK
    <3>3. QED
      BY <2>1, <3>1, <3>2 DEF PollPc, TypeOK
  <2>5. QED
    BY <2>3, <2>4
<1>3. inproc' \subseteq Msgs
  <2>1. CASE GetPush /\ inproc' # inproc
    <3>1. inproc' = inproc \cup {Msg(Head(rx).n, "TKeepAlive", m_strIdentity, NoElement)}
      BY <2>1 DEF GetPush
    <3>2. Head(rx).n \in 0 .. MaxCalls + MaxPushes
      BY <1>1, ExpectedFrame DEF Answers
    <3>3. Msg(Head(rx).n, "TKeepAlive", m_strIdentity, NoElement) \in Msgs
      BY <3>2 DEF TypeOK, Msg, Msgs
    <3>4. QED
      BY <3>1, <3>3 DEF TypeOK
  <2>2. QED
    BY <2>1 DEF RecvHandle, GetPattern, GetRsp, GetEleType, GetElement, TypeOK
<1>4. stateMachine' \in {"StatInit", "StatGetPattern", "StatGetCmd", "StatGetRsp", "StatGetEleType"}
  BY DEF RecvHandle, GetPattern, GetRsp, GetPush, GetEleType, GetElement, TypeOK
<1>5. msgPattern' \in {"TPassiveResponse", "TActivePush"}
  <2>1. CASE GetPattern
    <3>1. msgPattern' = Frame.val /\ frame = 1
      BY <2>1 DEF GetPattern, Receive, RecvInv
    <3>2. msgPattern' = Head(rx).pattern
      BY <1>1, <3>1, ExpectedFrame
    <3>3. QED
      BY <1>1, <3>2, ExpectedFrame DEF Answers
  <2>2. QED
    BY <2>1 DEF RecvHandle, GetRsp, GetPush, GetEleType, GetElement, TypeOK
<1>6. recvEleType' \in Elements \cup {NoElement}
  <2>1. CASE GetEleType
    <3>1. recvEleType' = Frame.val /\ frame = 3
      BY <2>1 DEF GetEleType, Receive, RecvInv
    <3>2. recvEleType' = Head(rx).ele
      BY <1>1, <3>1, ExpectedFrame
    <3>3. QED
      BY <1>1, <3>2, ExpectedFrame DEF Answers
  <2>2. QED
    BY <2>1 DEF RecvHandle, GetPattern, GetRsp, GetPush, GetElement, TypeOK
<1>7. UNCHANGED <<m_strAddr, flagVars, endpoint, link, links, events, server, joinable,
                  apc, calls, hasty, moved, m_strIdentity, areq, envVars, relogin>>
  BY <1>1, Zenon DEF NextFrame
<1>8. ApiTypeOK'
  BY <1>1, <1>2, <1>7 DEF TypeOK, ApiTypeOK, flagVars
<1>9. QED
  BY <1>2, <1>3, <1>4, <1>5, <1>6, <1>7, <1>8 DEF TypeOK, envVars

(* recvHandle waits for the frame that comes next.                           *)
LEMMA RecvPosition ==
  ASSUME TypeOK, RecvInv, KeptInv, RecvHandle
  PROVE  RecvInv'
<1>1. tpc = "recv" /\ NextFrame
  BY RecvAsserts
<1>2. CASE bLast
  <2>1. frame' = 1 /\ tpc' = "top"
    BY <1>1, <1>2, FrameAdvances
  <2>2. stateMachine' = "StatInit"
    BY <1>2 DEF RecvHandle, GetPattern, GetRsp, GetPush, GetEleType, GetElement
  <2>3. QED
    BY <2>1, <2>2 DEF RecvInv
<1>3. CASE ~bLast
  <2>1. frame' = frame + 1 /\ frame' <= Len(Frames(Head(rx))) /\ rx' = rx /\ rx # <<>>
        /\ frame \in Nat \ {0}
    BY <1>1, <1>3, FrameAdvances, ExpectedFrame DEF TypeOK
  <2>2. CASE frame = 1
    BY <1>3, <2>1, <2>2 DEF RecvHandle, GetPattern, GetRsp, GetPush, GetEleType, GetElement,
                            Receive, RecvInv
  <2>3. CASE frame = 2
    BY <1>3, <2>1, <2>3 DEF RecvHandle, GetPattern, GetRsp, GetPush, GetEleType, GetElement,
                            Receive, RecvInv
  <2>4. CASE frame > 2
    BY <1>3, <2>1, <2>4 DEF RecvHandle, GetPattern, GetRsp, GetPush, GetEleType, GetElement,
                            Receive, RecvInv
  <2>5. QED
    BY <2>1, <2>2, <2>3, <2>4
<1>4. QED
  BY <1>2, <1>3

(* Appending to a sequence by concatenation.                                 *)
LEMMA ConcatOne ==
  ASSUME NEW S, NEW s \in Seq(S), NEW x \in S
  PROVE  s \o <<x>> = [i \in 1 .. Len(s) + 1 |-> IF i = Len(s) + 1 THEN x ELSE s[i]]
<1>1. <<x>> \in Seq(S) /\ Len(<<x>>) = 1 /\ <<x>>[1] = x /\ Len(s) \in Nat
  OBVIOUS
<1>2. /\ s \o <<x>> \in Seq(S)
      /\ Len(s \o <<x>>) = Len(s) + 1
      /\ \A i \in 1 .. Len(s) + 1 : (s \o <<x>>)[i] = IF i <= Len(s) THEN s[i] ELSE <<x>>[i - Len(s)]
  BY <1>1, ConcatProperties
<1>3. \A i \in 1 .. Len(s) + 1 : (s \o <<x>>)[i] = IF i = Len(s) + 1 THEN x ELSE s[i]
  BY <1>1, <1>2
<1>4. QED
  BY <1>2, <1>3

(* One more row of a message is reported.                                    *)
LEMMA LogExtends ==
  ASSUME NEW k \in Nat, NEW S, NEW s \in [1 .. k -> S], NEW x
  PROVE  s \o <<x>> = [i \in 1 .. k + 1 |-> IF i = k + 1 THEN x ELSE s[i]]
<1>1. s \in Seq(S \cup {x}) /\ Len(s) = k /\ x \in S \cup {x}
  OBVIOUS
<1>2. QED
  BY <1>1, ConcatOne

(* After the last frame, recvHandle has made the callbacks of the message.   *)
LEMMA RecvDispatches ==
  ASSUME TypeOK, WireInv, RecvInv, KeptInv, RecvHandle, bLast
  PROVE  log' = Callbacks(Head(rx))
<1> DEFINE a == Head(rx)
<1>1. tpc = "recv"
  BY RecvAsserts
<1>2. /\ a \in Answers /\ rx # <<>> /\ rx \in Seq(Answers)
      /\ frame = Len(Frames(a))
      /\ Len(Frames(a)) = (IF a.ele = NoElement THEN 2 ELSE 3 + a.rows)
      /\ a.rows \in Nat /\ a.pattern \in {"TPassiveResponse", "TActivePush"}
  BY <1>1, ExpectedFrame, RequestBounds, SMTT(40) DEF bLast, Answers, TypeOK
<1>3. a.pattern = "TPassiveResponse" /\ a.ele # NoElement => a.cmd = "TQuery"
  BY <1>2 DEF WireInv
<1>4. CASE a.ele = NoElement
  <2>1. frame = 2
    BY <1>2, <1>4, Zenon
  <2>2. log = <<>> /\ msgPattern = a.pattern
    BY <2>1 DEF KeptInv
  <2>3. CASE GetRsp
    <3>1. Frame.val = <<a.n, a.cmd>> /\ a.pattern = "TPassiveResponse"
      BY <1>1, <2>1, <2>2, <2>3, ExpectedFrame DEF GetRsp
    <3>2. Frame.val[1] = a.n /\ Frame.val[2] = a.cmd
      BY <3>1
    <3>3. log' = Append(<<>>, Callback(OnRsp(a.cmd), a.n, 0, TRUE))
      BY <2>2, <2>3, <3>2, Zenon DEF GetRsp
    <3>4. \A x : Append(<<>>, x) = <<x>>
      OBVIOUS
    <3>5. Callbacks(a) = <<Callback(OnRsp(a.cmd), a.n, 0, TRUE)>>
      BY <1>4, <3>1, Zenon DEF Callbacks
    <3>6. QED
      BY <3>3, <3>4, <3>5, Zenon
  <2>4. CASE GetPush
    BY <2>2, <2>4 DEF GetPush, Callbacks
  <2>5. QED
    BY <2>1, <2>3, <2>4 DEF RecvHandle, GetPattern, GetEleType, GetElement, Receive, RecvInv
<1>5. CASE a.ele # NoElement /\ a.rows = 0
  <2>1. frame = 3
    <3>1. frame = 3 + 0
      BY <1>2, <1>5, Zenon
    <3>2. QED
      BY <3>1
  <2>2. log = <<>> /\ msgPattern = a.pattern
        /\ (a.pattern = "TPassiveResponse" => reqRsp = <<a.n, a.cmd>>)
    BY <2>1 DEF KeptInv
  <2>3. GetEleType
    BY <2>1 DEF RecvHandle, GetPattern, GetRsp, GetPush, GetElement, Receive, RecvInv
  <2>4. Frame.val = a.ele
    BY <1>1, <2>1, ExpectedFrame
  <2>5. CASE a.pattern = "TPassiveResponse"
    <3>1. log' = log \o OnReqRspElement(reqRsp, a.ele, 0)
      BY <2>1, <2>2, <2>3, <2>4, <2>5 DEF GetEleType, RecvInv
    <3>2. reqRsp[1] = a.n /\ reqRsp[2] = "TQuery"
      BY <1>3, <1>5, <2>2, <2>5
    <3>3. bLast = TRUE
      BY DEF bLast
    <3>4. OnReqRspElement(reqRsp, a.ele, 0) = <<Callback(a.ele, a.n, 0, TRUE)>>
      BY <3>2, <3>3, Zenon DEF OnReqRspElement
    <3>5. Callbacks(a) = <<Callback(a.ele, a.n, 0, TRUE)>>
      BY <1>5, <2>5, Zenon DEF Callbacks
    <3>6. \A x : <<>> \o <<x>> = <<x>>
      OBVIOUS
    <3>7. QED
      BY <2>2, <3>1, <3>4, <3>5, <3>6, Zenon
  <2>6. CASE a.pattern = "TActivePush"
    BY <2>1, <2>2, <2>3, <2>6 DEF GetEleType, RecvInv, Callbacks
  <2>7. QED
    BY <1>2, <2>5, <2>6
<1>6. CASE a.ele # NoElement /\ a.rows # 0
  <2>1. frame > 3 /\ frame = 3 + a.rows
    BY <1>2, <1>6
  <2>2. GetElement
    BY <2>1 DEF RecvHandle, GetPattern, GetRsp, GetPush, GetEleType, Receive, RecvInv
  <2>3. msgPattern = a.pattern /\ recvEleType = a.ele
        /\ (a.pattern = "TPassiveResponse" => reqRsp = <<a.n, a.cmd>>)
        /\ log = IF msgPattern = "TPassiveResponse"
                 THEN [i \in 1 .. frame - 4 |-> Callback(a.ele, a.n, i, FALSE)] ELSE <<>>
    <3>1. frame > 1 /\ frame > 2 /\ frame > 3
      BY <1>2, <2>1
    <3>2. QED
      BY <3>1, Zenon DEF KeptInv
  <2>4. CASE a.pattern = "TPassiveResponse"
    <3>1. log = [i \in 1 .. frame - 4 |-> Callback(a.ele, a.n, i, FALSE)]
      BY <2>3, <2>4, Zenon
    <3>2. frame - 4 = a.rows - 1 /\ frame - 3 = (a.rows - 1) + 1 /\ a.rows - 1 \in Nat
      BY <1>2, <1>6, <2>1
    <3>3. Frame.val = (a.rows - 1) + 1
      BY <1>1, <2>1, <3>2, ExpectedFrame
    <3>4. bLast = TRUE
      BY DEF bLast
    <3>5. reqRsp[1] = a.n /\ reqRsp[2] = "TQuery"
      BY <1>3, <1>6, <2>3, <2>4
    <3>6. log' = [i \in 1 .. a.rows - 1 |-> Callback(a.ele, a.n, i, FALSE)]
                   \o <<Callback(a.ele, a.n, (a.rows - 1) + 1, TRUE)>>
      BY <2>2, <2>3, <2>4, <3>1, <3>2, <3>3, <3>4, <3>5, Zenon DEF GetElement, OnReqRspElement
    <3>7. log' = [i \in 1 .. (a.rows - 1) + 1 |->
                   IF i = (a.rows - 1) + 1 THEN Callback(a.ele, a.n, (a.rows - 1) + 1, TRUE)
                                           ELSE Callback(a.ele, a.n, i, FALSE)]
      <4> DEFINE k == a.rows - 1
                 x == Callback(a.ele, a.n, (a.rows - 1) + 1, TRUE)
                 t == [i \in 1 .. k |-> Callback(a.ele, a.n, i, FALSE)]
                 S == {t[i] : i \in 1 .. k}
      <4>1. k \in Nat
        BY <3>2
      <4>2. t \in [1 .. k -> S] /\ log' = t \o <<x>>
        BY <3>6, Zenon
      <4>3. \A i \in 1 .. k : t[i] = Callback(a.ele, a.n, i, FALSE)
        BY Zenon
      <4> HIDE DEF k, x, t, S
      <4>4. t \o <<x>> = [i \in 1 .. k + 1 |-> IF i = k + 1 THEN x ELSE t[i]]
        BY <4>1, <4>2, LogExtends
      <4>5. \A i \in 1 .. k + 1 : i # k + 1 => i \in 1 .. k
        BY <4>1
      <4>6. [i \in 1 .. k + 1 |-> IF i = k + 1 THEN x ELSE t[i]]
              = [i \in 1 .. k + 1 |-> IF i = k + 1 THEN x ELSE Callback(a.ele, a.n, i, FALSE)]
        BY <4>3, <4>5, Zenon
      <4>7. QED
        BY <4>2, <4>4, <4>6, Zenon DEF k, x
    <3>8. (a.rows - 1) + 1 = a.rows
      BY <1>2
    <3>9. \A i \in 1 .. a.rows :
            (IF i = a.rows THEN Callback(a.ele, a.n, a.rows, TRUE) ELSE Callback(a.ele, a.n, i, FALSE))
              = Callback(a.ele, a.n, i, i = a.rows)
      <4>1. \A i : (i = a.rows) = TRUE \/ (i = a.rows) = FALSE
        OBVIOUS
      <4>2. QED
        BY <4>1, Zenon
    <3>10. log' = [i \in 1 .. a.rows |-> Callback(a.ele, a.n, i, i = a.rows)]
      BY <3>7, <3>8, <3>9, Zenon
    <3>11. QED
      BY <1>6, <2>4, <3>10, Zenon DEF Callbacks
  <2>5. CASE a.pattern = "TActivePush"
    BY <2>2, <2>3, <2>5, Zenon DEF GetElement, Callbacks
  <2>6. QED
    BY <1>2, <2>4, <2>5
<1>7. QED
  BY <1>4, <1>5, <1>6

(* A row that is not the last one is added to the log.                       *)
LEMMA RowLogged ==
  ASSUME TypeOK, WireInv, RecvInv, KeptInv, GetElement, ~bLast, tpc = "recv",
         Head(rx).pattern = "TPassiveResponse"
  PROVE  log' = [i \in 1 .. frame - 3 |-> Callback(Head(rx).ele, Head(rx).n, i, FALSE)]
<1> DEFINE a == Head(rx)
           k == frame - 4
           x == Callback(a.ele, a.n, frame - 3, FALSE)
           t == [i \in 1 .. k |-> Callback(a.ele, a.n, i, FALSE)]
           S == {t[i] : i \in 1 .. k}
<1>1. frame > 3 /\ frame > 2 /\ frame > 1 /\ frame \in Nat /\ k \in Nat /\ frame - 3 = k + 1
  BY RequestBounds DEF GetElement, Receive, RecvInv, TypeOK
<1>2. Frame.val = frame - 3 /\ a.ele # NoElement /\ rx # <<>> /\ rx \in Seq(Answers)
  BY <1>1, ExpectedFrame DEF TypeOK
<1>3. a.cmd = "TQuery"
  BY <1>2 DEF WireInv
<1>4. msgPattern = a.pattern /\ recvEleType = a.ele /\ reqRsp = <<a.n, a.cmd>> /\ log = t
  BY <1>1, Zenon DEF KeptInv
<1>5. reqRsp[1] = a.n /\ reqRsp[2] = "TQuery" /\ bLast = FALSE
  BY <1>3, <1>4 DEF bLast
<1>6. log' = t \o <<x>>
  BY <1>2, <1>4, <1>5, Zenon DEF GetElement, OnReqRspElement
<1>7. t \in [1 .. k -> S] /\ \A i \in 1 .. k : t[i] = Callback(a.ele, a.n, i, FALSE)
  BY Zenon
<1> HIDE DEF k, x, t, S
<1>8. t \o <<x>> = [i \in 1 .. k + 1 |-> IF i = k + 1 THEN x ELSE t[i]]
  BY <1>1, <1>7, LogExtends
<1>9. \A i \in 1 .. k + 1 : i # k + 1 => i \in 1 .. k
  BY <1>1
<1>10. [i \in 1 .. k + 1 |-> IF i = k + 1 THEN x ELSE t[i]]
         = [i \in 1 .. k + 1 |-> Callback(a.ele, a.n, i, FALSE)]
  BY <1>1, <1>7, <1>9, Zenon DEF x
<1>11. QED
  BY <1>1, <1>6, <1>8, <1>10, Zenon

(* recvHandle keeps what the frames of the message told it.                  *)
LEMMA RecvKept ==
  ASSUME TypeOK, WireInv, RecvInv, KeptInv, RecvHandle
  PROVE  KeptInv'
<1> DEFINE a == Head(rx)
<1>1. tpc = "recv" /\ NextFrame
  BY RecvAsserts
<1>2. CASE bLast
  <2>1. ~(frame' > 1)
    BY <1>1, <1>2, FrameAdvances
  <2>2. QED
    BY <2>1, Zenon DEF KeptInv
<1>3. CASE ~bLast
  <2>1. frame' = frame + 1 /\ rx' = rx /\ frame \in Nat
    BY <1>1, <1>3, FrameAdvances, RequestBounds DEF TypeOK
  <2>2. CASE GetPattern
    <3>1. frame = 1 /\ ~(frame' > 2) /\ ~(frame' > 3)
      BY <2>1, <2>2 DEF GetPattern, Receive, RecvInv
    <3>2. msgPattern' = a.pattern /\ log' = <<>>
      BY <1>1, <2>2, <3>1, ExpectedFrame DEF GetPattern
    <3>3. QED
      BY <2>1, <3>1, <3>2, Zenon DEF KeptInv
  <2>3. CASE GetRsp
    <3>1. frame = 2 /\ frame > 1 /\ ~(frame > 3) /\ ~(frame' > 3)
      BY <2>1, <2>3 DEF GetRsp, Receive, RecvInv
    <3>2. msgPattern = a.pattern /\ log = <<>>
      BY <3>1, Zenon DEF KeptInv
    <3>3. reqRsp' = <<a.n, a.cmd>>
      BY <1>1, <2>3, <3>1, <3>2, ExpectedFrame DEF GetRsp
    <3>4. msgPattern' = a.pattern /\ log' = <<>>
      BY <1>3, <2>3, <3>2, Zenon DEF GetRsp
    <3>5. QED
      BY <2>1, <3>1, <3>3, <3>4, Zenon DEF KeptInv
  <2>4. CASE GetPush
    <3>1. frame = 2 /\ frame > 1 /\ ~(frame > 3) /\ ~(frame' > 3)
      BY <2>1, <2>4 DEF GetPush, Receive, RecvInv
    <3>2. msgPattern = a.pattern /\ log = <<>>
      BY <3>1, Zenon DEF KeptInv
    <3>3. msgPattern' = a.pattern /\ log' = <<>> /\ msgPattern' # "TPassiveResponse"
      BY <2>4, <3>2 DEF GetPush
    <3>4. QED
      BY <2>1, <3>1, <3>3, Zenon DEF KeptInv
  <2>5. CASE GetEleType
    <3>1. frame = 3 /\ frame > 1 /\ frame > 2 /\ ~(frame > 3) /\ frame' - 4 = 0
      BY <2>1, <2>5 DEF GetEleType, Receive, RecvInv
    <3>2. /\ msgPattern = a.pattern /\ log = <<>>
          /\ msgPattern = "TPassiveResponse" => reqRsp = <<a.n, a.cmd>>
      BY <3>1, Zenon DEF KeptInv
    <3>3. recvEleType' = a.ele
      BY <1>1, <2>5, <3>1, ExpectedFrame DEF GetEleType
    <3>4. log' = log /\ UNCHANGED <<msgPattern, reqRsp>>
      BY <1>3, <2>5, Zenon DEF GetEleType
    <3>5. [i \in 1 .. frame' - 4 |-> Callback(a.ele, a.n, i, FALSE)] = <<>>
      <4> DEFINE t == [i \in 1 .. frame' - 4 |-> Callback(a.ele, a.n, i, FALSE)]
                 S == {t[i] : i \in 1 .. frame' - 4}
      <4>1. t \in [1 .. frame' - 4 -> S]
        BY Zenon
      <4> HIDE DEF t, S
      <4>2. t \in Seq(S) /\ Len(t) = 0
        BY <3>1, <4>1
      <4>3. t = <<>>
        BY <4>2
      <4>4. QED
        BY <4>3, Zenon DEF t
    <3>6. QED
      BY <2>1, <3>2, <3>3, <3>4, <3>5, Zenon DEF KeptInv
  <2>6. CASE GetElement
    <3>1. frame > 1 /\ frame > 2 /\ frame > 3 /\ frame' > 3 /\ frame' - 4 = frame - 3
      BY <2>1, <2>6 DEF GetElement, Receive, RecvInv
    <3>2. /\ msgPattern = a.pattern /\ recvEleType = a.ele
          /\ msgPattern = "TPassiveResponse" => reqRsp = <<a.n, a.cmd>>
          /\ msgPattern # "TPassiveResponse" => log = <<>>
      BY <3>1, Zenon DEF KeptInv
    <3>3. UNCHANGED <<msgPattern, reqRsp, recvEleType>>
          /\ (msgPattern # "TPassiveResponse" => log' = log)
      BY <2>6, Zenon DEF GetElement
    <3>4. msgPattern = "TPassiveResponse" =>
            log' = [i \in 1 .. frame - 3 |-> Callback(a.ele, a.n, i, FALSE)]
      BY <1>1, <1>3, <2>6, <3>2, RowLogged, Zenon
    <3>5. QED
      BY <2>1, <3>1, <3>2, <3>3, <3>4, Zenon DEF KeptInv
  <2>7. QED
    BY <2>2, <2>3, <2>4, <2>5, <2>6 DEF RecvHandle
<1>4. QED
  BY <1>2, <1>3

-----------------------------------------------------------------------------
(* The rest of the system does not disturb recvHandle                       *)

(* What is queued for recvHandle grows at the end, or is dropped by a thread *)
(* that is not receiving.                                                    *)
LEMMA QueueElsewhere ==
  ASSUME TypeOK, FlagInv, WireInv, RecvInv, KeptInv,
         App \/ InCall \/ (PollFunc /\ ~RecvHandle) \/ Network \/ Server
  PROVE  WireInv' /\ RecvInv' /\ KeptInv'
<1>1. UNCHANGED recvVars
  BY Zenon DEF App, InCall, PollFunc, Network, Server, mgrVars, ReqLogin, Req, AssignIdentity,
               Send, Answer, Push, Deliver
<1>2. CASE rx' = rx
  <2>1. tpc' = "recv" => rx # <<>> /\ (tpc = "recv" \/ tpc = "poll")
    BY <1>2 DEF App, InCall, PollFunc, Network, Server, PollStep, SetRemoteAddr, Connect, Stop,
         Destroy, Start, Spawn, NewThread, Join, Begin, LoopTest, CheckEvent, Poll, Exit,
         ExitPolled, LinkUp, LinkDown, ReqLogin, Req, AssignIdentity, Send, Answer, Push,
         Deliver, PollGoto, RecvInv
  <2>2. tpc = "poll" => frame = 1
    BY DEF TypeOK
  <2>3. WireInv' /\ KeptInv'
    BY <1>1, <1>2, Zenon DEF WireInv, KeptInv, recvVars
  <2>4. tpc' = "recv" => frame <= Len(Frames(Head(rx)))
    <3>1. CASE tpc = "recv"
      BY <3>1 DEF RecvInv
    <3>2. CASE tpc = "poll" /\ rx # <<>>
      <4>1. Head(rx) \in Answers
        BY <3>2 DEF TypeOK
      <4>2. Len(Frames(Head(rx))) = 2 \/ Len(Frames(Head(rx))) = 3 + Head(rx).rows
        BY <4>1, FramesOfMessage, Zenon
      <4>3. Head(rx).rows \in Nat
        BY <4>1, RequestBounds DEF Answers
      <4>4. \A k \in Nat : 1 <= 2 /\ 1 <= 3 + k
        OBVIOUS
      <4>5. frame = 1
        BY <2>2, <3>2
      <4>6. QED
        BY <4>2, <4>3, <4>4, <4>5, Zenon
    <3>3. QED
      BY <2>1, <3>1, <3>2
  <2>5. QED
    BY <1>1, <1>2, <2>1, <2>3, <2>4 DEF RecvInv, recvVars
<1>3. CASE Server
  <2>1. PICK a \in Answers :
             /\ rx' = Append(rx, a)
             /\ a.pattern = "TPassiveResponse" /\ a.ele # NoElement => a.cmd = "TQuery"
    BY <1>3, Delivered, Zenon
  <2>2. tpc' = tpc /\ rx \in Seq(Answers)
    BY <1>3, Zenon DEF Server, Answer, Push, Deliver, TypeOK
  <2>3. rx # <<>> => rx' # <<>> /\ Head(rx') = Head(rx)
    BY <2>1, <2>2
  <2>4. WireInv'
    <3>1. /\ Len(rx') = Len(rx) + 1 /\ Len(rx) \in Nat
          /\ \A i \in 1 .. Len(rx) : rx'[i] = rx[i]
          /\ rx'[Len(rx) + 1] = a
      BY <2>1, <2>2, AppendProperties
    <3>2. \A i \in 1 .. Len(rx') : i = Len(rx) + 1 \/ i \in 1 .. Len(rx)
      BY <3>1
    <3>3. QED
      BY <2>1, <3>1, <3>2, Zenon DEF WireInv
  <2>5. frame > 1 => rx # <<>>
    BY DEF TypeOK
  <2>6. KeptInv'
    BY <1>1, <2>3, <2>5, Zenon DEF KeptInv, recvVars
  <2>7. RecvInv'
    BY <1>1, <2>2, <2>3 DEF RecvInv, recvVars
  <2>8. QED
    BY <2>4, <2>6, <2>7
<1>4. CASE Exit
  <2>1. tpc = "exit" /\ tpc' = "polled" /\ rx' \in {rx, <<>>}
    BY <1>4 DEF Exit, PollGoto
  <2>2. ~(frame > 1)
    BY <2>1 DEF TypeOK
  <2>3. WireInv'
    BY <2>1 DEF WireInv
  <2>4. KeptInv'
    BY <1>1, <2>2, Zenon DEF KeptInv, recvVars
  <2>5. RecvInv'
    BY <1>1, <2>1 DEF RecvInv, recvVars
  <2>6. QED
    BY <2>3, <2>4, <2>5
<1>5. QED
  <2>1. rx' = rx \/ Server \/ Exit
    BY Zenon DEF App, InCall, PollFunc, Network, PollStep, SetRemoteAddr, Connect, Stop, Destroy,
                 Start, Spawn, Join, Begin, LoopTest, CheckEvent, Poll, ExitPolled, LinkUp,
                 LinkDown, ReqLogin, Req, AssignIdentity, Send, sockVars
  <2>2. QED
    BY <1>2, <1>3, <1>4, <2>1

(* recvHandle leaves what it has not received as it is.                      *)
LEMMA RecvWire ==
  ASSUME TypeOK, WireInv, RecvInv, KeptInv, RecvHandle
  PROVE  WireInv'
<1>1. tpc = "recv" /\ NextFrame
  BY RecvAsserts
<1>2. rx # <<>> /\ rx \in Seq(Answers) /\ (rx' = rx \/ rx' = Tail(rx))
  BY <1>1, ExpectedFrame, FrameAdvances DEF TypeOK
<1>3. \A i \in 1 .. Len(rx') : \E j \in 1 .. Len(rx) : rx'[i] = rx[j]
  BY <1>2
<1>4. QED
  BY <1>3, Zenon DEF WireInv

-----------------------------------------------------------------------------
(* Identities                                                               *)

(* The application stores an identity before anybody sees it.                *)
LEMMA IdentApp ==
  ASSUME TypeOK, IdentInv, KeepAliveIdentified, App \/ InCall
  PROVE  IdentInv' /\ KeepAliveIdentified'
<1> USE Marks DEF IdentInv, KeepAliveIdentified, IdentityOut
<1>1. CASE UNCHANGED mgrVars /\ UNCHANGED <<inproc, server, rx>>
           /\ apc \notin {"login", "send"} /\ apc' \notin {"login", "send"}
  BY <1>1 DEF mgrVars, envVars
<1>2. ASSUME NEW id \in Users, ReqLogin(id) PROVE IdentInv' /\ KeepAliveIdentified'
  <2>1. /\ areq'.id = id /\ areq'.cmd = "TLogin" /\ apc' = "login" /\ apc = "idle"
        /\ relogin' = (relogin \/ m_strIdentity # NoId)
        /\ UNCHANGED <<inproc, server, rx, known>>
    BY <1>2 DEF ReqLogin, Call, Msg, sockVars, envVars
  <2>2. relogin => relogin'
    BY <2>1
  <2>3. m_strIdentity \in Users => relogin'
    BY <2>1
  <2>4. QED
    BY <2>1, <2>2, <2>3
<1>3. ASSUME NEW cmd \in Requests, NEW ele \in Elements \cup {NoElement}, Req(cmd, ele)
      PROVE  IdentInv' /\ KeepAliveIdentified'
  <2>1. /\ areq'.id = m_strIdentity /\ areq'.cmd = cmd /\ apc' = "send" /\ apc = "idle"
        /\ UNCHANGED <<inproc, server, rx, known, m_strIdentity, relogin>>
    BY <1>3 DEF Req, Call, Msg, sockVars, envVars
  <2>2. cmd # "TKeepAlive"
    BY RequestBounds DEF ReqCmds
  <2>3. QED
    BY <2>1, <2>2
<1>4. CASE AssignIdentity
  <2>1. /\ m_strIdentity' = areq.id /\ apc' = "send" /\ areq.id \in Users
        /\ UNCHANGED <<inproc, server, rx, known, areq, relogin>>
    BY <1>4 DEF AssignIdentity, sockVars, envVars
  <2>2. areq.cmd # "TKeepAlive"
    BY <1>4 DEF AssignIdentity
  <2>3. QED
    BY <2>1, <2>2
<1>5. CASE Send
  <2>1. /\ inproc' = inproc \cup {areq} /\ apc = "send" /\ apc' = "idle"
        /\ UNCHANGED <<server, rx, known, m_strIdentity, relogin>>
    BY <1>5 DEF Send, envVars
  <2>2. QED
    BY <2>1
<1>6. QED
  <2>1. \/ UNCHANGED mgrVars /\ UNCHANGED <<inproc, server, rx>>
           /\ apc \notin {"login", "send"} /\ apc' \notin {"login", "send"}
        \/ \E id \in Users : ReqLogin(id)
        \/ \E cmd \in Requests, ele \in Elements \cup {NoElement} : Req(cmd, ele)
        \/ AssignIdentity
        \/ Send
    BY DEF App, InCall, SetRemoteAddr, Connect, Stop, Destroy, Start, Spawn, NewThread, Join,
           Call, sockVars
  <2>2. QED
    BY <1>1, <1>2, <1>3, <1>4, <1>5, <2>1

(* The polling thread, the network and the server show it to nobody new.     *)
LEMMA IdentPoll ==
  ASSUME TypeOK, IdentInv, KeepAliveIdentified,
         PollStep \/ LinkUp \/ LinkDown, Forget,
         UNCHANGED <<m_strIdentity, areq, recvVars, pushes, relogin>>
  PROVE  IdentInv' /\ KeepAliveIdentified'
<1>1. /\ inproc' \cup server' \subseteq inproc \cup server
      /\ known' => known
      /\ apc' = apc
      /\ rx' = rx \/ rx' = <<>>
  <2>1. inproc' \cup server' \subseteq inproc \cup server
    BY Zenon DEF PollStep, Begin, LoopTest, CheckEvent, Poll, Forward, Exit, ExitPolled, LinkUp,
                 LinkDown, sockVars
  <2>2. known' => known
    BY DEF Forget
  <2>3. apc' = apc /\ (rx' = rx \/ rx' = <<>>)
    BY Zenon DEF PollStep, Begin, LoopTest, CheckEvent, Poll, Exit, ExitPolled, LinkUp, LinkDown,
                 sockVars
  <2>4. QED
    BY <2>1, <2>2, <2>3
<1>2. IdentityOut' => IdentityOut
  BY <1>1 DEF IdentityOut
<1>3. QED
  BY <1>1, <1>2 DEF IdentInv, KeepAliveIdentified

(* recvHandle answers a push of a server that knows the identity.            *)
LEMMA IdentRecv ==
  ASSUME TypeOK, RecvInv, KeptInv, IdentInv, KeepAliveIdentified, RecvHandle
  PROVE  IdentInv' /\ KeepAliveIdentified'
<1>1. tpc = "recv" /\ NextFrame
  BY RecvAsserts
<1>2. /\ UNCHANGED <<m_strIdentity, areq, known, relogin, server, apc>>
      /\ rx # <<>> /\ rx \in Seq(Answers) /\ (rx' = rx \/ rx' = Tail(rx))
  BY <1>1, ExpectedFrame, FrameAdvances DEF NextFrame, TypeOK, envVars
<1>3. \A i \in 1 .. Len(rx') : \E j \in 1 .. Len(rx) : rx'[i] = rx[j]
  BY <1>2
<1>4. CASE inproc' = inproc
  <2>1. IdentityOut' => IdentityOut
    BY <1>2, <1>3, <1>4, Zenon DEF IdentityOut
  <2>2. QED
    BY <1>2, <1>4, <2>1 DEF IdentInv, KeepAliveIdentified
<1>5. CASE inproc' # inproc
  <2>1. GetPush /\ inproc' = inproc \cup {Msg(Head(rx).n, "TKeepAlive", m_strIdentity, NoElement)}
    BY <1>5 DEF RecvHandle, GetPattern, GetRsp, GetPush, GetEleType, GetElement
  <2>2. frame > 1 /\ msgPattern = "TActivePush"
    BY <2>1 DEF GetPush, Receive, RecvInv
  <2>3. Head(rx).pattern = "TActivePush"
    BY <2>2, Zenon DEF KeptInv
  <2>4. 1 \in 1 .. Len(rx) /\ rx[1].pattern = "TActivePush"
    BY <1>2, <2>3
  <2>5. m_strIdentity \in Users \/ relogin
    BY <2>4, Zenon DEF IdentInv, IdentityOut
  <2>6. QED
    BY <1>2, <2>1, <2>5 DEF IdentInv, KeepAliveIdentified, Msg
<1>6. QED
  BY <1>4, <1>5

(* The server knows a user only from a message, and pushes only then.        *)
LEMMA IdentServer ==
  ASSUME TypeOK, WireInv, IdentInv, KeepAliveIdentified, Server
  PROVE  IdentInv' /\ KeepAliveIdentified'
<1>1. /\ UNCHANGED <<inproc, apc, m_strIdentity, areq, relogin>>
      /\ server' \subseteq server
  BY Zenon DEF Server, Answer, Push, Deliver
<1>2. known' => known \/ \E m \in server : m.id \in Users
  BY DEF Server, Answer, Push
<1>3. PICK a \in Answers : rx' = Append(rx, a) /\ (a.pattern = "TActivePush" => known)
  BY Delivered, Zenon
<1>4. /\ Len(rx') = Len(rx) + 1 /\ Len(rx) \in Nat
      /\ \A i \in 1 .. Len(rx) : rx'[i] = rx[i]
      /\ rx'[Len(rx) + 1] = a
  BY <1>3, AppendProperties DEF TypeOK
<1>5. \A i \in 1 .. Len(rx') : i = Len(rx) + 1 \/ i \in 1 .. Len(rx)
  BY <1>4
<1>6. IdentityOut' => IdentityOut
  BY <1>1, <1>2, <1>3, <1>4, <1>5, Zenon DEF IdentityOut
<1>7. QED
  BY <1>1, <1>6 DEF IdentInv, KeepAliveIdentified

-----------------------------------------------------------------------------
(* The program is not terminated                                            *)

(* Only an early second OpenAsyncApi and a changed address terminate it.     *)
LEMMA Survives ==
  ASSUME TypeOK, FlagInv, RecvInv, KeptInv, ~terminated, Next
  PROVE  SafeReopen'
<1>1. CASE terminated' = FALSE
  BY <1>1 DEF SafeReopen
<1>2. CASE Spawn
  <2>1. hasty' = hasty /\ (terminated' => tpc = "begin" /\ apc = "spawn")
    <3>1. hasty' = hasty /\ apc = "spawn" /\ (terminated' => ~m_bPolling /\ joinable)
      BY <1>2 DEF Spawn, NewThread
    <3>2. joinable /\ ~m_bPolling /\ apc = "spawn" => tpc = "begin"
      BY DEF TypeOK, ApiTypeOK, PollPc, FlagInv, Looping
    <3>3. QED
      BY <3>1, <3>2
  <2>2. QED
    BY <2>1 DEF FlagInv, SafeReopen
<1>3. CASE Exit
  <2>1. tpc = "exit" /\ moved' = moved /\ (terminated' => endpoint # m_strAddr)
    BY <1>3 DEF Exit, PollGoto
  <2>2. QED
    BY <2>1 DEF FlagInv, SafeReopen
<1>4. CASE RecvHandle
  BY <1>4, RecvAsserts DEF SafeReopen
<1>5. QED
  <2>1. terminated' = terminated \/ Spawn \/ Exit \/ RecvHandle
    BY Zenon DEF Next, App, InCall, PollFunc, Network, Server, PollStep, SetRemoteAddr, Connect,
                 Stop, Destroy, Start, Join, Begin, LoopTest, CheckEvent, Poll, ExitPolled,
                 LinkUp, LinkDown, ReqLogin, Req, AssignIdentity, Send, Answer, Push, Deliver
  <2>2. CASE terminated' = terminated
    BY <2>2 DEF SafeReopen
  <2>3. QED
    BY <1>2, <1>3, <1>4, <2>1, <2>2

-----------------------------------------------------------------------------
(* The inductive invariant                                                  *)

(* It holds of a new client.                                                 *)
LEMMA InitIInv ==
  ASSUME Init
  PROVE  IInv
<1> USE DEF Init, ApiInit
<1>1. TypeOK
  <2>1. areq \in Msgs
    BY ApiBounds, RequestBounds DEF Msg, Msgs, ReqCmds
  <2>2. ApiTypeOK
    <3>1. calls \in 0 .. MaxCalls /\ links \in 0 .. MaxLinks
      BY ApiBounds
    <3>2. tpc \in PollPc /\ apc \in AppPc /\ {m_strAddr, endpoint} \subseteq Addrs \cup {NoAddr}
      BY DEF PollPc, AppPc
    <3>3. events \in Seq({"connected", "disconnected"})
      OBVIOUS
    <3>4. QED
      BY <3>1, <3>2, <3>3, Zenon DEF ApiTypeOK
  <2>3. rx \in Seq(Answers) /\ inproc \subseteq Msgs /\ server \subseteq Msgs
    OBVIOUS
  <2>4. frame \in 1 .. 3 + MaxRows /\ pushes \in 0 .. MaxPushes /\ ~(frame > 1)
    BY RequestBounds
  <2>5. QED
    BY <2>1, <2>2, <2>3, <2>4, Zenon DEF TypeOK
<1>2. FlagInv
  BY DEF FlagInv, Looping
<1>3. WireInv /\ RecvInv
  BY DEF WireInv, RecvInv
<1>4. KeptInv
  <2>1. ~(frame > 1)
    OBVIOUS
  <2>2. QED
    BY <2>1, Zenon DEF KeptInv
<1>5. IdentInv
  BY Marks DEF IdentInv, IdentityOut
<1>6. SafeReopen /\ KeepAliveIdentified
  BY DEF SafeReopen, KeepAliveIdentified
<1>7. QED
  BY <1>1, <1>2, <1>3, <1>4, <1>5, <1>6 DEF IInv

(* Every step preserves it.                                                  *)
LEMMA NextIInv ==
  ASSUME IInv, [Next]_vars
  PROVE  IInv'
<1> USE DEF IInv
<1>1. CASE Next
  <2>1. ~terminated
    BY <1>1 DEF Next
  <2>2. SafeReopen'
    BY <1>1, <2>1, Survives
  <2>3. CASE App \/ InCall
    <3>1. TypeOK' /\ FlagInv'
      BY <2>3, TypesApp, FlagsApp
    <3>2. WireInv' /\ RecvInv' /\ KeptInv'
      BY <2>3, QueueElsewhere
    <3>3. IdentInv' /\ KeepAliveIdentified'
      BY <2>3, IdentApp
    <3>4. QED
      BY <2>2, <3>1, <3>2, <3>3
  <2>4. CASE RecvHandle
    <3>1. TypeOK' /\ FlagInv'
      BY <2>4, RecvTypes, FlagsOthers DEF PollFunc
    <3>2. WireInv' /\ RecvInv' /\ KeptInv'
      BY <2>4, RecvWire, RecvPosition, RecvKept
    <3>3. IdentInv' /\ KeepAliveIdentified'
      BY <2>4, IdentRecv
    <3>4. QED
      BY <2>2, <3>1, <3>2, <3>3
  <2>5. CASE ((PollFunc /\ ~RecvHandle) \/ Network)
    <3>1. (PollStep \/ LinkUp \/ LinkDown) /\ Forget
          /\ UNCHANGED <<m_strIdentity, areq, recvVars, pushes, relogin>>
      BY <2>5 DEF PollFunc, Network
    <3>2. TypeOK' /\ FlagInv'
      BY <2>5, <3>1, TypesPoll, FlagsOthers
    <3>3. WireInv' /\ RecvInv' /\ KeptInv'
      BY <2>5, QueueElsewhere
    <3>4. IdentInv' /\ KeepAliveIdentified'
      BY <3>1, IdentPoll
    <3>5. QED
      BY <2>2, <3>2, <3>3, <3>4
  <2>6. CASE Server
    <3>1. TypeOK' /\ FlagInv'
      BY <2>6, TypesServer, FlagsOthers
    <3>2. WireInv' /\ RecvInv' /\ KeptInv'
      BY <2>6, QueueElsewhere
    <3>3. IdentInv' /\ KeepAliveIdentified'
      BY <2>6, IdentServer
    <3>4. QED
      BY <2>2, <3>1, <3>2, <3>3
  <2>7. QED
    BY <1>1, <2>3, <2>4, <2>5, <2>6 DEF Next
<1>2. CASE UNCHANGED vars
  <2> USE <1>2 DEF vars, apiVars, recvVars, envVars, mgrVars
  <2>1. TypeOK'
    BY DEF TypeOK, ApiTypeOK
  <2>2. FlagInv' /\ SafeReopen'
    BY DEF FlagInv, SafeReopen
  <2>3. WireInv' /\ KeptInv' /\ IdentInv' /\ KeepAliveIdentified'
    BY Zenon DEF WireInv, KeptInv, IdentInv, IdentityOut, KeepAliveIdentified
  <2>4. RecvInv'
    BY DEF RecvInv
  <2>5. QED
    BY <2>1, <2>2, <2>3, <2>4
<1>3. QED
  BY <1>1, <1>2

(* It holds of every behaviour.                                              *)
LEMMA Invariance == Spec => []IInv
<1>1. Init => IInv
  BY InitIInv
<1>2. IInv /\ [Next]_vars => IInv'
  BY NextIInv
<1>3. QED
  BY <1>1, <1>2, PTL DEF Spec

-----------------------------------------------------------------------------
(* Theorems                                                                 *)

(* Type correctness of the client: threads, flags, sockets and recvHandle.   *)
THEOREM TypeCorrect == Spec => []TypeOK
<1>1. IInv => TypeOK
  BY DEF IInv
<1>2. QED
  BY <1>1, Invariance, PTL

(* Opening and closing the client in any order terminates the program only   *)
(* after an OpenAsyncApi that came before the thread was polling or a change *)
(* of the address while connected, and no assertion of recvHandle fails.     *)
THEOREM ReopenIsSafe == Spec => []SafeReopen
<1>1. IInv => SafeReopen
  BY DEF IInv
<1>2. QED
  BY <1>1, Invariance, PTL

(* A connected endpoint has a thread that polls it whenever the application  *)
(* is outside a call.                                                        *)
THEOREM EndpointAlwaysPolled == Spec => []EndpointPolled
<1>1. IInv => EndpointPolled
  <2> SUFFICES ASSUME IInv, apc = "idle" PROVE EndpointPolled
    BY DEF EndpointPolled
  <2>1. TypeOK /\ FlagInv
    BY DEF IInv
  <2>2. QED
    BY <2>1 DEF TypeOK, ApiTypeOK, PollPc, FlagInv, Looping, EndpointPolled
<1>2. QED
  BY <1>1, Invariance, PTL

(* A keep-alive is answered with a whole identity, unless the application    *)
(* logged in a second time.                                                  *)
THEOREM KeepAlivesIdentified == Spec => []KeepAliveIdentified
<1>1. IInv => KeepAliveIdentified
  BY DEF IInv
<1>2. QED
  BY <1>1, Invariance, PTL

(* Every message received is turned into exactly the callbacks it asks for,  *)
(* and recvHandle is then ready for the next one.                            *)
THEOREM EveryMessageDispatched == Spec => MessageDispatched
<1>1. IInv /\ [Next]_vars =>
        [tpc = "recv" /\ tpc' = "top" => log' = Callbacks(Head(rx)) /\ stateMachine' = "StatInit"]_vars
  <2> SUFFICES ASSUME IInv, Next, tpc = "recv", tpc' = "top"
               PROVE  log' = Callbacks(Head(rx)) /\ stateMachine' = "StatInit"
    BY DEF vars, apiVars
  <2>1. TypeOK /\ WireInv /\ RecvInv /\ KeptInv
    BY DEF IInv
  <2>2. RecvHandle
    BY DEF Next, App, InCall, PollFunc, Network, Server, PollStep, SetRemoteAddr, Connect, Stop,
           Destroy, Start, Spawn, NewThread, Join, Begin, LoopTest, CheckEvent, Poll, Exit,
           ExitPolled, LinkUp, LinkDown, ReqLogin, Req, AssignIdentity, Send, Answer, Push,
           Deliver, PollGoto
  <2>3. bLast
    <3>1. NextFrame
      BY <2>1, <2>2, RecvAsserts
    <3>2. QED
      BY <3>1 DEF NextFrame
  <2>4. stateMachine' = "StatInit"
    BY <2>2, <2>3 DEF RecvHandle, GetPattern, GetRsp, GetPush, GetEleType, GetElement
  <2>5. QED
    BY <2>1, <2>2, <2>3, <2>4, RecvDispatches
<1>2. QED
  BY <1>1, Invariance, PTL DEF Spec, MessageDispatched
=============================================================================
