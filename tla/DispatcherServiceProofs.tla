----------------------- MODULE DispatcherServiceProofs -----------------------
(***************************************************************************)
(* Proofs about the dispatcher service, for every set of users, connections *)
(* and pool threads and every set of requests.                              *)
(***************************************************************************)
EXTENDS DispatcherService, TLAPS, SequenceTheorems

-----------------------------------------------------------------------------
(* Type correctness                                                         *)

(* A message is never the empty message: request ids start at one.           *)
LEMMA MsgFields ==
  ASSUME NEW m \in Msg
  PROVE  /\ m # NoMsg
         /\ m.user \in Users /\ m.router \in Routers /\ m.names \in Seq(Users)
         /\ m.req \in 1 .. MaxReq /\ m.known \in Rows /\ m.sess \in Nat
  BY BoundAssumption DEF Msg, NoMsg

(* The initial state has the declared types.                                 *)
LEMMA TypeInit == Init => TypeOK
<1> SUFFICES ASSUME Init PROVE TypeOK
  OBVIOUS
<1>1. db \in [Users -> Rows] /\ told \in [Users -> Rows]
  BY DEF Init, Rows, NoRow, SeedRow
<1>2. tcp \in [Routers -> Seq(Msg)] /\ tasks \in Seq(Msg)
  BY EmptySeq DEF Init
<1>3. /\ sent \in 0 .. MaxReq /\ session \in [Users -> Nat]
      /\ m_strRouter \in [Users -> Routers \cup {NoRouter}]
      /\ m_bLogin \in [Users -> BOOLEAN] /\ recentRead \in [Users -> BOOLEAN]
  BY BoundAssumption DEF Init
<1>4. /\ wpc \in [Workers -> {"idle", "db", "read", "reading", "store", "send"}]
      /\ wmsg \in [Workers -> Msg \cup {NoMsg}] /\ wres \in [Workers -> {"ok", "err"}]
      /\ wseen \in [Workers -> SUBSET (Routers \cup {NoRouter})]
      /\ wto \in [Workers -> Routers \cup {NoRouter}]
      /\ wsame \in [Workers -> BOOLEAN]
      /\ \A w \in Workers : wpc[w] # "idle" => wmsg[w] # NoMsg
  BY DEF Init
<1>5. QED
  BY <1>1, <1>2, <1>3, <1>4 DEF Init, TypeOK

(* The steps of the clients and of time keep the types.                      *)
LEMMA TypeEnvironment ==
  ASSUME TypeOK,
         \/ \E q \in Requests : ClientSend(q)
         \/ \E u \in Users : MinutePasses(u)
         \/ TimerExpires
  PROVE  TypeOK'
<1>1. ASSUME NEW q \in Requests, ClientSend(q) PROVE TypeOK'
  <2> DEFINE new == [user |-> q.user, router |-> q.router, cmd |-> q.cmd,
                     ele |-> q.ele, names |-> q.names, req |-> sent + 1,
                     known |-> told[q.user], sess |-> 0]
  <2>1. sent + 1 \in 1 .. MaxReq
    BY <1>1, BoundAssumption DEF TypeOK, ClientSend
  <2>2. /\ q.user \in Users /\ q.router \in Routers /\ q.cmd \in Cmds
        /\ q.ele \in Elements /\ q.names \in Seq(Users)
    BY RequestsAssumption
  <2>3. told[q.user] \in Rows
    BY <2>2 DEF TypeOK
  <2>4. new \in Msg
    BY <2>1, <2>2, <2>3 DEF Msg
  <2>5. Append(tcp[q.router], new) \in Seq(Msg)
    BY <2>2, <2>4 DEF TypeOK
  <2>6. tcp' = [tcp EXCEPT ![q.router] = Append(@, new)]
    BY <1>1 DEF ClientSend
  <2>7. tcp' \in [Routers -> Seq(Msg)]
    BY <2>5, <2>6 DEF TypeOK
  <2>8. sent' \in 0 .. MaxReq /\ pushed' \in SUBSET Routers
    BY <1>1, <2>1 DEF ClientSend, TypeOK
  <2>9. QED
    BY <1>1, <2>7, <2>8 DEF ClientSend, TypeOK, cacheVars, sessionVars, pollVars,
                            workerVars
<1>2. ASSUME NEW u \in Users, MinutePasses(u) PROVE TypeOK'
  <2>1. recentRead' \in [Users -> BOOLEAN]
    BY <1>2 DEF MinutePasses, TypeOK
  <2>2. QED
    BY <1>2, <2>1 DEF MinutePasses, TypeOK, cacheVars, pollVars, workerVars,
                      clientVars
<1>3. ASSUME TimerExpires PROVE TypeOK'
  BY <1>3 DEF TimerExpires, TypeOK, cacheVars, sessionVars, pollVars, workerVars,
              clientVars
<1>4. QED
  BY <1>1, <1>2, <1>3

(* Counting a session keeps the counters natural numbers.                    *)
LEMMA CountSessionsType ==
  ASSUME session \in [Users -> Nat], CountSessions
  PROVE  session' \in [Users -> Nat]
  BY DEF CountSessions

(* The steps of pollFunc up to the receipt of a message keep the types.      *)
LEMMA TypePollLoop ==
  ASSUME TypeOK, TestCacheFlag \/ UpdManagerCache \/ CheckTimer \/ Poll
  PROVE  TypeOK'
<1>1. CASE TestCacheFlag
  BY <1>1 DEF TestCacheFlag, TypeOK, sessionVars, workerVars, clientVars
<1>2. CASE UpdManagerCache
  <2>1. m_setManagerCache' \in SUBSET Users /\ hidden' \in SUBSET {"partial", "select"}
    BY <1>2 DEF UpdManagerCache, Names
  <2>2. QED
    BY <1>2, <2>1 DEF UpdManagerCache, TypeOK, sessionVars, workerVars, clientVars
<1>3. CASE CheckTimer
  <2>1. CASE timerDue /\ KatimeHandle
    <3>1. m_bLogin' \in [Users -> BOOLEAN]
      BY <2>1 DEF KatimeHandle
    <3>2. session' \in [Users -> Nat]
      BY <2>1, CountSessionsType DEF KatimeHandle, TypeOK
    <3>3. pushed' \in SUBSET Routers
      BY <2>1 DEF KatimeHandle, TypeOK
    <3>4. QED
      BY <1>3, <2>1, <3>1, <3>2, <3>3 DEF CheckTimer, TypeOK, cacheVars, workerVars
  <2>2. CASE ~timerDue
    BY <1>3, <2>2 DEF CheckTimer, TypeOK, cacheVars, workerVars
  <2>3. QED
    BY <1>3, <2>1, <2>2 DEF CheckTimer
<1>4. CASE Poll
  <2>1. inproc' \in SUBSET Response /\ out' \in SUBSET Response
    BY <1>4 DEF Poll, TypeOK
  <2>2. told' \in [Users -> Rows]
    <3>1. ASSUME NEW p \in inproc PROVE ToldAfter(p) \in [Users -> Rows]
      <4>1. p.m \in Msg
        BY <3>1 DEF TypeOK, Response
      <4>2. p.m.req \in Rows
        BY <4>1, MsgFields DEF Rows
      <4>3. QED
        BY <4>2 DEF ToldAfter, TypeOK
    <3>2. QED
      BY <1>4, <3>1 DEF Poll, TypeOK
  <2>3. /\ tcp' \in [Routers -> Seq(Msg)] /\ cur' \in Msg \cup {NoMsg}
        /\ ppc' \in {"top", "recv"} /\ (ppc' = "recv" <=> cur' # NoMsg)
    <3>1. CASE ppc' = "top" /\ UNCHANGED <<cur, tcp>>
      BY <1>4, <3>1 DEF Poll, TypeOK
    <3>2. CASE \E r \in Routers : tcp[r] # <<>> /\ cur' = Head(tcp[r])
                 /\ tcp' = [tcp EXCEPT ![r] = Tail(@)] /\ ppc' = "recv"
      <4> PICK r \in Routers : tcp[r] # <<>> /\ cur' = Head(tcp[r])
                 /\ tcp' = [tcp EXCEPT ![r] = Tail(@)] /\ ppc' = "recv"
        BY <3>2
      <4>1. tcp[r] \in Seq(Msg)
        BY DEF TypeOK
      <4>2. Head(tcp[r]) \in Msg /\ Tail(tcp[r]) \in Seq(Msg)
        BY <4>1, HeadTailProperties
      <4>3. cur' # NoMsg
        BY <4>2, MsgFields
      <4>4. QED
        BY <4>2, <4>3 DEF TypeOK
    <3>3. QED
      BY <1>4, <3>1, <3>2 DEF Poll
  <2>4. QED
    BY <1>4, <2>1, <2>2, <2>3 DEF Poll, TypeOK, cacheVars, sessionVars, workerVars
<1>5. QED
  BY <1>1, <1>2, <1>3, <1>4

(* The handling of a message keeps the types.                                *)
LEMMA TypeOnMessage == TypeOK /\ OnMessage => TypeOK'
<1> SUFFICES ASSUME TypeOK, OnMessage PROVE TypeOK'
  OBVIOUS
<1>a. ppc = "recv" /\ ppc' = "top" /\ cur' = NoMsg
  BY DEF OnMessage, RejectUnknown, RejectNoLogin, RejectMultiLogin, OnReqLogin,
         OnReqLogout, OnKeepAlive, SubmitTask, SkipCommand, Accept, EndOfMessage
<1>b. cur \in Msg
  BY <1>a DEF TypeOK
<1>c. cur.user \in Users /\ cur.router \in Routers
  BY <1>b, MsgFields
<1>d. ASSUME NEW err \in Errors, Reply(err) PROVE out' \in SUBSET Response
  <2> DEFINE rsp == [m |-> cur, to |-> cur.router, err |-> err, same |-> TRUE]
  <2>1. rsp \in Response
    BY <1>b, <1>c DEF Response
  <2>2. out' = out \cup {rsp}
    BY <1>d DEF Reply
  <2>3. QED
    BY <2>1, <2>2 DEF TypeOK
<1>e. ASSUME FindClient
      PROVE  m_mapClients' \in SUBSET Users /\ recentRead' \in [Users -> BOOLEAN]
  BY <1>e, <1>c DEF FindClient, TypeOK
<1>f. ASSUME Accept
      PROVE  /\ m_mapClients' \in SUBSET Users
             /\ m_strRouter' \in [Users -> Routers \cup {NoRouter}]
             /\ recentRead' \in [Users -> BOOLEAN]
             /\ wseen' \in [Workers -> SUBSET (Routers \cup {NoRouter})]
  BY <1>f, <1>c DEF Accept, TypeOK
<1>1. CASE RejectUnknown
  <2>1. out' \in SUBSET Response
    BY <1>1, <1>d DEF RejectUnknown, Errors
  <2>2. QED
    BY <1>1, <1>a, <2>1 DEF RejectUnknown, TypeOK, cacheVars, sessionVars,
                            workerVars, clientVars
<1>2. CASE RejectNoLogin
  <2>1. out' \in SUBSET Response
    BY <1>2, <1>d DEF RejectNoLogin, Errors
  <2>2. QED
    BY <1>2, <1>a, <1>e, <2>1 DEF RejectNoLogin, TypeOK, cacheVars, workerVars,
                                  clientVars
<1>3. CASE RejectMultiLogin
  <2>1. out' \in SUBSET Response
    BY <1>3, <1>d DEF RejectMultiLogin, Errors
  <2>2. QED
    BY <1>3, <1>a, <1>e, <2>1 DEF RejectMultiLogin, TypeOK, cacheVars, workerVars,
                                  clientVars
<1>4. CASE OnReqLogin \/ OnReqLogout
  <2>1. out' \in SUBSET Response
    BY <1>4, <1>d DEF OnReqLogin, OnReqLogout, Errors
  <2>2. m_bLogin' \in [Users -> BOOLEAN]
    BY <1>4, <1>c DEF OnReqLogin, OnReqLogout, TypeOK
  <2>3. session' \in [Users -> Nat]
    BY <1>4, CountSessionsType DEF OnReqLogin, OnReqLogout, TypeOK
  <2>4. Accept /\ UNCHANGED <<m_bUpdManagerCache, tasks>>
    BY <1>4 DEF OnReqLogin, OnReqLogout
  <2>5. QED
    BY <1>a, <1>f, <2>1, <2>2, <2>3, <2>4 DEF Accept, TypeOK, clientVars
<1>5. CASE OnKeepAlive \/ SkipCommand
  <2>1. Accept /\ UNCHANGED <<m_bUpdManagerCache, m_bLogin, session, out, tasks>>
    BY <1>5 DEF OnKeepAlive, SkipCommand
  <2>2. QED
    BY <1>a, <1>f, <2>1 DEF Accept, TypeOK, clientVars
<1>6. CASE SubmitTask
  <2>1. [cur EXCEPT !.sess = session[cur.user]] \in Msg
    BY <1>b, <1>c DEF Msg, TypeOK
  <2>2. tasks' \in Seq(Msg)
    BY <1>6, <2>1 DEF SubmitTask, TypeOK
  <2>3. m_bUpdManagerCache' \in BOOLEAN
    BY <1>6 DEF SubmitTask
  <2>4. QED
    BY <1>6, <1>a, <1>f, <2>2, <2>3 DEF SubmitTask, Accept, TypeOK, clientVars
<1>7. QED
  BY <1>1, <1>2, <1>3, <1>4, <1>5, <1>6 DEF OnMessage

(* The steps of a pool thread keep the types.                                *)
LEMMA TypeWorker ==
  ASSUME TypeOK, NEW w \in Workers, TakeTask(w) \/ RunTask(w)
  PROVE  TypeOK'
<1> DEFINE WorkerPc == {"idle", "db", "read", "reading", "store", "send"}
<1>1. CASE TakeTask(w)
  <2>1. Head(tasks) \in Msg /\ tasks' \in Seq(Msg)
    BY <1>1, HeadTailProperties DEF TakeTask, TypeOK
  <2>2. Head(tasks) # NoMsg
    BY <2>1, MsgFields
  <2>3. /\ wmsg' \in [Workers -> Msg \cup {NoMsg}] /\ wpc' \in [Workers -> WorkerPc]
        /\ \A v \in Workers : wpc'[v] # "idle" => wmsg'[v] # NoMsg
    BY <1>1, <2>1, <2>2 DEF TakeTask, TypeOK
  <2>4. QED
    BY <1>1, <2>1, <2>3 DEF TakeTask, TypeOK, cacheVars, sessionVars, pollVars,
                            clientVars
<1>2. CASE DbOperation(w)
  <2>1. wmsg[w] \in Msg
    BY <1>2 DEF DbOperation, TypeOK
  <2>2. wmsg[w].req \in Rows /\ NoRow \in Rows
    BY <2>1, MsgFields DEF Rows
  <2>3. db' \in [Users -> Rows]
    <3>1. PICK res \in {"ok", "err"} :
            \/ UNCHANGED db \/ InsertUsers(wmsg[w], res) \/ DeleteUsers(wmsg[w], res)
      BY <1>2 DEF DbOperation, KeepUsers
    <3>2. CASE InsertUsers(wmsg[w], res)
      BY <2>2, <3>2 DEF InsertUsers, TypeOK
    <3>3. CASE DeleteUsers(wmsg[w], res)
      <4>1. PICK gone \in SUBSET Users :
              db' = [u \in Users |-> IF u \in gone THEN NoRow ELSE db[u]]
        BY <3>3 DEF DeleteUsers
      <4>2. QED
        BY <2>2, <4>1 DEF TypeOK
    <3>4. QED
      BY <3>1, <3>2, <3>3 DEF TypeOK
  <2>4. told' \in [Users -> Rows]
    BY <1>2, <2>2 DEF DbOperation, TypeOK
  <2>5. hidden' \in SUBSET {"partial", "select"} /\ wres' \in [Workers -> {"ok", "err"}]
    BY <1>2 DEF DbOperation, TypeOK
  <2>6. /\ wpc' \in [Workers -> WorkerPc]
        /\ \A v \in Workers : wpc'[v] # "idle" => wmsg[v] # NoMsg
    BY <1>2 DEF DbOperation, TypeOK
  <2>7. QED
    BY <1>2, <2>3, <2>4, <2>5, <2>6 DEF DbOperation, TypeOK, sessionVars, pollVars,
                                        clientVars
<1>3. CASE BeginReadRouter(w)
  <2>1. wmsg[w].user \in Users
    BY <1>3, MsgFields DEF BeginReadRouter, TypeOK
  <2>2. wseen' \in [Workers -> SUBSET (Routers \cup {NoRouter})]
    BY <1>3, <2>1 DEF BeginReadRouter, TypeOK
  <2>3. /\ wpc' \in [Workers -> WorkerPc]
        /\ \A v \in Workers : wpc'[v] # "idle" => wmsg[v] # NoMsg
    BY <1>3 DEF BeginReadRouter, TypeOK
  <2>4. QED
    BY <1>3, <2>2, <2>3 DEF BeginReadRouter, TypeOK, cacheVars, sessionVars,
                            pollVars, clientVars
<1>4. CASE EndReadRouter(w)
  <2>1. wto' \in [Workers -> Routers \cup {NoRouter}]
    BY <1>4 DEF EndReadRouter, TypeOK
  <2>2. wsame' \in [Workers -> BOOLEAN]
    BY <1>4 DEF EndReadRouter, TypeOK
  <2>3. /\ wpc' \in [Workers -> WorkerPc]
        /\ \A v \in Workers : wpc'[v] # "idle" => wmsg[v] # NoMsg
    BY <1>4 DEF EndReadRouter, TypeOK
  <2>4. QED
    BY <1>4, <2>1, <2>2, <2>3 DEF EndReadRouter, TypeOK, cacheVars, sessionVars,
                                  pollVars, clientVars
<1>5. CASE StoreCacheBool(w)
  <2>1. m_bUpdManagerCache' \in BOOLEAN
    BY <1>5 DEF StoreCacheBool
  <2>2. /\ wpc' \in [Workers -> WorkerPc]
        /\ \A v \in Workers : wpc'[v] # "idle" => wmsg[v] # NoMsg
    BY <1>5 DEF StoreCacheBool, TypeOK
  <2>3. QED
    BY <1>5, <2>1, <2>2 DEF StoreCacheBool, TypeOK, sessionVars, pollVars, clientVars
<1>6. CASE SendRsp(w)
  <2>1. /\ wmsg[w] \in Msg /\ wto[w] \in Routers \cup {NoRouter} /\ wsame[w] \in BOOLEAN
    BY <1>6 DEF SendRsp, TypeOK
  <2>2. inproc' \in SUBSET Response
    BY <1>6, <2>1 DEF SendRsp, TypeOK, Response, Errors
  <2>3. /\ wpc' \in [Workers -> WorkerPc] /\ wmsg' \in [Workers -> Msg \cup {NoMsg}]
        /\ \A v \in Workers : wpc'[v] # "idle" => wmsg'[v] # NoMsg
    BY <1>6 DEF SendRsp, TypeOK
  <2>4. /\ wres' \in [Workers -> {"ok", "err"}]
        /\ wseen' \in [Workers -> SUBSET (Routers \cup {NoRouter})]
        /\ wto' \in [Workers -> Routers \cup {NoRouter}]
        /\ wsame' \in [Workers -> BOOLEAN]
    BY <1>6 DEF SendRsp, TypeOK
  <2>5. QED
    BY <1>6, <2>2, <2>3, <2>4 DEF SendRsp, TypeOK, cacheVars, sessionVars, pollVars,
                                  clientVars
<1>7. QED
  BY <1>1, <1>2, <1>3, <1>4, <1>5, <1>6 DEF RunTask

(* The type invariant is inductive.                                          *)
LEMMA TypeStep == TypeOK /\ [Next]_vars => TypeOK'
<1> SUFFICES ASSUME TypeOK, [Next]_vars PROVE TypeOK'
  OBVIOUS
<1>1. CASE UNCHANGED vars
  BY <1>1 DEF vars, TypeOK
<1>2. CASE PollFunc
  BY <1>2, TypePollLoop, TypeOnMessage DEF PollFunc
<1>3. QED
  BY <1>1, <1>2, TypeEnvironment, TypeWorker DEF Next

(* Type correctness of the service; in particular the poll thread holds a    *)
(* message exactly while it handles one, and a busy pool thread has a task.  *)
THEOREM TypeCorrect == Spec => []TypeOK
<1>1. QED
  BY TypeInit, TypeStep, PTL DEF Spec

-----------------------------------------------------------------------------
(* The cache of manager names                                               *)

(* A step that leaves the table, the cache and the history alone, takes no   *)
(* flag away and finishes no pending task keeps the cache property.          *)
LEMMA CacheUndisturbed ==
  ASSUME CacheStaleOnlyIfNoted, UNCHANGED <<db, m_setManagerCache, hidden>>,
         m_bUpdManagerCache => m_bUpdManagerCache', ppc # "select",
         \A w \in Workers : FlagPending(w) => FlagPending(w)'
  PROVE  CacheStaleOnlyIfNoted'
<1>1. Names' = Names
  BY DEF Names
<1>2. QED
  BY <1>1 DEF CacheStaleOnlyIfNoted

(* A step that leaves the pool threads alone keeps what they have pending.   *)
LEMMA PendingUnchanged ==
  ASSUME UNCHANGED <<wpc, wmsg, wres>>
  PROVE  \A w \in Workers : FlagPending(w) = FlagPending(w)'
  BY DEF FlagPending, StoresFlag

(* The steps of pollFunc: the flag is cleared only on the way to a select,   *)
(* and a select either gives the names of the table or is noted as failed.   *)
LEMMA CachePollFunc ==
  ASSUME TypeOK, CacheStaleOnlyIfNoted, PollFunc
  PROVE  CacheStaleOnlyIfNoted'
<1>1. CASE TestCacheFlag
  <2>1. Names' = Names /\ \A w \in Workers : FlagPending(w) = FlagPending(w)'
    BY <1>1, PendingUnchanged DEF TestCacheFlag, Names, workerVars
  <2>2. QED
    BY <1>1, <2>1 DEF TestCacheFlag, CacheStaleOnlyIfNoted
<1>2. CASE UpdManagerCache
  <2>1. Names' = Names
    BY <1>2 DEF UpdManagerCache, Names
  <2>2. m_setManagerCache' = Names \/ hidden' = {"select"}
    BY <1>2 DEF UpdManagerCache
  <2>3. QED
    BY <2>1, <2>2 DEF CacheStaleOnlyIfNoted
<1>3. CASE CheckTimer
  BY <1>3, CacheUndisturbed, PendingUnchanged DEF CheckTimer, cacheVars, workerVars
<1>4. CASE Poll
  BY <1>4, CacheUndisturbed, PendingUnchanged DEF Poll, cacheVars, workerVars
<1>5. CASE OnMessage
  <2>1. /\ UNCHANGED <<db, m_setManagerCache, hidden>> /\ ppc # "select"
        /\ m_bUpdManagerCache => m_bUpdManagerCache'
        /\ UNCHANGED <<wpc, wmsg, wres>>
    <3>1. CASE RejectUnknown \/ RejectNoLogin \/ RejectMultiLogin
      BY <3>1 DEF RejectUnknown, RejectNoLogin, RejectMultiLogin, EndOfMessage,
                  cacheVars, workerVars
    <3>2. CASE Accept /\ (UNCHANGED m_bUpdManagerCache \/ SubmitTask)
      <4>1. m_bUpdManagerCache => m_bUpdManagerCache'
        BY <3>2 DEF SubmitTask
      <4>2. QED
        BY <3>2, <4>1 DEF Accept, EndOfMessage
    <3>3. QED
      BY <1>5, <3>1, <3>2 DEF OnMessage, OnReqLogin, OnReqLogout, OnKeepAlive,
                              SubmitTask, SkipCommand
  <2>2. QED
    BY <2>1, CacheUndisturbed, PendingUnchanged
<1>6. QED
  BY <1>1, <1>2, <1>3, <1>4, <1>5 DEF PollFunc

(* The steps of a pool thread: a committed change of the table leaves the    *)
(* thread with the flag still to be set, and it sets it before it goes on.   *)
LEMMA CacheWorker ==
  ASSUME TypeOK, CacheStaleOnlyIfNoted, NEW w \in Workers, TakeTask(w) \/ RunTask(w)
  PROVE  CacheStaleOnlyIfNoted'
<1>1. CASE DbOperation(w)
  <2>1. ~FlagPending(w)
    BY <1>1 DEF DbOperation, FlagPending
  <2>2. \A v \in Workers \ {w} : FlagPending(v) = FlagPending(v)'
    BY <1>1 DEF DbOperation, FlagPending, StoresFlag, TypeOK
  <2>3. wpc'[w] = "read" /\ UNCHANGED <<wmsg, m_setManagerCache, m_bUpdManagerCache, ppc>>
    BY <1>1 DEF DbOperation, pollVars, TypeOK
  <2>4. PICK res \in {"ok", "err"} :
          /\ wres' = [wres EXCEPT ![w] = res]
          /\ \/ UNCHANGED db
             \/ /\ wmsg[w].ele = "ManageUser"
                /\ wmsg[w].cmd \in {"Insert", "Delete", "DelByCol"}
          /\ hidden' = IF res = "err" /\ db' # db THEN hidden \cup {"partial"} ELSE hidden
    BY <1>1 DEF DbOperation, KeepUsers
  <2>5. CASE UNCHANGED db
    <3>1. Names' = Names /\ hidden' = hidden
      BY <2>4, <2>5 DEF Names
    <3>2. QED
      BY <2>1, <2>2, <2>3, <3>1 DEF CacheStaleOnlyIfNoted
  <2>6. CASE db' # db /\ res = "ok"
    <3>1. FlagPending(w)'
      BY <2>3, <2>4, <2>6 DEF FlagPending, StoresFlag, TypeOK
    <3>2. QED
      BY <3>1 DEF CacheStaleOnlyIfNoted
  <2>7. CASE db' # db /\ res = "err"
    BY <2>4, <2>7 DEF CacheStaleOnlyIfNoted
  <2>8. QED
    BY <2>4, <2>5, <2>6, <2>7
<1>2. CASE StoreCacheBool(w)
  <2>1. Names' = Names
    BY <1>2 DEF StoreCacheBool, Names
  <2>2. \A v \in Workers \ {w} : FlagPending(v) = FlagPending(v)'
    BY <1>2 DEF StoreCacheBool, FlagPending, StoresFlag, TypeOK
  <2>3. FlagPending(w) => m_bUpdManagerCache'
    BY <1>2 DEF StoreCacheBool, FlagPending
  <2>4. m_bUpdManagerCache => m_bUpdManagerCache'
    BY <1>2 DEF StoreCacheBool
  <2>5. UNCHANGED <<m_setManagerCache, hidden, ppc>>
    BY <1>2 DEF StoreCacheBool, pollVars
  <2>6. QED
    BY <2>1, <2>2, <2>3, <2>4, <2>5 DEF CacheStaleOnlyIfNoted
<1>3. CASE TakeTask(w) \/ BeginReadRouter(w) \/ EndReadRouter(w) \/ SendRsp(w)
  <2>1. UNCHANGED <<db, m_setManagerCache, m_bUpdManagerCache, hidden, ppc>>
    BY <1>3 DEF TakeTask, BeginReadRouter, EndReadRouter, SendRsp, cacheVars, pollVars
  <2>2. \A v \in Workers : FlagPending(v) => FlagPending(v)'
    <3>1. CASE TakeTask(w)
      BY <3>1 DEF TakeTask, FlagPending, StoresFlag, TypeOK
    <3>2. CASE BeginReadRouter(w)
      BY <3>2 DEF BeginReadRouter, FlagPending, StoresFlag, TypeOK
    <3>3. CASE EndReadRouter(w)
      BY <3>3 DEF EndReadRouter, FlagPending, StoresFlag, TypeOK
    <3>4. CASE SendRsp(w)
      BY <3>4 DEF SendRsp, FlagPending, StoresFlag, TypeOK
    <3>5. QED
      BY <1>3, <3>1, <3>2, <3>3, <3>4
  <2>3. Names' = Names
    BY <2>1 DEF Names
  <2>4. QED
    BY <2>1, <2>2, <2>3 DEF CacheStaleOnlyIfNoted
<1>4. QED
  BY <1>1, <1>2, <1>3 DEF RunTask

(* The names in the cache differ from those of the table only while a        *)
(* refresh is under way or after one of the two failures the code does not   *)
(* note: no interleaving of clearing the flag, selecting, committing and     *)
(* setting the flag loses a change of ManageUser (cpp 55-58, h 210-259).     *)
THEOREM NoLostRefresh == Spec => []CacheStaleOnlyIfNoted
<1>1. Init => CacheStaleOnlyIfNoted
  BY DEF Init, CacheStaleOnlyIfNoted
<1>2. TypeOK /\ CacheStaleOnlyIfNoted /\ [Next]_vars => CacheStaleOnlyIfNoted'
  <2> SUFFICES ASSUME TypeOK, CacheStaleOnlyIfNoted, [Next]_vars
               PROVE  CacheStaleOnlyIfNoted'
    OBVIOUS
  <2>1. CASE UNCHANGED <<cacheVars, ppc, workerVars>>
    <3>1. Names' = Names /\ \A w \in Workers : FlagPending(w) = FlagPending(w)'
      BY <2>1, PendingUnchanged DEF Names, cacheVars, workerVars
    <3>2. QED
      BY <2>1, <3>1 DEF CacheStaleOnlyIfNoted, cacheVars
  <2>2. CASE (\E q \in Requests : ClientSend(q)) \/ (\E u \in Users : MinutePasses(u))
             \/ TimerExpires \/ UNCHANGED vars
    BY <2>1, <2>2 DEF ClientSend, MinutePasses, TimerExpires, vars, cacheVars,
                      pollVars, workerVars
  <2>3. QED
    BY <2>2, CachePollFunc, CacheWorker DEF Next
<1>3. QED
  BY <1>1, <1>2, TypeCorrect, PTL DEF Spec

-----------------------------------------------------------------------------
(* Sessions and the addressee of a response                                 *)

\* The session in which request m was accepted is over, or m came from the
\* connection that owns it.
InSession(m) ==
  /\ m.sess =< session[m.user]
  /\ m.sess = session[m.user] =>
       m_bLogin[m.user] /\ m_strRouter[m.user] = m.router

\* A user that is logged in has a DispatcherClient.
LoggedInKnown == \A u \in Users : m_bLogin[u] => u \in m_mapClients

TasksInSession == \A i \in 1 .. Len(tasks) : InSession(tasks[i])

WorkersInSession ==
  \A w \in Workers : wpc[w] \in {"db", "read", "reading"} => InSession(wmsg[w])

\* A read that overlaps an assignment of m_strRouter sees one id all the same
\* as long as the session lasts ...
ReadingOwnRouter ==
  \A w \in Workers :
    wpc[w] = "reading" /\ wmsg[w].sess = session[wmsg[w].user] =>
      wseen[w] = {wmsg[w].router}

\* ... and gives the id of the connection that sent the request.
ReadOwnRouter ==
  \A w \in Workers :
    wpc[w] \in {"store", "send"} /\ wsame[w] => wto[w] = wmsg[w].router

(* The inductive invariant behind ResponseToRequester.                       *)
SessionInv ==
  /\ LoggedInKnown
  /\ TasksInSession
  /\ WorkersInSession
  /\ ReadingOwnRouter
  /\ ReadOwnRouter
  /\ ResponseToRequester

(* What any step does to the session of a user: either the session counter   *)
(* moves on, or the user stays logged in or out and, if logged in, keeps its *)
(* router id.                                                                *)
LEMMA SessionStable ==
  ASSUME TypeOK, [Next]_vars, NEW u \in Users
  PROVE  \/ session'[u] = session[u] + 1
         \/ /\ session'[u] = session[u] /\ m_bLogin'[u] = m_bLogin[u]
            /\ m_bLogin[u] => m_strRouter'[u] = m_strRouter[u]
<1>a. ASSUME CountSessions
      PROVE  \/ session'[u] = session[u] + 1
             \/ session'[u] = session[u] /\ m_bLogin'[u] = m_bLogin[u]
  BY <1>a DEF CountSessions
<1>b. ASSUME Accept, m_bLogin[u] PROVE m_strRouter'[u] = m_strRouter[u]
  BY <1>b DEF Accept, TypeOK
<1>1. CASE CheckTimer
  BY <1>1, <1>a DEF CheckTimer, KatimeHandle
<1>2. CASE OnReqLogin \/ OnReqLogout
  BY <1>2, <1>a, <1>b DEF OnReqLogin, OnReqLogout
<1>3. CASE OnKeepAlive \/ SubmitTask \/ SkipCommand
  BY <1>3, <1>b DEF OnKeepAlive, SubmitTask, SkipCommand
<1>4. CASE UNCHANGED <<m_bLogin, m_strRouter, session>>
  BY <1>4
<1>5. CASE RejectUnknown \/ RejectNoLogin \/ RejectMultiLogin
  BY <1>4, <1>5 DEF RejectUnknown, RejectNoLogin, RejectMultiLogin, sessionVars
<1>6. CASE TestCacheFlag \/ UpdManagerCache \/ Poll \/ TimerExpires \/ UNCHANGED vars
  BY <1>4, <1>6 DEF TestCacheFlag, UpdManagerCache, Poll, TimerExpires, vars,
                    sessionVars
<1>7. CASE (\E q \in Requests : ClientSend(q)) \/ \E v \in Users : MinutePasses(v)
  BY <1>4, <1>7 DEF ClientSend, MinutePasses, sessionVars
<1>8. CASE \E w \in Workers : TakeTask(w) \/ RunTask(w)
  BY <1>4, <1>8 DEF TakeTask, RunTask, DbOperation, BeginReadRouter, EndReadRouter,
                    StoreCacheBool, SendRsp, sessionVars
<1>9. QED
  BY <1>1, <1>2, <1>3, <1>5, <1>6, <1>7, <1>8 DEF Next, PollFunc, OnMessage

(* A user that is logged in keeps its DispatcherClient.                      *)
LEMMA LoggedInKnownStep ==
  ASSUME TypeOK, LoggedInKnown, [Next]_vars
  PROVE  LoggedInKnown'
<1>1. m_mapClients \subseteq m_mapClients'
  <2>1. CASE OnMessage
    BY <2>1 DEF OnMessage, RejectUnknown, RejectNoLogin, RejectMultiLogin,
                FindClient, OnReqLogin, OnReqLogout, OnKeepAlive, SubmitTask,
                SkipCommand, Accept, sessionVars
  <2>2. CASE UNCHANGED m_mapClients
    BY <2>2
  <2>3. CASE TestCacheFlag \/ UpdManagerCache \/ CheckTimer \/ Poll
             \/ TimerExpires \/ UNCHANGED vars
    BY <2>2, <2>3 DEF TestCacheFlag, UpdManagerCache, CheckTimer, Poll,
                      TimerExpires, vars, sessionVars
  <2>4. CASE (\E q \in Requests : ClientSend(q)) \/ \E v \in Users : MinutePasses(v)
    BY <2>2, <2>4 DEF ClientSend, MinutePasses, sessionVars
  <2>5. CASE \E w \in Workers : TakeTask(w) \/ RunTask(w)
    BY <2>2, <2>5 DEF TakeTask, RunTask, DbOperation, BeginReadRouter,
                      EndReadRouter, StoreCacheBool, SendRsp, sessionVars
  <2>6. QED
    BY <2>1, <2>3, <2>4, <2>5 DEF Next, PollFunc
<1>2. ASSUME NEW u \in Users, m_bLogin'[u], ~m_bLogin[u] PROVE u \in m_mapClients'
  <2>1. CASE OnReqLogin
    BY <1>2, <2>1 DEF OnReqLogin, Accept, TypeOK
  <2>2. CASE OnReqLogout
    BY <1>2, <2>2 DEF OnReqLogout, TypeOK
  <2>3. CASE CheckTimer
    BY <1>2, <2>3 DEF CheckTimer, KatimeHandle, TypeOK
  <2>4. CASE UNCHANGED m_bLogin
    BY <1>2, <2>4
  <2>5. CASE RejectUnknown \/ RejectNoLogin \/ RejectMultiLogin \/ OnKeepAlive
             \/ SubmitTask \/ SkipCommand
    BY <2>4, <2>5 DEF RejectUnknown, RejectNoLogin, RejectMultiLogin, OnKeepAlive,
                      SubmitTask, SkipCommand, sessionVars
  <2>6. CASE TestCacheFlag \/ UpdManagerCache \/ Poll \/ TimerExpires \/ UNCHANGED vars
    BY <2>4, <2>6 DEF TestCacheFlag, UpdManagerCache, Poll, TimerExpires, vars,
                      sessionVars
  <2>7. CASE (\E q \in Requests : ClientSend(q)) \/ \E v \in Users : MinutePasses(v)
    BY <2>4, <2>7 DEF ClientSend, MinutePasses, sessionVars
  <2>8. CASE \E w \in Workers : TakeTask(w) \/ RunTask(w)
    BY <2>4, <2>8 DEF TakeTask, RunTask, DbOperation, BeginReadRouter,
                      EndReadRouter, StoreCacheBool, SendRsp, sessionVars
  <2>9. QED
    BY <2>1, <2>2, <2>3, <2>5, <2>6, <2>7, <2>8 DEF Next, PollFunc, OnMessage
<1>3. QED
  BY <1>1, <1>2 DEF LoggedInKnown

(* No step takes a request out of InSession.                                 *)
LEMMA InSessionKept ==
  ASSUME TypeOK, [Next]_vars
  PROVE  \A m \in Msg : InSession(m) => InSession(m)'
<1> SUFFICES ASSUME NEW m \in Msg, InSession(m) PROVE InSession(m)'
  OBVIOUS
<1>1. m.user \in Users /\ m.sess \in Nat /\ session[m.user] \in Nat
  BY MsgFields DEF TypeOK
<1>2. \/ session'[m.user] = session[m.user] + 1
      \/ /\ session'[m.user] = session[m.user] /\ m_bLogin'[m.user] = m_bLogin[m.user]
         /\ m_bLogin[m.user] => m_strRouter'[m.user] = m_strRouter[m.user]
  BY <1>1, SessionStable
<1>3. QED
  BY <1>1, <1>2 DEF InSession

(* How the queue of tasks and the pool threads can change in a step.         *)
LEMMA TasksChange ==
  ASSUME [Next]_vars
  PROVE  \/ SubmitTask
         \/ \E w \in Workers : TakeTask(w)
         \/ UNCHANGED tasks
<1>1. CASE (\E q \in Requests : ClientSend(q)) \/ \E v \in Users : MinutePasses(v)
  BY <1>1 DEF ClientSend, MinutePasses
<1>2. CASE TestCacheFlag \/ UpdManagerCache \/ CheckTimer \/ Poll \/ TimerExpires
           \/ UNCHANGED vars
  BY <1>2 DEF TestCacheFlag, UpdManagerCache, CheckTimer, Poll, TimerExpires, vars
<1>3. CASE RejectUnknown \/ RejectNoLogin \/ RejectMultiLogin \/ OnReqLogin
           \/ OnReqLogout \/ OnKeepAlive \/ SkipCommand
  BY <1>3 DEF RejectUnknown, RejectNoLogin, RejectMultiLogin, OnReqLogin,
              OnReqLogout, OnKeepAlive, SkipCommand
<1>4. CASE \E w \in Workers : RunTask(w)
  BY <1>4 DEF RunTask, DbOperation, BeginReadRouter, EndReadRouter,
              StoreCacheBool, SendRsp
<1>5. QED
  BY <1>1, <1>2, <1>3, <1>4 DEF Next, PollFunc, OnMessage

(* Every queued request is in session: it is accepted from the connection    *)
(* the user is logged in from, and no step ends that without a new session.  *)
LEMMA TasksInSessionStep ==
  ASSUME TypeOK, TasksInSession, [Next]_vars
  PROVE  TasksInSession'
<1>a. tasks \in Seq(Msg)
  BY DEF TypeOK
<1>1. CASE UNCHANGED tasks
  <2>1. ASSUME NEW i \in 1 .. Len(tasks) PROVE tasks[i] \in Msg /\ InSession(tasks[i])
    BY <1>a DEF TasksInSession
  <2>2. QED
    BY <1>1, <2>1, InSessionKept DEF TasksInSession, InSession
<1>2. CASE SubmitTask
  <2> DEFINE new == [cur EXCEPT !.sess = session[cur.user]]
  <2>1. /\ cur \in Msg /\ cur.cmd \in DbCmds
        /\ Accept /\ UNCHANGED <<m_bLogin, session>>
        /\ tasks' = Append(tasks, new)
    BY <1>2 DEF SubmitTask, Accept, EndOfMessage, TypeOK
  <2>2. cur.user \in Users /\ cur.cmd \notin {"Login", "KeepAlive"}
    BY <2>1, MsgFields DEF DbCmds
  <2>3. /\ m_bLogin'[cur.user] /\ m_strRouter'[cur.user] = cur.router
        /\ session[cur.user] \in Nat
    BY <2>1, <2>2 DEF Accept, TypeOK
  <2>4. new.sess = session'[cur.user] /\ new.user = cur.user /\ new.router = cur.router
    BY <2>1 DEF Msg
  <2>5. ASSUME NEW i \in 1 .. Len(tasks) PROVE tasks[i] \in Msg /\ InSession(tasks[i])
    BY <1>a DEF TasksInSession
  <2>6. ASSUME NEW i \in 1 .. Len(tasks') PROVE InSession(tasks[i])'
    <3>1. CASE i \in 1 .. Len(tasks)
      BY <1>a, <2>1, <2>5, <3>1, InSessionKept DEF InSession
    <3>2. CASE i = Len(tasks) + 1
      BY <1>a, <2>1, <2>3, <2>4, <3>2 DEF InSession
    <3>3. QED
      BY <1>a, <2>1, <3>1, <3>2
  <2>7. QED
    BY <2>6 DEF TasksInSession
<1>3. CASE \E w \in Workers : TakeTask(w)
  <2>1. tasks # <<>> /\ tasks' = Tail(tasks)
    BY <1>3 DEF TakeTask
  <2>2. ASSUME NEW i \in 1 .. Len(tasks)
        PROVE  tasks[i] \in Msg /\ InSession(tasks[i])
    BY <1>a DEF TasksInSession
  <2>3. /\ Len(tasks') = Len(tasks) - 1
        /\ \A i \in 1 .. Len(tasks') : i + 1 \in 1 .. Len(tasks) /\ tasks'[i] = tasks[i + 1]
    BY <1>a, <2>1, HeadTailProperties
  <2>4. ASSUME NEW i \in 1 .. Len(tasks') PROVE InSession(tasks[i])'
    <3>1. i + 1 \in 1 .. Len(tasks) /\ tasks'[i] = tasks[i + 1]
      BY <2>3
    <3>2. tasks[i + 1] \in Msg /\ InSession(tasks[i + 1])
      BY <2>2, <3>1
    <3>3. QED
      BY <3>1, <3>2, InSessionKept DEF InSession
  <2>5. QED
    BY <2>4 DEF TasksInSession
<1>4. QED
  BY <1>1, <1>2, <1>3, TasksChange

(* Whatever is not a step of pool thread w leaves its task and its place in  *)
(* the task alone; only Accept adds to the router ids that a read sees.      *)
LEMMA WorkersChange ==
  ASSUME [Next]_vars
  PROVE  \/ \E w \in Workers : TakeTask(w) \/ RunTask(w)
         \/ UNCHANGED <<wpc, wmsg, wto, wsame>> /\ (UNCHANGED wseen \/ Accept)
<1>1. CASE (\E q \in Requests : ClientSend(q)) \/ \E v \in Users : MinutePasses(v)
  BY <1>1 DEF ClientSend, MinutePasses, workerVars
<1>2. CASE TestCacheFlag \/ UpdManagerCache \/ CheckTimer \/ Poll \/ TimerExpires
           \/ UNCHANGED vars
  BY <1>2 DEF TestCacheFlag, UpdManagerCache, CheckTimer, Poll, TimerExpires, vars,
              workerVars
<1>3. CASE RejectUnknown \/ RejectNoLogin \/ RejectMultiLogin
  BY <1>3 DEF RejectUnknown, RejectNoLogin, RejectMultiLogin, workerVars
<1>4. CASE OnReqLogin \/ OnReqLogout \/ OnKeepAlive \/ SubmitTask \/ SkipCommand
  <2>1. Accept
    BY <1>4 DEF OnReqLogin, OnReqLogout, OnKeepAlive, SubmitTask, SkipCommand
  <2>2. QED
    BY <2>1 DEF Accept
<1>5. QED
  BY <1>1, <1>2, <1>3, <1>4 DEF Next, PollFunc, OnMessage

(* What a step of pool thread w does to its own place in the task, and that  *)
(* it leaves the other threads alone.                                        *)
LEMMA WorkerStep ==
  ASSUME TypeOK, NEW w \in Workers, TakeTask(w) \/ RunTask(w)
  PROVE  /\ \A v \in Workers \ {w} :
              /\ wpc'[v] = wpc[v] /\ wmsg'[v] = wmsg[v] /\ wto'[v] = wto[v]
              /\ wsame'[v] = wsame[v] /\ wseen'[v] = wseen[v]
         /\ \/ TakeTask(w) /\ wpc'[w] = "db" /\ wmsg'[w] = Head(tasks)
            \/ wpc[w] = "db" /\ wpc'[w] = "read" /\ wmsg'[w] = wmsg[w]
            \/ BeginReadRouter(w) /\ wpc'[w] = "reading" /\ wmsg'[w] = wmsg[w]
            \/ EndReadRouter(w) /\ wpc'[w] = "store" /\ wmsg'[w] = wmsg[w]
            \/ /\ wpc[w] = "store" /\ wpc'[w] = "send" /\ wmsg'[w] = wmsg[w]
               /\ wsame'[w] = wsame[w] /\ wto'[w] = wto[w]
            \/ wpc'[w] = "idle"
<1>1. CASE TakeTask(w)
  BY <1>1 DEF TakeTask, TypeOK
<1>2. CASE DbOperation(w)
  BY <1>2 DEF DbOperation, TypeOK
<1>3. CASE BeginReadRouter(w)
  BY <1>3 DEF BeginReadRouter, TypeOK
<1>4. CASE EndReadRouter(w)
  BY <1>4 DEF EndReadRouter, TypeOK
<1>5. CASE StoreCacheBool(w)
  BY <1>5 DEF StoreCacheBool, TypeOK
<1>6. CASE SendRsp(w)
  BY <1>6 DEF SendRsp, TypeOK
<1>7. QED
  BY <1>1, <1>2, <1>3, <1>4, <1>5, <1>6 DEF RunTask

(* A pool thread's request stays in session until its router id is read.     *)
LEMMA WorkersInSessionStep ==
  ASSUME TypeOK, TasksInSession, WorkersInSession, [Next]_vars
  PROVE  WorkersInSession'
<1> DEFINE Busy == {"db", "read", "reading"}
<1>a. ASSUME NEW v \in Workers, wpc[v] \in Busy
      PROVE  wmsg[v] \in Msg /\ InSession(wmsg[v])
  BY <1>a DEF TypeOK, WorkersInSession
<1>b. ASSUME NEW v \in Workers, wpc[v] \in Busy, wmsg'[v] = wmsg[v]
      PROVE  InSession(wmsg[v])'
  BY <1>a, <1>b, InSessionKept DEF InSession
<1>1. CASE \E w \in Workers : TakeTask(w) \/ RunTask(w)
  <2> PICK w \in Workers : TakeTask(w) \/ RunTask(w)
    BY <1>1
  <2>1. ASSUME NEW v \in Workers \ {w}, wpc'[v] \in Busy PROVE InSession(wmsg[v])'
    BY <1>b, <2>1, WorkerStep
  <2>2. ASSUME wpc'[w] \in Busy PROVE InSession(wmsg[w])'
    <3>1. CASE TakeTask(w)
      <4>1. tasks \in Seq(Msg) /\ tasks # <<>> /\ wmsg'[w] = Head(tasks)
        BY <3>1 DEF TakeTask, TypeOK
      <4>2. 1 \in 1 .. Len(tasks) /\ Head(tasks) = tasks[1] /\ tasks[1] \in Msg
        BY <4>1, EmptySeq
      <4>3. InSession(tasks[1])
        BY <4>2 DEF TasksInSession
      <4>4. QED
        BY <4>1, <4>2, <4>3, InSessionKept DEF InSession
    <3>2. CASE wpc[w] = "db" /\ wmsg'[w] = wmsg[w]
      BY <1>b, <3>2
    <3>3. CASE BeginReadRouter(w) /\ wmsg'[w] = wmsg[w]
      BY <1>b, <3>3 DEF BeginReadRouter
    <3>4. QED
      BY <2>2, <3>1, <3>2, <3>3, WorkerStep
  <2>3. QED
    BY <2>1, <2>2 DEF WorkersInSession
<1>2. CASE UNCHANGED <<wpc, wmsg>>
  <2>1. ASSUME NEW v \in Workers, wpc'[v] \in Busy PROVE InSession(wmsg[v])'
    BY <1>2, <1>b, <2>1
  <2>2. QED
    BY <2>1 DEF WorkersInSession
<1>3. QED
  BY <1>1, <1>2, WorkersChange

(* A read of m_strRouter that overlaps an Accept of the same user sees the   *)
(* requester's router id only, as long as the session lasts.                 *)
LEMMA ReadingOwnRouterStep ==
  ASSUME TypeOK, WorkersInSession, ReadingOwnRouter, [Next]_vars
  PROVE  ReadingOwnRouter'
<1> SUFFICES ASSUME NEW v \in Workers, wpc'[v] = "reading",
                    wmsg'[v].sess = session'[wmsg'[v].user]
             PROVE  wseen'[v] = {wmsg'[v].router}
  BY DEF ReadingOwnRouter
<1> DEFINE m == wmsg[v]
<1>a. ASSUME wpc[v] \in {"read", "reading"}
      PROVE  /\ m.user \in Users /\ m.sess \in Nat /\ session[m.user] \in Nat
             /\ InSession(m)
  BY <1>a, MsgFields DEF TypeOK, WorkersInSession
<1>b. ASSUME wpc[v] \in {"read", "reading"}, wmsg'[v] = wmsg[v]
      PROVE  m.sess = session[m.user] /\ m_bLogin[m.user] /\ m_strRouter[m.user] = m.router
  <2>1. session'[m.user] = session[m.user] \/ session'[m.user] = session[m.user] + 1
    BY <1>a, <1>b, SessionStable
  <2>2. m.sess = session[m.user]
    BY <1>a, <1>b, <2>1 DEF InSession
  <2>3. QED
    BY <1>a, <1>b, <2>2 DEF InSession
<1>1. CASE \E w \in Workers : TakeTask(w) \/ RunTask(w)
  <2> PICK w \in Workers : TakeTask(w) \/ RunTask(w)
    BY <1>1
  <2>1. CASE v # w
    <3>1. wpc[v] = "reading" /\ wmsg'[v] = wmsg[v] /\ wseen'[v] = wseen[v]
      BY <2>1, WorkerStep
    <3>2. QED
      BY <1>b, <3>1 DEF ReadingOwnRouter
  <2>2. CASE v = w
    <3>1. BeginReadRouter(v) /\ wmsg'[v] = wmsg[v]
      BY <2>2, WorkerStep
    <3>2. wpc[v] = "read" /\ wseen'[v] = {m_strRouter[m.user]}
      BY <3>1 DEF BeginReadRouter, TypeOK
    <3>3. QED
      BY <1>b, <3>1, <3>2
  <2>3. QED
    BY <2>1, <2>2
<1>2. CASE UNCHANGED <<wpc, wmsg>> /\ (UNCHANGED wseen \/ Accept)
  <2>1. wseen[v] = {m.router} /\ m_bLogin[m.user] /\ m_strRouter[m.user] = m.router
    BY <1>b, <1>2 DEF ReadingOwnRouter
  <2>2. CASE UNCHANGED wseen
    BY <1>2, <2>1, <2>2
  <2>3. CASE Accept
    <3>1. wseen'[v] = wseen[v] \/ (cur.user = m.user /\ wseen'[v] = wseen[v] \cup {cur.router})
      BY <2>3 DEF Accept, TypeOK
    <3>2. cur.user = m.user => cur.router = m.router
      BY <2>1, <2>3 DEF Accept
    <3>3. QED
      BY <1>2, <2>1, <3>1, <3>2
  <2>4. QED
    BY <1>2, <2>2, <2>3
<1>3. QED
  BY <1>1, <1>2, WorkersChange

(* The router id a pool thread has read is the requester's, if the session   *)
(* still lasted then.                                                        *)
LEMMA ReadOwnRouterStep ==
  ASSUME TypeOK, ReadingOwnRouter, ReadOwnRouter, [Next]_vars
  PROVE  ReadOwnRouter'
<1> SUFFICES ASSUME NEW v \in Workers, wpc'[v] \in {"store", "send"}, wsame'[v]
             PROVE  wto'[v] = wmsg'[v].router
  BY DEF ReadOwnRouter
<1>1. CASE \E w \in Workers : TakeTask(w) \/ RunTask(w)
  <2> PICK w \in Workers : TakeTask(w) \/ RunTask(w)
    BY <1>1
  <2>1. CASE v # w
    BY <2>1, WorkerStep DEF ReadOwnRouter
  <2>2. CASE v = w
    <3>1. CASE EndReadRouter(v) /\ wmsg'[v] = wmsg[v]
      <4>1. wpc[v] = "reading" /\ wsame'[v] = (wmsg[v].sess = session[wmsg[v].user])
        BY <3>1 DEF EndReadRouter, TypeOK
      <4>2. wseen[v] = {wmsg[v].router}
        BY <4>1 DEF ReadingOwnRouter
      <4>3. PICK r : /\ r \in wseen[v] \/ (\E a, b \in wseen[v] : a # b)
                     /\ wto' = [wto EXCEPT ![v] = r]
        BY <3>1 DEF EndReadRouter
      <4>4. wto'[v] = wmsg[v].router
        BY <4>2, <4>3 DEF TypeOK
      <4>5. QED
        BY <3>1, <4>4
    <3>2. CASE /\ wpc[v] = "store" /\ wmsg'[v] = wmsg[v] /\ wsame'[v] = wsame[v]
               /\ wto'[v] = wto[v]
      BY <3>2 DEF ReadOwnRouter
    <3>3. QED
      BY <2>2, <3>1, <3>2, WorkerStep
  <2>3. QED
    BY <2>1, <2>2
<1>2. CASE UNCHANGED <<wpc, wmsg, wto, wsame>>
  BY <1>2 DEF ReadOwnRouter
<1>3. QED
  BY <1>1, <1>2, WorkersChange

(* Every response that is made is addressed to the requester or belongs to a *)
(* session that was over.                                                    *)
LEMMA ResponseStep ==
  ASSUME TypeOK, ReadOwnRouter, ResponseToRequester, [Next]_vars
  PROVE  ResponseToRequester'
<1> DEFINE Responses == inproc \cup out
<1>a. ASSUME NEW p, Responses' \subseteq Responses \cup {p},
             p.same => p.to = p.m.router
      PROVE  ResponseToRequester'
  BY <1>a DEF ResponseToRequester
<1>b. ASSUME Responses' \subseteq Responses PROVE ResponseToRequester'
  BY <1>b DEF ResponseToRequester
<1>1. ASSUME NEW err, Reply(err), UNCHANGED inproc PROVE ResponseToRequester'
  <2> DEFINE p == [m |-> cur, to |-> cur.router, err |-> err, same |-> TRUE]
  <2>1. Responses' \subseteq Responses \cup {p} /\ p.to = p.m.router
    BY <1>1 DEF Reply
  <2>2. QED
    BY <1>a, <2>1
<1>2. ASSUME NEW w \in Workers, SendRsp(w) PROVE ResponseToRequester'
  <2> DEFINE p == [m |-> wmsg[w], to |-> wto[w],
                   err |-> IF wres[w] = "ok" THEN "Success" ELSE "DbError",
                   same |-> wsame[w]]
  <2>1. Responses' \subseteq Responses \cup {p} /\ wpc[w] = "send"
    BY <1>2 DEF SendRsp
  <2>2. p.same => p.to = p.m.router
    BY <2>1 DEF ReadOwnRouter
  <2>3. QED
    BY <1>a, <2>1, <2>2
<1>3. CASE Poll
  BY <1>3, <1>b DEF Poll
<1>4. CASE UNCHANGED <<inproc, out>>
  BY <1>4, <1>b
<1>5. CASE RejectUnknown \/ RejectNoLogin \/ RejectMultiLogin \/ OnReqLogin \/ OnReqLogout
  BY <1>1, <1>5 DEF RejectUnknown, RejectNoLogin, RejectMultiLogin, OnReqLogin,
                    OnReqLogout, Accept
<1>6. CASE OnKeepAlive \/ SubmitTask \/ SkipCommand
  BY <1>4, <1>6 DEF OnKeepAlive, SubmitTask, SkipCommand, Accept
<1>7. CASE TestCacheFlag \/ UpdManagerCache \/ CheckTimer \/ TimerExpires \/ UNCHANGED vars
  BY <1>4, <1>7 DEF TestCacheFlag, UpdManagerCache, CheckTimer, TimerExpires, vars
<1>8. CASE (\E q \in Requests : ClientSend(q)) \/ \E v \in Users : MinutePasses(v)
  BY <1>4, <1>8 DEF ClientSend, MinutePasses
<1>9. ASSUME NEW w \in Workers, TakeTask(w) \/ RunTask(w) PROVE ResponseToRequester'
  <2>1. CASE TakeTask(w) \/ DbOperation(w) \/ BeginReadRouter(w) \/ EndReadRouter(w)
             \/ StoreCacheBool(w)
    BY <1>4, <2>1 DEF TakeTask, DbOperation, BeginReadRouter, EndReadRouter,
                      StoreCacheBool
  <2>2. QED
    BY <1>2, <1>9, <2>1 DEF RunTask
<1>10. QED
  BY <1>3, <1>5, <1>6, <1>7, <1>8, <1>9 DEF Next, PollFunc, OnMessage

(* The session invariant holds in every reachable state.                     *)
LEMMA SessionInvHolds == Spec => [](TypeOK /\ SessionInv)
<1>1. Init => SessionInv
  BY DEF Init, SessionInv, LoggedInKnown, TasksInSession, WorkersInSession,
         ReadingOwnRouter, ReadOwnRouter, ResponseToRequester
<1>2. TypeOK /\ SessionInv /\ [Next]_vars => SessionInv'
  BY LoggedInKnownStep, TasksInSessionStep, WorkersInSessionStep,
     ReadingOwnRouterStep, ReadOwnRouterStep, ResponseStep DEF SessionInv
<1>3. QED
  BY <1>1, <1>2, TypeCorrect, PTL DEF Spec

(* A response goes to the connection that sent the request unless the user's *)
(* session ended in between: the unlocked read of client->m_strRouter in the *)
(* pool threads is harmless exactly because a logged-in user's id is only    *)
(* ever overwritten by itself (h 213-215, cpp 159-178).                      *)
THEOREM ResponsesReachRequesters == Spec => []ResponseToRequester
<1>1. SessionInv => ResponseToRequester
  BY DEF SessionInv
<1>2. QED
  BY <1>1, SessionInvHolds, PTL

(* Only the connection a user logged in from, or the keep-alive timer after  *)
(* a minute of silence, changes the session of a logged-in user.             *)
THEOREM SessionsAreOwned == Spec => SessionOwned
<1> DEFINE Owned(u) ==
       m_bLogin[u] =>
         /\ m_strRouter'[u] = m_strRouter[u]
         /\ (recentRead'[u] /\ ~recentRead[u]) => cur.router = m_strRouter[u]
         /\ ~m_bLogin'[u] => \/ ppc = "timer" /\ ~recentRead[u]
                             \/ ppc = "recv" /\ cur.router = m_strRouter[u]
<1>1. TypeOK /\ SessionInv /\ [Next]_vars => \A u \in Users : Owned(u)
  <2> SUFFICES ASSUME TypeOK, SessionInv, [Next]_vars, NEW u \in Users, m_bLogin[u]
               PROVE  Owned(u)
    OBVIOUS
  <2>a. u \in m_mapClients
    BY DEF SessionInv, LoggedInKnown
  <2>1. CASE UNCHANGED sessionVars
    BY <2>1 DEF sessionVars
  <2>2. ASSUME Accept PROVE /\ m_strRouter'[u] = m_strRouter[u] /\ ppc = "recv"
                            /\ cur.user = u => cur.router = m_strRouter[u]
                            /\ cur.user # u => recentRead'[u] = recentRead[u]
    BY <2>2 DEF Accept, EndOfMessage, TypeOK
  <2>3. CASE OnReqLogin \/ OnReqLogout
    <3>1. cur.user # u => m_bLogin'[u]
      BY <2>3 DEF OnReqLogin, OnReqLogout, TypeOK
    <3>2. QED
      BY <2>2, <2>3, <3>1 DEF OnReqLogin, OnReqLogout
  <2>4. CASE OnKeepAlive \/ SubmitTask \/ SkipCommand
    BY <2>2, <2>4 DEF OnKeepAlive, SubmitTask, SkipCommand
  <2>5. CASE RejectNoLogin \/ RejectMultiLogin
    <3>1. recentRead'[u] = recentRead[u]
      BY <2>5, <2>a DEF RejectNoLogin, RejectMultiLogin, FindClient, TypeOK
    <3>2. QED
      BY <2>5, <3>1 DEF RejectNoLogin, RejectMultiLogin
  <2>6. CASE CheckTimer
    <3>1. ~m_bLogin'[u] => ~recentRead[u]
      BY <2>6 DEF CheckTimer, KatimeHandle
    <3>2. QED
      BY <2>6, <3>1 DEF CheckTimer
  <2>7. CASE \E v \in Users : MinutePasses(v)
    BY <2>7 DEF MinutePasses, TypeOK
  <2>8. CASE RejectUnknown \/ TestCacheFlag \/ UpdManagerCache \/ Poll \/ TimerExpires
             \/ UNCHANGED vars
    BY <2>1, <2>8 DEF RejectUnknown, TestCacheFlag, UpdManagerCache, Poll,
                      TimerExpires, vars, sessionVars
  <2>9. CASE (\E q \in Requests : ClientSend(q)) \/ \E w \in Workers : TakeTask(w) \/ RunTask(w)
    BY <2>1, <2>9 DEF ClientSend, TakeTask, RunTask, DbOperation, BeginReadRouter,
                      EndReadRouter, StoreCacheBool, SendRsp
  <2>10. QED
    BY <2>3, <2>4, <2>5, <2>6, <2>7, <2>8, <2>9 DEF Next, PollFunc, OnMessage
<1>2. QED
  BY <1>1, SessionInvHolds, PTL DEF Spec, SessionOwned
-----------------------------------------------------------------------------
(* One answer for a request                                                 *)

\* The ids of the requests at each stage of their way through the service: in
\* the bound socket, in the hands of the poll thread, queued for the pool, on a
\* pool thread, answered.
TcpIds == {n \in Nat : \E r \in Routers : \E i \in 1 .. Len(tcp[r]) : tcp[r][i].req = n}
CurIds == {n \in Nat : ppc = "recv" /\ cur.req = n}
TaskIds == {n \in Nat : \E i \in 1 .. Len(tasks) : tasks[i].req = n}
WorkIds == {n \in Nat : \E w \in Workers : wpc[w] # "idle" /\ wmsg[w].req = n}
RspIds == {n \in Nat : \E p \in inproc \cup out : p.m.req = n}

\* A request is at one stage.
StagesApart ==
  /\ TcpIds \cap (CurIds \cup TaskIds \cup WorkIds \cup RspIds) = {}
  /\ CurIds \cap (TaskIds \cup WorkIds \cup RspIds) = {}
  /\ TaskIds \cap (WorkIds \cup RspIds) = {}
  /\ WorkIds \cap RspIds = {}

\* Only requests that were sent are anywhere.
IdsSent == TcpIds \cup CurIds \cup TaskIds \cup WorkIds \cup RspIds \subseteq 1 .. sent

\* Within a stage a request is there once.
TcpOnce ==
  \A r, s \in Routers : \A i \in 1 .. Len(tcp[r]), j \in 1 .. Len(tcp[s]) :
    tcp[r][i].req = tcp[s][j].req => r = s /\ i = j
TasksOnce ==
  \A i, j \in 1 .. Len(tasks) : tasks[i].req = tasks[j].req => i = j
WorkersOnce ==
  \A v, w \in Workers :
    wpc[v] # "idle" /\ wpc[w] # "idle" /\ wmsg[v].req = wmsg[w].req => v = w
ResponsesOnce ==
  /\ \A p, q \in inproc \cup out : p.m.req = q.m.req => p = q
  /\ inproc \cap out = {}

\* The inductive invariant behind AnsweredOnce.
FlightInv ==
  StagesApart /\ IdsSent /\ TcpOnce /\ TasksOnce /\ WorkersOnce /\ ResponsesOnce

(* The message fields that the stages look at are request ids.              *)
LEMMA ReqIds ==
  ASSUME TypeOK
  PROVE  /\ \A r \in Routers : tcp[r] \in Seq(Msg) /\ Len(tcp[r]) \in Nat
         /\ \A r \in Routers : \A i \in 1 .. Len(tcp[r]) : tcp[r][i].req \in Nat
         /\ ppc = "recv" => cur \in Msg /\ cur.req \in Nat
         /\ Len(tasks) \in Nat
         /\ \A i \in 1 .. Len(tasks) : tasks[i].req \in Nat
         /\ \A w \in Workers : wpc[w] # "idle" => wmsg[w] \in Msg /\ wmsg[w].req \in Nat
         /\ \A p \in inproc \cup out : p.m.req \in Nat
<1>1. \A m \in Msg : m.req \in Nat
  BY MsgFields, BoundAssumption
<1>2. \A r \in Routers : /\ tcp[r] \in Seq(Msg) /\ Len(tcp[r]) \in Nat
                         /\ \A i \in 1 .. Len(tcp[r]) : tcp[r][i] \in Msg
  BY ElementOfSeq, LenProperties DEF TypeOK
<1>3. Len(tasks) \in Nat /\ \A i \in 1 .. Len(tasks) : tasks[i] \in Msg
  BY ElementOfSeq, LenProperties DEF TypeOK
<1>4. \A w \in Workers : wpc[w] # "idle" => wmsg[w] \in Msg
  BY DEF TypeOK
<1>5. \A p \in inproc \cup out : p.m \in Msg
  BY DEF TypeOK, Response
<1>6. ppc = "recv" => cur \in Msg
  BY DEF TypeOK
<1>7. QED
  BY <1>1, <1>2, <1>3, <1>4, <1>5, <1>6

(* A new message waits in the socket under an id nobody has yet.             *)
LEMMA FlightSend ==
  ASSUME TypeOK, FlightInv, NEW q \in Requests, ClientSend(q)
  PROVE  FlightInv'
<1> DEFINE new == [user |-> q.user, router |-> q.router, cmd |-> q.cmd,
                   ele |-> q.ele, names |-> q.names, req |-> sent + 1,
                   known |-> told[q.user], sess |-> 0]
<1>1. /\ tcp' = [tcp EXCEPT ![q.router] = Append(@, new)] /\ sent' = sent + 1
      /\ UNCHANGED <<ppc, cur, tasks, wpc, wmsg, inproc, out>>
  BY DEF ClientSend, pollVars, workerVars
<1>2. q.router \in Routers /\ sent \in Nat /\ new.req = sent + 1
  BY RequestsAssumption, BoundAssumption DEF TypeOK
<1> HIDE DEF new
<1>3. /\ Len(tcp'[q.router]) = Len(tcp[q.router]) + 1
      /\ tcp'[q.router][Len(tcp[q.router]) + 1] = new
      /\ \A i \in 1 .. Len(tcp[q.router]) : tcp'[q.router][i] = tcp[q.router][i]
      /\ \A r \in Routers \ {q.router} : tcp'[r] = tcp[r]
  <2>1. tcp'[q.router] = Append(tcp[q.router], new)
    BY <1>1, <1>2 DEF TypeOK
  <2>2. \A r \in Routers \ {q.router} : tcp'[r] = tcp[r]
    BY <1>1 DEF TypeOK
  <2>3. tcp[q.router] \in Seq(Msg) /\ Len(tcp[q.router]) \in Nat
    BY <1>2, ReqIds
  <2>4. QED
    BY <2>1, <2>2, <2>3
<1>4. \A r \in Routers : \A i \in 1 .. Len(tcp'[r]) :
         \/ i \in 1 .. Len(tcp[r]) /\ tcp'[r][i] = tcp[r][i]
         \/ r = q.router /\ i = Len(tcp[r]) + 1 /\ tcp'[r][i].req = sent + 1
  <2> SUFFICES ASSUME NEW r \in Routers, NEW i \in 1 .. Len(tcp'[r])
               PROVE  \/ i \in 1 .. Len(tcp[r]) /\ tcp'[r][i] = tcp[r][i]
                      \/ r = q.router /\ i = Len(tcp[r]) + 1 /\ tcp'[r][i].req = sent + 1
    OBVIOUS
  <2>1. CASE r # q.router
    BY <1>3, <2>1
  <2>2. CASE r = q.router
    <3>1. Len(tcp[r]) \in Nat
      BY ReqIds
    <3>2. i \in 1 .. Len(tcp[r]) \/ i = Len(tcp[r]) + 1
      BY <1>3, <2>2, <3>1
    <3>3. QED
      BY <1>2, <1>3, <2>2, <3>2
  <2>3. QED
    BY <2>1, <2>2
<1>5. \A r \in Routers : \A i \in 1 .. Len(tcp[r]) : tcp[r][i].req # sent + 1
  <2>1. \A r \in Routers : \A i \in 1 .. Len(tcp[r]) : tcp[r][i].req \in TcpIds
    BY ReqIds DEF TcpIds
  <2>2. QED
    BY <2>1, <1>2 DEF FlightInv, IdsSent
<1>6. TcpOnce'
  <2> SUFFICES ASSUME NEW r \in Routers, NEW s \in Routers,
                      NEW i \in 1 .. Len(tcp'[r]), NEW j \in 1 .. Len(tcp'[s]),
                      tcp'[r][i].req = tcp'[s][j].req
               PROVE  r = s /\ i = j
    BY DEF TcpOnce
  <2>1. \/ i \in 1 .. Len(tcp[r]) /\ tcp'[r][i] = tcp[r][i] /\ tcp[r][i].req # sent + 1
        \/ r = q.router /\ i = Len(tcp[r]) + 1 /\ tcp'[r][i].req = sent + 1
    BY <1>4, <1>5
  <2>2. \/ j \in 1 .. Len(tcp[s]) /\ tcp'[s][j] = tcp[s][j] /\ tcp[s][j].req # sent + 1
        \/ s = q.router /\ j = Len(tcp[s]) + 1 /\ tcp'[s][j].req = sent + 1
    BY <1>4, <1>5
  <2>3. QED
    BY <2>1, <2>2, SMTT(40) DEF FlightInv, TcpOnce
<1>7. TcpIds' \subseteq TcpIds \cup {sent + 1}
  BY <1>4 DEF TcpIds
<1>8. UNCHANGED <<CurIds, TaskIds, WorkIds, RspIds, TasksOnce, WorkersOnce, ResponsesOnce>>
  BY <1>1 DEF CurIds, TaskIds, WorkIds, RspIds, TasksOnce, WorkersOnce, ResponsesOnce
<1>9. sent + 1 \notin CurIds \cup TaskIds \cup WorkIds \cup RspIds
  BY <1>2 DEF FlightInv, IdsSent
<1>10. StagesApart'
  BY <1>7, <1>8, <1>9 DEF FlightInv, StagesApart
<1>11. IdsSent'
  BY <1>1, <1>2, <1>7, <1>8 DEF FlightInv, IdsSent
<1>12. QED
  BY <1>6, <1>8, <1>10, <1>11 DEF FlightInv

(* zmq::poll forwards at most one response and takes at most one message off *)
(* the socket; neither gets a copy.                                          *)
LEMMA FlightPoll ==
  ASSUME TypeOK, FlightInv, Poll
  PROVE  FlightInv'
<1>1. UNCHANGED <<tasks, wpc, wmsg, sent>> /\ ppc = "poll"
  BY DEF Poll, workerVars
<1>2. ResponsesOnce' /\ RspIds' = RspIds
  <2>1. inproc' \cup out' = inproc \cup out /\ inproc' \cap out' = {}
    BY DEF Poll, FlightInv, ResponsesOnce
  <2>2. QED
    BY <2>1 DEF FlightInv, ResponsesOnce, RspIds
<1>3. UNCHANGED <<TaskIds, WorkIds, TasksOnce, WorkersOnce>>
  BY <1>1 DEF TaskIds, WorkIds, TasksOnce, WorkersOnce
<1>4. CASE ppc' = "top" /\ UNCHANGED <<cur, tcp>>
  <2>1. TcpIds' = TcpIds /\ CurIds' = {} /\ TcpOnce'
    BY <1>4 DEF TcpIds, CurIds, FlightInv, TcpOnce
  <2>2. QED
    BY <1>1, <1>2, <1>3, <2>1 DEF FlightInv, StagesApart, IdsSent
<1>5. ASSUME NEW r \in Routers, tcp[r] # <<>>, cur' = Head(tcp[r]),
             tcp' = [tcp EXCEPT ![r] = Tail(@)], ppc' = "recv"
      PROVE  FlightInv'
  <2>1. /\ Len(tcp[r]) \in Nat \ {0} /\ Len(tcp'[r]) = Len(tcp[r]) - 1
        /\ \A i \in 1 .. Len(tcp'[r]) : tcp'[r][i] = tcp[r][i + 1]
        /\ cur' = tcp[r][1]
        /\ \A s \in Routers \ {r} : tcp'[s] = tcp[s]
    <3>1. tcp'[r] = Tail(tcp[r]) /\ \A s \in Routers \ {r} : tcp'[s] = tcp[s]
      BY <1>5 DEF TypeOK
    <3>2. tcp[r] \in Seq(Msg)
      BY ReqIds
    <3>3. QED
      <4>1. Len(tcp[r]) \in Nat \ {0} /\ Len(Tail(tcp[r])) = Len(tcp[r]) - 1
        BY <1>5, <3>2
      <4>2. \A i \in 1 .. Len(Tail(tcp[r])) : Tail(tcp[r])[i] = tcp[r][i + 1]
        BY <1>5, <3>2, HeadTailProperties
      <4>3. cur' = tcp[r][1]
        BY <1>5, <3>2
      <4>4. QED
        BY <3>1, <4>1, <4>2, <4>3
  <2> DEFINE was(s, i) == IF s = r THEN i + 1 ELSE i
  <2>2. \A s \in Routers : \A i \in 1 .. Len(tcp'[s]) :
           /\ was(s, i) \in 1 .. Len(tcp[s]) /\ tcp'[s][i] = tcp[s][was(s, i)]
           /\ s # r \/ was(s, i) # 1
    BY <2>1
  <2>3. \A s \in Routers : \A i, j \in 1 .. Len(tcp'[s]) : was(s, i) = was(s, j) => i = j
    BY <2>1
  <2> HIDE DEF was
  <2>4. TcpOnce'
    <3> SUFFICES ASSUME NEW s \in Routers, NEW u \in Routers,
                        NEW i \in 1 .. Len(tcp'[s]), NEW j \in 1 .. Len(tcp'[u]),
                        tcp'[s][i].req = tcp'[u][j].req
                 PROVE  s = u /\ i = j
      BY DEF TcpOnce
    <3>1. was(s, i) \in 1 .. Len(tcp[s]) /\ was(u, j) \in 1 .. Len(tcp[u])
          /\ tcp[s][was(s, i)].req = tcp[u][was(u, j)].req
      BY <2>2
    <3>2. s = u /\ was(s, i) = was(u, j)
      BY <3>1 DEF FlightInv, TcpOnce
    <3>3. QED
      BY <2>3, <3>2
  <2>5. 1 \in 1 .. Len(tcp[r]) /\ cur'.req = tcp[r][1].req /\ cur'.req \in Nat
    BY <2>1, ReqIds
  <2>6. cur'.req \in TcpIds /\ CurIds' = {cur'.req}
    BY <1>5, <2>5 DEF TcpIds, CurIds
  <2>7. TcpIds' \subseteq TcpIds \ {cur'.req}
    <3> SUFFICES ASSUME NEW n \in TcpIds' PROVE n \in TcpIds /\ n # cur'.req
      OBVIOUS
    <3>0. PICK s \in Routers : \E i \in 1 .. Len(tcp'[s]) : tcp'[s][i].req = n /\ n \in Nat
      BY DEF TcpIds
    <3>1. PICK i \in 1 .. Len(tcp'[s]) : tcp'[s][i].req = n /\ n \in Nat
      BY <3>0
    <3>2. was(s, i) \in 1 .. Len(tcp[s]) /\ tcp[s][was(s, i)].req = n
          /\ (s # r \/ was(s, i) # 1)
      BY <2>2, <3>1
    <3>3. QED
      BY <2>5, <3>1, <3>2 DEF TcpIds, FlightInv, TcpOnce
  <2>8. StagesApart'
    BY <1>2, <1>3, <2>6, <2>7 DEF FlightInv, StagesApart
  <2>9. IdsSent'
    BY <1>1, <1>2, <1>3, <2>6, <2>7 DEF FlightInv, IdsSent
  <2>10. QED
    BY <1>2, <1>3, <2>4, <2>8, <2>9 DEF FlightInv
<1>6. QED
  BY <1>4, <1>5 DEF Poll

(* A handled message is answered, becomes a task or is dropped.              *)
LEMMA FlightMessage ==
  ASSUME TypeOK, FlightInv, OnMessage
  PROVE  FlightInv'
<1>1. /\ ppc = "recv" /\ ppc' = "top"
      /\ UNCHANGED <<tcp, sent, wpc, wmsg, inproc>>
  BY DEF OnMessage, RejectUnknown, RejectNoLogin, RejectMultiLogin, OnReqLogin,
         OnReqLogout, OnKeepAlive, SubmitTask, SkipCommand, Accept, EndOfMessage,
         clientVars, workerVars
<1>2. UNCHANGED <<TcpIds, WorkIds, TcpOnce, WorkersOnce>> /\ CurIds' = {}
  BY <1>1 DEF TcpIds, WorkIds, TcpOnce, WorkersOnce, CurIds
<1>3. cur \in Msg /\ cur.req \in Nat /\ CurIds = {cur.req}
  BY <1>1, ReqIds DEF CurIds
<1>4. cur.req \notin TcpIds \cup TaskIds \cup WorkIds \cup RspIds /\ cur.req \in 1 .. sent
  BY <1>3 DEF FlightInv, StagesApart, IdsSent
<1>5. ASSUME NEW err, Reply(err), UNCHANGED tasks PROVE FlightInv'
  <2> DEFINE p == [m |-> cur, to |-> cur.router, err |-> err, same |-> TRUE]
  <2>1. out' = out \cup {p} /\ p.m.req = cur.req
    BY <1>5 DEF Reply
  <2> HIDE DEF p
  <2>2. \A q \in inproc \cup out : q.m.req # cur.req
    BY <1>3, <1>4 DEF RspIds
  <2>3. ResponsesOnce'
    BY <1>1, <2>1, <2>2 DEF FlightInv, ResponsesOnce
  <2>4. RspIds' \subseteq RspIds \cup {cur.req}
    BY <1>1, <2>1 DEF RspIds
  <2>5. UNCHANGED <<TaskIds, TasksOnce>>
    BY <1>5 DEF TaskIds, TasksOnce
  <2>6. StagesApart' /\ IdsSent'
    BY <1>1, <1>2, <1>4, <2>4, <2>5 DEF FlightInv, StagesApart, IdsSent
  <2>7. QED
    BY <1>2, <2>3, <2>5, <2>6 DEF FlightInv
<1>6. CASE SubmitTask
  <2> DEFINE m == [cur EXCEPT !.sess = session[cur.user]]
  <2>1. tasks' = Append(tasks, m) /\ UNCHANGED out /\ m.req = cur.req
    BY <1>3, <1>6 DEF SubmitTask, Msg
  <2> HIDE DEF m
  <2>2. /\ Len(tasks) \in Nat /\ Len(tasks') = Len(tasks) + 1
        /\ \A i \in 1 .. Len(tasks) : tasks'[i] = tasks[i]
        /\ tasks'[Len(tasks) + 1] = m
    BY <2>1 DEF TypeOK
  <2>3. \A i \in 1 .. Len(tasks') :
           \/ i \in 1 .. Len(tasks) /\ tasks'[i] = tasks[i]
           \/ i = Len(tasks) + 1 /\ tasks'[i].req = cur.req
    BY <2>1, <2>2
  <2>4. \A i \in 1 .. Len(tasks) : tasks[i].req # cur.req
    BY <1>3, <1>4 DEF TaskIds
  <2>5. TasksOnce'
    <3> SUFFICES ASSUME NEW i \in 1 .. Len(tasks'), NEW j \in 1 .. Len(tasks'),
                        tasks'[i].req = tasks'[j].req
                 PROVE  i = j
      BY DEF TasksOnce
    <3>1. QED
      BY <2>3, <2>4 DEF FlightInv, TasksOnce
  <2>6. TaskIds' \subseteq TaskIds \cup {cur.req}
    BY <2>3 DEF TaskIds
  <2>7. UNCHANGED <<RspIds, ResponsesOnce>>
    BY <1>1, <2>1 DEF RspIds, ResponsesOnce
  <2>8. StagesApart' /\ IdsSent'
    BY <1>1, <1>2, <1>4, <2>6, <2>7 DEF FlightInv, StagesApart, IdsSent
  <2>9. QED
    BY <1>2, <2>5, <2>7, <2>8 DEF FlightInv
<1>7. CASE UNCHANGED <<out, tasks>>
  <2>1. UNCHANGED <<TaskIds, TasksOnce, RspIds, ResponsesOnce>>
    BY <1>1, <1>7 DEF TaskIds, TasksOnce, RspIds, ResponsesOnce
  <2>2. QED
    BY <1>1, <1>2, <2>1 DEF FlightInv, StagesApart, IdsSent
<1>8. QED
  BY <1>5, <1>6, <1>7 DEF OnMessage, RejectUnknown, RejectNoLogin, RejectMultiLogin,
                          OnReqLogin, OnReqLogout, OnKeepAlive, SkipCommand

(* A pool thread takes a task off the queue, keeps it and turns it into one  *)
(* response.                                                                 *)
LEMMA FlightWorker ==
  ASSUME TypeOK, FlightInv, NEW w \in Workers, TakeTask(w) \/ RunTask(w)
  PROVE  FlightInv'
<1>1. UNCHANGED <<tcp, ppc, cur, sent, out>>
  BY DEF TakeTask, RunTask, DbOperation, BeginReadRouter, EndReadRouter,
         StoreCacheBool, SendRsp, clientVars, pollVars
<1>2. UNCHANGED <<TcpIds, CurIds, TcpOnce>>
  BY <1>1 DEF TcpIds, CurIds, TcpOnce
<1>3. CASE TakeTask(w)
  <2>1. /\ tasks # <<>> /\ tasks' = Tail(tasks) /\ UNCHANGED inproc
        /\ wpc[w] = "idle" /\ wpc' = [wpc EXCEPT ![w] = "db"]
        /\ wmsg' = [wmsg EXCEPT ![w] = Head(tasks)]
    BY <1>3 DEF TakeTask
  <2>2. /\ Len(tasks) \in Nat \ {0} /\ Len(tasks') = Len(tasks) - 1
        /\ \A i \in 1 .. Len(tasks') : tasks'[i] = tasks[i + 1]
        /\ Head(tasks) = tasks[1]
    BY <2>1, HeadTailProperties, LenProperties DEF TypeOK
  <2>3. \A i \in 1 .. Len(tasks') : /\ i + 1 \in 1 .. Len(tasks) /\ i + 1 # 1
                                    /\ tasks'[i] = tasks[i + 1]
    BY <2>2
  <2> DEFINE n == tasks[1].req
  <2>4. 1 \in 1 .. Len(tasks) /\ n \in TaskIds
    BY <2>2, ReqIds DEF TaskIds
  <2>5. TaskIds' \subseteq TaskIds \ {n}
    <3> SUFFICES ASSUME NEW k \in TaskIds' PROVE k \in TaskIds /\ k # n
      OBVIOUS
    <3>1. PICK i \in 1 .. Len(tasks') : tasks'[i].req = k /\ k \in Nat
      BY DEF TaskIds
    <3>2. i + 1 \in 1 .. Len(tasks) /\ i + 1 # 1 /\ tasks[i + 1].req = k
      BY <2>3, <3>1
    <3>3. QED
      BY <2>4, <3>1, <3>2 DEF TaskIds, FlightInv, TasksOnce
  <2>6. TasksOnce'
    <3> SUFFICES ASSUME NEW i \in 1 .. Len(tasks'), NEW j \in 1 .. Len(tasks'),
                        tasks'[i].req = tasks'[j].req
                 PROVE  i = j
      BY DEF TasksOnce
    <3>1. i + 1 = j + 1
      BY <2>3, SMTT(40) DEF FlightInv, TasksOnce
    <3>2. QED
      BY <2>2, <3>1
  <2>7. \A v \in Workers : /\ wpc'[v] = IF v = w THEN "db" ELSE wpc[v]
                           /\ wmsg'[v] = IF v = w THEN tasks[1] ELSE wmsg[v]
    BY <2>1, <2>2 DEF TypeOK
  <2>8. \A v \in Workers : wpc[v] # "idle" => wmsg[v].req # n
    <3>1. n \notin WorkIds
      BY <2>4 DEF FlightInv, StagesApart
    <3>2. QED
      BY <3>1, ReqIds DEF WorkIds
  <2>9. WorkersOnce'
    <3> SUFFICES ASSUME NEW u \in Workers, NEW v \in Workers,
                        wpc'[u] # "idle", wpc'[v] # "idle", wmsg'[u].req = wmsg'[v].req
                 PROVE  u = v
      BY DEF WorkersOnce
    <3>1. QED
      BY <2>7, <2>8 DEF FlightInv, WorkersOnce
  <2>10. WorkIds' \subseteq WorkIds \cup {n}
    BY <2>7 DEF WorkIds
  <2>11. UNCHANGED <<RspIds, ResponsesOnce>>
    BY <1>1, <2>1 DEF RspIds, ResponsesOnce
  <2> HIDE DEF n
  <2>12. StagesApart' /\ IdsSent'
    BY <1>1, <1>2, <2>4, <2>5, <2>10, <2>11 DEF FlightInv, StagesApart, IdsSent
  <2>13. QED
    BY <1>2, <2>6, <2>9, <2>11, <2>12 DEF FlightInv
<1>4. CASE SendRsp(w)
  <2> DEFINE p == [m |-> wmsg[w], to |-> wto[w],
                   err |-> IF wres[w] = "ok" THEN "Success" ELSE "DbError",
                   same |-> wsame[w]]
  <2>1. /\ wpc[w] # "idle" /\ wpc' = [wpc EXCEPT ![w] = "idle"]
        /\ wmsg' = [wmsg EXCEPT ![w] = NoMsg] /\ inproc' = inproc \cup {p}
        /\ p.m = wmsg[w] /\ UNCHANGED tasks
    BY <1>4 DEF SendRsp
  <2> HIDE DEF p
  <2> DEFINE n == wmsg[w].req
  <2>2. n \in WorkIds /\ n \in Nat
    BY <2>1, ReqIds DEF WorkIds
  <2>3. \A v \in Workers : /\ wpc'[v] = IF v = w THEN "idle" ELSE wpc[v]
                           /\ wmsg'[v] = IF v = w THEN NoMsg ELSE wmsg[v]
    BY <2>1 DEF TypeOK
  <2>4. WorkersOnce' /\ WorkIds' \subseteq WorkIds \ {n}
    BY <2>1, <2>3 DEF WorkersOnce, FlightInv, WorkIds
  <2>5. \A q \in inproc \cup out : q.m.req # n
    <3>1. n \notin RspIds
      BY <2>2 DEF FlightInv, StagesApart
    <3>2. QED
      BY <2>2, <3>1 DEF RspIds
  <2>6. ResponsesOnce'
    BY <1>1, <2>1, <2>5 DEF FlightInv, ResponsesOnce
  <2>7. RspIds' \subseteq RspIds \cup {n}
    BY <1>1, <2>1 DEF RspIds
  <2>8. UNCHANGED <<TaskIds, TasksOnce>>
    BY <2>1 DEF TaskIds, TasksOnce
  <2> HIDE DEF n
  <2>9. StagesApart' /\ IdsSent'
    BY <1>1, <1>2, <2>2, <2>4, <2>7, <2>8 DEF FlightInv, StagesApart, IdsSent
  <2>10. QED
    BY <1>2, <2>4, <2>6, <2>8, <2>9 DEF FlightInv
<1>5. CASE DbOperation(w) \/ BeginReadRouter(w) \/ EndReadRouter(w) \/ StoreCacheBool(w)
  <2>1. /\ UNCHANGED <<tasks, wmsg, inproc>>
        /\ \A v \in Workers : wpc'[v] # "idle" <=> wpc[v] # "idle"
    BY <1>5 DEF DbOperation, BeginReadRouter, EndReadRouter, StoreCacheBool, TypeOK
  <2>2. UNCHANGED <<TaskIds, WorkIds, RspIds>>
    BY <1>1, <2>1 DEF TaskIds, WorkIds, RspIds
  <2>3. TasksOnce' /\ WorkersOnce' /\ ResponsesOnce'
    BY <1>1, <2>1 DEF FlightInv, TasksOnce, WorkersOnce, ResponsesOnce
  <2>4. QED
    BY <1>1, <1>2, <2>2, <2>3 DEF FlightInv, StagesApart, IdsSent
<1>6. QED
  BY <1>3, <1>4, <1>5 DEF RunTask

(* The way of every request is followed through all steps of the service.    *)
LEMMA FlightStep == TypeOK /\ FlightInv /\ [Next]_vars => FlightInv'
<1> SUFFICES ASSUME TypeOK, FlightInv, [Next]_vars PROVE FlightInv'
  OBVIOUS
<1>1. ASSUME UNCHANGED <<tcp, cur, tasks, wpc, wmsg, inproc, out, sent>>,
             ppc = "recv" <=> ppc' = "recv"
      PROVE  FlightInv'
  <2>1. UNCHANGED <<TcpIds, CurIds, TaskIds, WorkIds, RspIds>>
    BY <1>1 DEF TcpIds, CurIds, TaskIds, WorkIds, RspIds
  <2>2. TcpOnce' /\ TasksOnce' /\ WorkersOnce' /\ ResponsesOnce'
    BY <1>1 DEF FlightInv, TcpOnce, TasksOnce, WorkersOnce, ResponsesOnce
  <2>3. QED
    BY <1>1, <2>1, <2>2 DEF FlightInv, StagesApart, IdsSent
<1>2. CASE TestCacheFlag \/ UpdManagerCache \/ CheckTimer \/ TimerExpires
           \/ (\E u \in Users : MinutePasses(u)) \/ UNCHANGED vars
  BY <1>1, <1>2 DEF TestCacheFlag, UpdManagerCache, CheckTimer, TimerExpires,
                    MinutePasses, vars, pollVars, clientVars, workerVars
<1>3. QED
  BY <1>2, FlightSend, FlightPoll, FlightMessage, FlightWorker DEF Next, PollFunc

(* The flight invariant holds in every reachable state.                      *)
LEMMA FlightInvHolds == Spec => [](TypeOK /\ FlightInv)
<1>1. Init => FlightInv
  BY EmptySeq DEF Init, FlightInv, StagesApart, IdsSent, TcpOnce, TasksOnce,
     WorkersOnce, ResponsesOnce, TcpIds, CurIds, TaskIds, WorkIds, RspIds
<1>2. QED
  BY <1>1, FlightStep, TypeCorrect, PTL DEF Spec

(* No request is answered twice, neither by the poll thread and a pool       *)
(* thread both nor by two pool threads, for any number of clients, messages  *)
(* and pool threads: its id is at one stage of its way at a time.            *)
THEOREM OneAnswerEach == Spec => []AnsweredOnce
<1>1. TypeOK /\ FlightInv => AnsweredOnce
  <2> SUFFICES ASSUME TypeOK, FlightInv PROVE AnsweredOnce
    OBVIOUS
  <2>1. ASSUME NEW p \in inproc \cup out, NEW m \in PendingMsgs PROVE p.m.req # m.req
    <3>1. p.m.req \in RspIds
      BY ReqIds DEF RspIds
    <3>2. m.req \in TaskIds \cup WorkIds
      BY ReqIds DEF PendingMsgs, TaskIds, WorkIds
    <3>3. QED
      BY <3>1, <3>2 DEF FlightInv, StagesApart
  <2>2. QED
    BY <2>1 DEF AnsweredOnce, FlightInv, ResponsesOnce, WorkersOnce
<1>2. QED
  BY <1>1, FlightInvHolds, PTL

-----------------------------------------------------------------------------
(* An acknowledged user is identified                                        *)

\* The cache has this name, or a refresh that will read it is under way.
Noted(u) ==
  u \in m_setManagerCache \/ m_bUpdManagerCache \/ ppc = "select" \/ "select" \in hidden

Acknowledges(p) == p.err = "Success" /\ p.m.cmd = "Insert" /\ p.m.ele = "ManageUser"

\* The row of this name was acknowledged, or its acknowledgement is on its way:
\* a pool thread has passed the store to the flag, or it has sent the response.
Promised(u) ==
  \/ told[u] # NoRow
  \/ \E w \in Workers : /\ wpc[w] = "send" /\ wres[w] = "ok" /\ wmsg[w].cmd = "Insert"
                        /\ wmsg[w].ele = "ManageUser" /\ db[u] = wmsg[w].req
  \/ \E p \in inproc : Acknowledges(p) /\ db[u] = p.m.req

\* What is told is in the table ...
ToldStored == \A u \in Users : told[u] # NoRow => db[u] # NoRow
\* ... and a refresh comes before the next poll, once it is promised.
PromiseNoted == \A u \in Users : Promised(u) => Noted(u)
\* Between the refresh and the poll nothing new is told.
ToldCached ==
  ppc \in {"timer", "poll"} =>
    \A u \in Users : told[u] # NoRow => u \in m_setManagerCache \/ "select" \in hidden

OutIds == {n \in Rows : \E p \in out : p.m.req = n}

\* What a sender knows was acknowledged by a response that has left.
KnownAnswered ==
  /\ \A u \in Users : told[u] # NoRow => told[u] \in OutIds
  /\ \A r \in Routers : \A i \in 1 .. Len(tcp[r]) :
       tcp[r][i].known # NoRow => tcp[r][i].known \in OutIds

AckInv == /\ ToldStored /\ PromiseNoted /\ ToldCached /\ KnownAnswered
          /\ AcknowledgedUserIdentified

(* A database operation leaves a row, deletes it or stores its own request;  *)
(* it never makes the cache look sound again.                                *)
LEMMA DbEffect ==
  ASSUME TypeOK, NEW w \in Workers, DbOperation(w)
  PROVE  /\ \A u \in Users : db'[u] \in {db[u], NoRow, wmsg[w].req}
         /\ \A u \in Users : told'[u] = IF db'[u] = NoRow THEN NoRow ELSE told[u]
         /\ hidden \subseteq hidden'
<1>1. \A u \in Users : told'[u] = IF db'[u] = NoRow THEN NoRow ELSE told[u]
  BY DEF DbOperation
<1>2. hidden \subseteq hidden'
  BY DEF DbOperation
<1>3. \A u \in Users : db'[u] \in {db[u], NoRow, wmsg[w].req}
  <2>1. ASSUME NEW res, InsertUsers(wmsg[w], res)
        PROVE  \A u \in Users : db'[u] \in {db[u], wmsg[w].req}
    BY <2>1 DEF InsertUsers
  <2>2. ASSUME NEW res, DeleteUsers(wmsg[w], res)
        PROVE  \A u \in Users : db'[u] \in {db[u], NoRow}
    <3>1. PICK gone \in SUBSET Users :
            db' = [u \in Users |-> IF u \in gone THEN NoRow ELSE db[u]]
      BY <2>2 DEF DeleteUsers
    <3>2. QED
      BY <3>1
  <2>3. QED
    BY <2>1, <2>2 DEF DbOperation, KeepUsers
<1>4. QED
  BY <1>1, <1>2, <1>3

(* What is told changes only in two steps.                                   *)
LEMMA ToldFrame ==
  ASSUME TypeOK, [Next]_vars
  PROVE  \/ UNCHANGED told
         \/ ppc = "poll" /\ \E p \in inproc : told' = ToldAfter(p)
         \/ \E w \in Workers : DbOperation(w)
  BY DEF Next, PollFunc, vars, ClientSend, MinutePasses, TimerExpires, TestCacheFlag,
         UpdManagerCache, CheckTimer, Poll, OnMessage, RejectUnknown, RejectNoLogin,
         RejectMultiLogin, Accept, OnReqLogin, OnReqLogout, OnKeepAlive, SubmitTask,
         SkipCommand, TakeTask, RunTask, BeginReadRouter, EndReadRouter,
         StoreCacheBool, SendRsp

(* Rows change only in a database operation.                                 *)
LEMMA DbFrame ==
  ASSUME TypeOK, [Next]_vars
  PROVE  UNCHANGED db \/ \E w \in Workers : DbOperation(w)
  BY DEF Next, PollFunc, vars, ClientSend, MinutePasses, TimerExpires, TestCacheFlag,
         UpdManagerCache, CheckTimer, Poll, OnMessage, RejectUnknown, RejectNoLogin,
         RejectMultiLogin, Accept, OnReqLogin, OnReqLogout, OnKeepAlive, SubmitTask,
         SkipCommand, TakeTask, RunTask, BeginReadRouter, EndReadRouter,
         StoreCacheBool, SendRsp, cacheVars

(* The cache, its flag and the place of the poll thread change together in   *)
(* few ways.                                                                 *)
LEMMA CacheFrame ==
  ASSUME TypeOK, [Next]_vars
  PROVE  \/ TestCacheFlag \/ UpdManagerCache
         \/ /\ UNCHANGED m_setManagerCache
            /\ m_bUpdManagerCache => m_bUpdManagerCache'
            /\ ppc # "select" => ppc' # "select"
            /\ ppc = "select" => ppc' = "select"
            /\ hidden \subseteq hidden'
            /\ ppc' = "timer" => ppc = "timer"
            /\ ppc' = "poll" => ppc \in {"timer", "poll"}
<1>1. ASSUME NEW w \in Workers, RunTask(w)
      PROVE  /\ UNCHANGED <<m_setManagerCache, ppc>>
             /\ m_bUpdManagerCache => m_bUpdManagerCache'
             /\ hidden \subseteq hidden'
  <2>1. CASE DbOperation(w)
    BY <2>1, DbEffect DEF DbOperation, pollVars
  <2>2. CASE StoreCacheBool(w)
    BY <2>2 DEF StoreCacheBool, pollVars
  <2>3. CASE BeginReadRouter(w) \/ EndReadRouter(w) \/ SendRsp(w)
    BY <2>3 DEF BeginReadRouter, EndReadRouter, SendRsp, cacheVars, pollVars
  <2>4. QED
    BY <1>1, <2>1, <2>2, <2>3 DEF RunTask
<1>2. CASE \/ \E q \in Requests : ClientSend(q)
           \/ \E u \in Users : MinutePasses(u)
           \/ TimerExpires
           \/ CheckTimer \/ Poll
           \/ \E w \in Workers : TakeTask(w)
           \/ UNCHANGED vars
  BY <1>2 DEF vars, ClientSend, MinutePasses, TimerExpires, CheckTimer, Poll, TakeTask,
              cacheVars, pollVars
<1>3. CASE OnMessage
  BY <1>3 DEF OnMessage, RejectUnknown, RejectNoLogin, RejectMultiLogin, Accept,
              OnReqLogin, OnReqLogout, OnKeepAlive, SubmitTask, SkipCommand,
              EndOfMessage, cacheVars
<1>4. QED
  BY <1>1, <1>2, <1>3 DEF Next, PollFunc

(* A refresh that will read a row stays under way until it has read it.      *)
LEMMA NotedKept ==
  ASSUME TypeOK, [Next]_vars, NEW u \in Users, Noted(u), db[u] # NoRow
  PROVE  Noted(u)'
<1>1. CASE TestCacheFlag
  BY <1>1 DEF TestCacheFlag, Noted
<1>2. CASE UpdManagerCache
  <2>1. u \in Names
    BY DEF Names
  <2>2. m_setManagerCache' = Names \/ "select" \in hidden'
    BY <1>2 DEF UpdManagerCache
  <2>3. QED
    BY <2>1, <2>2 DEF Noted
<1>3. QED
  BY <1>1, <1>2, CacheFrame DEF Noted

(* A stored request is stored once: no other pool thread writes its id.      *)
LEMMA PromiseKept ==
  ASSUME TypeOK, FlightInv, [Next]_vars, NEW u \in Users, Promised(u)'
  PROVE  Promised(u) \/ m_bUpdManagerCache'
<1>1. CASE \E w \in Workers : DbOperation(w)
  <2>1. PICK w \in Workers : DbOperation(w)
    BY <1>1
  <2>2. /\ wpc[w] = "db" /\ wpc' = [wpc EXCEPT ![w] = "read"]
        /\ wres' = [wres EXCEPT ![w] = wres'[w]]
        /\ UNCHANGED <<wmsg, inproc>>
    BY <2>1 DEF DbOperation, TypeOK
  <2>3. told'[u] # NoRow => told[u] # NoRow
    BY <2>1, DbEffect
  <2>4. ASSUME NEW v \in Workers, wpc'[v] = "send", wres'[v] = "ok",
               wmsg'[v].cmd = "Insert", wmsg'[v].ele = "ManageUser",
               db'[u] = wmsg'[v].req
        PROVE  Promised(u)
    <3>1. v # w /\ wpc[v] = "send" /\ wres[v] = "ok" /\ wmsg'[v] = wmsg[v]
      BY <2>2, <2>4 DEF TypeOK
    <3>2. wmsg[v].req # wmsg[w].req
      BY <2>2, <3>1 DEF FlightInv, WorkersOnce
    <3>3. wmsg[v].req # NoRow
      <4>1. wmsg[v] \in Msg
        BY <3>1, ReqIds
      <4>2. QED
        BY <4>1, MsgFields, BoundAssumption DEF NoRow
    <3>4. db[u] = wmsg[v].req
      BY <2>1, <2>4, <3>1, <3>2, <3>3, DbEffect
    <3>5. QED
      BY <2>4, <3>1, <3>4 DEF Promised
  <2>5. ASSUME NEW p \in inproc', Acknowledges(p), db'[u] = p.m.req
        PROVE  Promised(u)
    <3>1. p \in inproc
      BY <2>2
    <3>2. p.m.req \in RspIds /\ wmsg[w].req \in WorkIds
      BY <2>2, <3>1, ReqIds DEF RspIds, WorkIds
    <3>3. p.m.req # wmsg[w].req
      BY <3>2 DEF FlightInv, StagesApart
    <3>4. p.m.req # NoRow
      BY <3>1, MsgFields, BoundAssumption DEF TypeOK, Response, NoRow
    <3>5. db[u] = p.m.req
      BY <2>1, <2>5, <3>3, <3>4, DbEffect
    <3>6. QED
      BY <2>5, <3>1, <3>5 DEF Promised
  <2>6. QED
    BY <2>3, <2>4, <2>5 DEF Promised
<1>2. CASE UNCHANGED db
  <2>1. told'[u] # NoRow => Promised(u)
    <3>1. ASSUME NEW p \in inproc, told' = ToldAfter(p), told'[u] # NoRow
          PROVE  Promised(u)
      BY <3>1 DEF ToldAfter, Promised, Acknowledges
    <3>2. ASSUME NEW w \in Workers, DbOperation(w) PROVE told'[u] # NoRow => told[u] # NoRow
      BY <3>2, DbEffect
    <3>3. QED
      BY <3>1, <3>2, ToldFrame DEF Promised
  <2>2. ASSUME NEW v \in Workers, wpc'[v] = "send", wres'[v] = "ok",
               wmsg'[v].cmd = "Insert", wmsg'[v].ele = "ManageUser",
               db'[u] = wmsg'[v].req
        PROVE  Promised(u) \/ m_bUpdManagerCache'
    <3>1. CASE StoreCacheBool(v)
      <4>1. wres[v] = "ok" /\ wmsg[v].cmd = "Insert" /\ wmsg[v].ele = "ManageUser"
        BY <2>2, <3>1 DEF StoreCacheBool
      <4>2. QED
        BY <3>1, <4>1 DEF StoreCacheBool, StoresFlag
    <3>2. CASE ~StoreCacheBool(v)
      <4>1. UNCHANGED <<wpc[v], wres[v], wmsg[v]>>
        <5>1. CASE UNCHANGED <<wpc, wres, wmsg>>
          BY <5>1
        <5>2. ASSUME NEW w \in Workers, TakeTask(w) \/ RunTask(w)
              PROVE  UNCHANGED <<wpc[v], wres[v], wmsg[v]>>
          BY <2>2, <3>2, <5>2 DEF TakeTask, RunTask, DbOperation, BeginReadRouter,
                                  EndReadRouter, StoreCacheBool, SendRsp, TypeOK
        <5>3. QED
          BY <5>1, <5>2 DEF Next, PollFunc, vars, ClientSend, MinutePasses,
             TimerExpires, TestCacheFlag, UpdManagerCache, CheckTimer, Poll, OnMessage,
             RejectUnknown, RejectNoLogin, RejectMultiLogin, Accept, OnReqLogin,
             OnReqLogout, OnKeepAlive, SubmitTask, SkipCommand, workerVars
      <4>2. QED
        BY <1>2, <2>2, <4>1 DEF Promised
    <3>3. QED
      BY <3>1, <3>2
  <2>3. ASSUME NEW p \in inproc', Acknowledges(p), db'[u] = p.m.req
        PROVE  Promised(u)
    <3>1. CASE p \in inproc
      BY <1>2, <2>3, <3>1 DEF Promised
    <3>2. CASE p \notin inproc
      <4>1. PICK w \in Workers : SendRsp(w)
        BY <2>3, <3>2 DEF Next, PollFunc, vars, ClientSend, MinutePasses, TimerExpires,
           TestCacheFlag, UpdManagerCache, CheckTimer, Poll, OnMessage, RejectUnknown,
           RejectNoLogin, RejectMultiLogin, Accept, OnReqLogin, OnReqLogout,
           OnKeepAlive, SubmitTask, SkipCommand, TakeTask, RunTask, DbOperation,
           BeginReadRouter, EndReadRouter, StoreCacheBool
      <4>2. /\ wpc[w] = "send" /\ p.m = wmsg[w]
            /\ p.err = IF wres[w] = "ok" THEN "Success" ELSE "DbError"
        BY <2>3, <3>2, <4>1 DEF SendRsp
      <4>3. wres[w] = "ok"
        BY <2>3, <4>2 DEF Acknowledges
      <4>4. QED
        BY <1>2, <2>3, <4>2, <4>3 DEF Acknowledges, Promised
    <3>3. QED
      BY <3>1, <3>2
  <2>4. QED
    BY <2>1, <2>2, <2>3 DEF Promised
<1>3. QED
  BY <1>1, <1>2, DbFrame

(* Every step keeps the promises.                                            *)
LEMMA PromiseStep ==
  ASSUME TypeOK, FlightInv, ToldStored, PromiseNoted, [Next]_vars
  PROVE  ToldStored' /\ PromiseNoted'
<1> SUFFICES ASSUME NEW u \in Users
             PROVE  /\ told'[u] # NoRow => db'[u] # NoRow
                    /\ Promised(u)' => Noted(u)'
  BY DEF ToldStored, PromiseNoted
<1>1. told'[u] # NoRow => db'[u] # NoRow
  <2>1. ASSUME NEW w \in Workers, DbOperation(w) PROVE told'[u] # NoRow => db'[u] # NoRow
    BY <2>1, DbEffect
  <2>2. ASSUME NEW p \in inproc, told' = ToldAfter(p)
        PROVE  told'[u] # NoRow => db[u] # NoRow
    BY <2>2 DEF ToldAfter, ToldStored
  <2>3. QED
    BY <2>1, <2>2, ToldFrame, DbFrame DEF ToldStored
<1>2. Promised(u) => db[u] # NoRow
  <2>0. ASSUME NEW m \in Msg PROVE m.req # NoRow
    <3>1. m.req \in 1 .. MaxReq
      BY MsgFields
    <3>2. QED
      BY <3>1, BoundAssumption DEF NoRow
  <2>1. ASSUME NEW w \in Workers, wpc[w] = "send" PROVE wmsg[w].req # NoRow
    <3>1. wmsg[w] \in Msg \cup {NoMsg} /\ wmsg[w] # NoMsg
      BY <2>1 DEF TypeOK
    <3>2. QED
      BY <2>0, <3>1
  <2>2. ASSUME NEW p \in inproc PROVE p.m.req # NoRow
    <3>1. p \in Response
      BY DEF TypeOK
    <3>2. p.m \in Msg
      BY <3>1 DEF Response
    <3>3. QED
      BY <2>0, <3>2
  <2>3. QED
    BY <2>1, <2>2 DEF Promised, ToldStored
<1>3. Promised(u)' => Noted(u)'
  <2>1. m_bUpdManagerCache' => Noted(u)'
    BY DEF Noted
  <2>2. QED
    BY <1>2, <2>1, PromiseKept, NotedKept DEF PromiseNoted
<1>4. QED
  BY <1>1, <1>3

(* The refreshed cache has every name that was told.                         *)
LEMMA ToldCachedStep ==
  ASSUME TypeOK, ToldStored, PromiseNoted, ToldCached, [Next]_vars
  PROVE  ToldCached'
<1> SUFFICES ASSUME ppc' \in {"timer", "poll"}, NEW u \in Users, told'[u] # NoRow
             PROVE  u \in m_setManagerCache' \/ "select" \in hidden'
  BY DEF ToldCached
<1>1. ppc # "poll" \/ UNCHANGED told \/ \E w \in Workers : DbOperation(w)
  <2>1. CASE Poll
    BY <2>1 DEF Poll
  <2>2. CASE ~Poll
    BY <2>2 DEF Next, PollFunc, vars, ClientSend, MinutePasses, TimerExpires,
       TestCacheFlag, UpdManagerCache, CheckTimer, OnMessage, RejectUnknown,
       RejectNoLogin, RejectMultiLogin, Accept, OnReqLogin, OnReqLogout, OnKeepAlive,
       SubmitTask, SkipCommand, TakeTask, RunTask, BeginReadRouter, EndReadRouter,
       StoreCacheBool, SendRsp
  <2>3. QED
    BY <2>1, <2>2
<1>2. told[u] # NoRow
  BY <1>1, ToldFrame, DbEffect
<1>3. CASE TestCacheFlag
  BY <1>2, <1>3 DEF TestCacheFlag, PromiseNoted, Promised, Noted
<1>4. CASE UpdManagerCache
  <2>1. u \in Names
    BY <1>2 DEF Names, ToldStored
  <2>2. QED
    BY <1>4, <2>1 DEF UpdManagerCache
<1>5. QED
  BY <1>2, <1>3, <1>4, CacheFrame DEF ToldCached

(* The frames of the sockets: what has left stays in the history, and a      *)
(* message keeps what its sender knew.                                       *)
LEMMA SocketFrame ==
  ASSUME TypeOK, [Next]_vars
  PROVE  /\ out \subseteq out'
         /\ \/ UNCHANGED tcp \/ Poll \/ \E q \in Requests : ClientSend(q)
<1>1. out \subseteq out'
  BY DEF Next, PollFunc, vars, ClientSend, MinutePasses, TimerExpires, TestCacheFlag,
         UpdManagerCache, CheckTimer, Poll, OnMessage, RejectUnknown, RejectNoLogin,
         RejectMultiLogin, Accept, OnReqLogin, OnReqLogout, OnKeepAlive, SubmitTask,
         SkipCommand, TakeTask, RunTask, DbOperation, BeginReadRouter, EndReadRouter,
         StoreCacheBool, SendRsp, Reply
<1>2. UNCHANGED tcp \/ Poll \/ \E q \in Requests : ClientSend(q)
  BY DEF Next, PollFunc, vars, MinutePasses, TimerExpires, TestCacheFlag,
         UpdManagerCache, CheckTimer, OnMessage, RejectUnknown, RejectNoLogin,
         RejectMultiLogin, Accept, OnReqLogin, OnReqLogout, OnKeepAlive, SubmitTask,
         SkipCommand, TakeTask, RunTask, DbOperation, BeginReadRouter, EndReadRouter,
         StoreCacheBool, SendRsp, clientVars
<1>3. QED
  BY <1>1, <1>2

(* What managers know was told by a response that has left.                  *)
LEMMA KnownAnsweredStep ==
  ASSUME TypeOK, KnownAnswered, [Next]_vars
  PROVE  KnownAnswered'
<1>1. OutIds \subseteq OutIds'
  BY SocketFrame DEF OutIds
<1>2. \A u \in Users : told'[u] # NoRow => told'[u] \in OutIds'
  <2> SUFFICES ASSUME NEW u \in Users, told'[u] # NoRow PROVE told'[u] \in OutIds'
    OBVIOUS
  <2>1. ASSUME NEW w \in Workers, DbOperation(w) PROVE told'[u] = told[u]
    BY <2>1, DbEffect
  <2>2. CASE told'[u] = told[u]
    BY <1>1, <2>2 DEF KnownAnswered
  <2>3. CASE Poll /\ told'[u] # told[u]
    <3>1. PICK p \in inproc : out' = out \cup {p} /\ told' = ToldAfter(p)
      BY <2>3 DEF Poll
    <3>2. told'[u] = p.m.req
      BY <2>3, <3>1 DEF ToldAfter
    <3>3. p.m \in Msg
      BY DEF TypeOK, Response
    <3>4. p.m.req \in Rows
      BY <3>3, MsgFields DEF Rows
    <3>5. QED
      BY <3>1, <3>2, <3>4 DEF OutIds
  <2>4. Poll \/ UNCHANGED told \/ \E w \in Workers : DbOperation(w)
    BY DEF Next, PollFunc, vars, ClientSend, MinutePasses, TimerExpires, TestCacheFlag,
       UpdManagerCache, CheckTimer, OnMessage, RejectUnknown, RejectNoLogin,
       RejectMultiLogin, Accept, OnReqLogin, OnReqLogout, OnKeepAlive, SubmitTask,
       SkipCommand, TakeTask, RunTask, BeginReadRouter, EndReadRouter,
       StoreCacheBool, SendRsp
  <2>5. QED
    BY <2>1, <2>2, <2>3, <2>4
<1>3. ASSUME NEW r \in Routers, NEW i \in 1 .. Len(tcp'[r]), tcp'[r][i].known # NoRow
      PROVE  tcp'[r][i].known \in OutIds'
  <2>1. tcp[r] \in Seq(Msg) /\ Len(tcp[r]) \in Nat
    BY ReqIds
  <2>2. CASE UNCHANGED tcp
    BY <1>1, <1>3, <2>2 DEF KnownAnswered
  <2>3. CASE Poll
    <3>1. tcp'[r] = tcp[r] \/ (tcp[r] # <<>> /\ tcp'[r] = Tail(tcp[r]))
      BY <2>3 DEF Poll, TypeOK
    <3>2. \E j \in 1 .. Len(tcp[r]) : tcp'[r][i] = tcp[r][j]
      <4>1. CASE tcp'[r] = tcp[r]
        BY <4>1
      <4>2. CASE tcp[r] # <<>> /\ tcp'[r] = Tail(tcp[r])
        <5>1. Len(tcp'[r]) = Len(tcp[r]) - 1
          BY <2>1, <4>2
        <5>2. tcp'[r][i] = tcp[r][i + 1]
          BY <2>1, <4>2, HeadTailProperties
        <5>3. i + 1 \in 1 .. Len(tcp[r])
          BY <2>1, <5>1
        <5>4. QED
          BY <5>2, <5>3
      <4>3. QED
        BY <3>1, <4>1, <4>2
    <3>3. QED
      BY <1>1, <1>3, <3>2 DEF KnownAnswered
  <2>4. ASSUME NEW q \in Requests, ClientSend(q)
        PROVE  tcp'[r][i].known \in OutIds'
    <3> DEFINE new == [user |-> q.user, router |-> q.router, cmd |-> q.cmd,
                       ele |-> q.ele, names |-> q.names, req |-> sent + 1,
                       known |-> told[q.user], sess |-> 0]
    <3>1. tcp'[r] = tcp[r] \/ tcp'[r] = Append(tcp[r], new)
      BY <2>4 DEF ClientSend, TypeOK
    <3>2. new.known = told[q.user] /\ q.user \in Users
      BY RequestsAssumption
    <3> HIDE DEF new
    <3>3. tcp'[r][i] = new \/ \E j \in 1 .. Len(tcp[r]) : tcp'[r][i] = tcp[r][j]
      <4>1. CASE tcp'[r] = tcp[r]
        BY <4>1
      <4>2. CASE tcp'[r] = Append(tcp[r], new)
        BY <2>1, <4>2
      <4>3. QED
        BY <3>1, <4>1, <4>2
    <3>4. QED
      BY <1>1, <1>3, <3>2, <3>3 DEF KnownAnswered
  <2>5. QED
    BY <2>2, <2>3, <2>4, SocketFrame
<1>4. QED
  BY <1>2, <1>3 DEF KnownAnswered

(* A message is fixed before anything new is told, so what its sender knows  *)
(* was told before the refresh.                                              *)
LEMMA IdentifiedStep ==
  ASSUME TypeOK, FlightInv, AckInv, [Next]_vars
  PROVE  AcknowledgedUserIdentified'
<1> SUFFICES ASSUME ppc' = "recv", cur'.known # NoRow, cur'.known = told'[cur'.user],
                    "select" \notin hidden'
             PROVE  cur'.user \in m_setManagerCache'
  BY DEF AcknowledgedUserIdentified
<1>1. CASE Poll
  <2>1. PICK r \in Routers : tcp[r] # <<>> /\ cur' = Head(tcp[r])
    BY <1>1 DEF Poll
  <2>2. tcp[r] \in Seq(Msg)
    BY ReqIds
  <2>3. cur' = tcp[r][1] /\ 1 \in 1 .. Len(tcp[r]) /\ cur' \in Msg
    BY <2>1, <2>2
  <2>4. cur'.user \in Users /\ cur'.known \in OutIds
    BY <2>3, MsgFields DEF AckInv, KnownAnswered
  <2>5. told[cur'.user] # NoRow
    <3>1. CASE told'[cur'.user] = told[cur'.user]
      BY <3>1
    <3>2. CASE told'[cur'.user] # told[cur'.user]
      <4>1. PICK p \in inproc : told' = ToldAfter(p)
        BY <1>1, <3>2 DEF Poll
      <4>2. cur'.known = p.m.req
        BY <2>4, <3>2, <4>1 DEF ToldAfter
      <4>3. PICK q \in out : q.m.req = p.m.req
        BY <2>4, <4>2 DEF OutIds
      <4>4. QED
        BY <4>3 DEF FlightInv, ResponsesOnce
    <3>3. QED
      BY <3>1, <3>2
  <2>6. UNCHANGED <<m_setManagerCache, hidden>> /\ ppc = "poll"
    BY <1>1 DEF Poll, cacheVars
  <2>7. QED
    BY <2>4, <2>5, <2>6 DEF AckInv, ToldCached
<1>2. CASE ~Poll
  <2>1. ppc = "recv" /\ UNCHANGED <<cur, m_setManagerCache>> /\ hidden \subseteq hidden'
    <3>1. ASSUME NEW w \in Workers, DbOperation(w) PROVE hidden \subseteq hidden'
      BY <3>1, DbEffect
    <3>2. ASSUME NEW w \in Workers, RunTask(w)
          PROVE  UNCHANGED <<ppc, cur, m_setManagerCache>> /\ hidden \subseteq hidden'
      <4>1. CASE DbOperation(w)
        BY <3>1, <4>1 DEF DbOperation, pollVars
      <4>2. CASE ~DbOperation(w)
        BY <3>2, <4>2 DEF RunTask, BeginReadRouter, EndReadRouter, StoreCacheBool,
                          SendRsp, pollVars, cacheVars
      <4>3. QED
        BY <4>1, <4>2
    <3>3. CASE \/ \E q \in Requests : ClientSend(q)
               \/ \E u \in Users : MinutePasses(u)
               \/ TimerExpires \/ UNCHANGED vars
               \/ \E w \in Workers : TakeTask(w)
      BY <3>3 DEF ClientSend, MinutePasses, TimerExpires, TakeTask, vars, pollVars, cacheVars
    <3>4. CASE PollFunc
      BY <1>2, <3>4 DEF PollFunc, TestCacheFlag, UpdManagerCache, CheckTimer, OnMessage,
         RejectUnknown, RejectNoLogin, RejectMultiLogin, Accept, OnReqLogin,
         OnReqLogout, OnKeepAlive, SubmitTask, SkipCommand, EndOfMessage
    <3>5. QED
      BY <3>2, <3>3, <3>4 DEF Next
  <2>2. cur.user \in Users
    BY <2>1, MsgFields, ReqIds
  <2>3. told'[cur.user] = told[cur.user]
    BY <2>1, <2>2, ToldFrame, DbEffect
  <2>4. QED
    BY <2>1, <2>3 DEF AckInv, AcknowledgedUserIdentified
<1>3. QED
  BY <1>1, <1>2

(* A manager that was told of an inserted user can have that user identified *)
(* from then on: whatever the pool threads do meanwhile, the refresh of the  *)
(* cache comes before the message that relies on it.                         *)
THEOREM AcknowledgedUsersIdentified == Spec => []AcknowledgedUserIdentified
<1>1. Init => AckInv
  <2> SUFFICES ASSUME Init PROVE AckInv
    OBVIOUS
  <2>1. \A u \in Users : told[u] = NoRow
    BY DEF Init
  <2>2. \A r \in Routers : Len(tcp[r]) = 0
    BY DEF Init
  <2>3. m_bUpdManagerCache /\ ppc = "top"
    BY DEF Init
  <2>4. QED
    BY <2>1, <2>2, <2>3 DEF AckInv, ToldStored, PromiseNoted, Noted, ToldCached,
       KnownAnswered, AcknowledgedUserIdentified
<1>2. TypeOK /\ FlightInv /\ AckInv /\ [Next]_vars => AckInv'
  <2> SUFFICES ASSUME TypeOK, FlightInv, AckInv, [Next]_vars PROVE AckInv'
    OBVIOUS
  <2>1. QED
    BY PromiseStep, ToldCachedStep, KnownAnsweredStep, IdentifiedStep DEF AckInv
<1>3. AckInv => AcknowledgedUserIdentified
  BY DEF AckInv
<1>4. QED
  BY <1>1, <1>2, <1>3, FlightInvHolds, PTL DEF Spec
=============================================================================
