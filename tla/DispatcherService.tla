-------------------------- MODULE DispatcherService --------------------------
(***************************************************************************)
(* The dispatcher service of StragetyDeployer/DispatcherService.{h,cpp}:    *)
(* the poll thread (pollFunc), the tasks it submits to the thread pool (the *)
(* on...BySql and on...ByObjects handlers), the user sessions, the cache of *)
(* manager names and the SQLite table ManageUser behind it.                 *)
(*                                                                          *)
(* The poll thread is split at every point where a pool thread can disturb  *)
(* it: the test-and-clear of m_bUpdManagerCache, the select under           *)
(* m_mtxSqlite, the timer, zmq::poll and the handling of one message.  A    *)
(* pool thread is split at the database operation (one step: every access   *)
(* holds m_mtxSqlite), the unlocked read of client->m_strRouter, which      *)
(* takes two steps so that an assignment by the poll thread can fall into   *)
(* it, the store to m_bUpdManagerCache and the last frame of the response.  *)
(*                                                                          *)
(* Rows are abstracted to the request that inserted them, the four          *)
(* configuration tables to the outcome of the operation on them.            *)
(***************************************************************************)
EXTENDS Integers, Sequences, FiniteSets

CONSTANTS
  Users,     \* manager names
  Routers,   \* ZMQ_ROUTER ids, one for each client connection
  Workers,   \* the threads of threadPool
  Requests,  \* what clients send: user, router, command, element type, names
  MaxReq,    \* bound on the number of messages the clients send
  Seed,      \* the names in ManageUser when the service starts
  DbFaults,  \* whether SQLite may fail for reasons of its own (I/O, busy)
  NoRouter   \* the empty router id of a new DispatcherClient

Cmds     == {"Login", "Logout", "KeepAlive", "Query", "Insert", "Delete",
             "DelByCol", "Update", "Deploy"}
DbCmds   == {"Query", "Insert", "Delete", "DelByCol", "Update"}
Elements == {"ManageUser", "Config", "Unknown"}

\* An element type outside EElementType would index AllTableNames out of its
\* bounds in TQuery and TDelByCol; the client library never sends one.
ASSUME RequestsAssumption ==
  /\ Requests \subseteq [user : Users, router : Routers, cmd : Cmds,
                         ele : Elements, names : Seq(Users)]
  /\ \A q \in Requests : q.ele = "Unknown" => q.cmd \notin {"Query", "DelByCol"}
ASSUME BoundAssumption == MaxReq \in Nat /\ DbFaults \in BOOLEAN
ASSUME NamesAssumption == Seed \subseteq Users /\ NoRouter \notin Routers

NoRow   == 0    \* no row with this ManagerName
SeedRow == -1   \* a row of the database the service was started with
Rows    == {NoRow, SeedRow} \cup 1 .. MaxReq

\* A message in flight.  "known" and "sess" are history: the row the sender had
\* been told about, and the session in which the service accepted it.
Msg == [user : Users, router : Routers, cmd : Cmds, ele : Elements,
        names : Seq(Users), req : 1 .. MaxReq, known : Rows, sess : Nat]

Errors == {"Success", "ReplicatedLogin", "IdentifyErr", "NoLogin", "MultiLogin",
           "DbError"}

\* A response, addressed "to" a router.  "same" is history: the session of the
\* request still lasted when the router id was read.
Response == [m : Msg, to : Routers \cup {NoRouter}, err : Errors, same : BOOLEAN]

VARIABLES
  db,                  \* ManageUser: the row of every name
  m_setManagerCache,   \* the cached names
  m_bUpdManagerCache,  \* "ManageUser was modified"
  m_mapClients,        \* the users that have a DispatcherClient
  m_bLogin, m_strRouter,
  recentRead,          \* m_tLastRead is at most one minute old
  timerDue,            \* m_timerKA has run out
  ppc, cur,            \* where pollFunc is, and the message it handles
  tcp,                 \* messages waiting in m_sockBind, by connection
  tasks,               \* the queue of threadPool
  wpc, wmsg,           \* where each pool thread is, and its task
  wres, wseen, wto,    \* result, router ids seen while reading, id used
  wsame,               \* history for Response.same
  inproc,              \* responses waiting in m_sockInprocServer
  out,                 \* history: the responses handed to m_sockBind
  pushed,              \* connections with an unanswered keep-alive push
  sent,                \* how many messages the clients have sent
  session,             \* history: counts the changes of m_bLogin
  told,                \* history: the row whose insertion was acknowledged
  hidden               \* history: why the cache may be out of date unnoticed

cacheVars   == <<db, m_setManagerCache, m_bUpdManagerCache, hidden>>
sessionVars == <<m_mapClients, m_bLogin, m_strRouter, recentRead, session>>
pollVars    == <<ppc, cur>>
workerVars  == <<wpc, wmsg, wres, wseen, wto, wsame>>
clientVars  == <<tcp, pushed, sent>>
vars == <<db, m_setManagerCache, m_bUpdManagerCache, hidden, m_mapClients,
          m_bLogin, m_strRouter, recentRead, session, timerDue, ppc, cur, tcp,
          tasks, wpc, wmsg, wres, wseen, wto, wsame, inproc, out, pushed, sent,
          told>>

Names == {u \in Users : db[u] # NoRow}

NoMsg == [req |-> 0]

TypeOK ==
  /\ db \in [Users -> Rows]
  /\ m_setManagerCache \in SUBSET Users
  /\ m_bUpdManagerCache \in BOOLEAN
  /\ m_mapClients \in SUBSET Users
  /\ m_bLogin \in [Users -> BOOLEAN]
  /\ m_strRouter \in [Users -> Routers \cup {NoRouter}]
  /\ recentRead \in [Users -> BOOLEAN]
  /\ timerDue \in BOOLEAN
  /\ ppc \in {"top", "select", "timer", "poll", "recv"}
  /\ cur \in Msg \cup {NoMsg}
  /\ ppc = "recv" <=> cur # NoMsg
  /\ tcp \in [Routers -> Seq(Msg)]
  /\ tasks \in Seq(Msg)
  /\ wpc \in [Workers -> {"idle", "db", "read", "reading", "store", "send"}]
  /\ wmsg \in [Workers -> Msg \cup {NoMsg}]
  /\ \A w \in Workers : wpc[w] # "idle" => wmsg[w] # NoMsg
  /\ wres \in [Workers -> {"ok", "err"}]
  /\ wseen \in [Workers -> SUBSET (Routers \cup {NoRouter})]
  /\ wto \in [Workers -> Routers \cup {NoRouter}]
  /\ wsame \in [Workers -> BOOLEAN]
  /\ inproc \in SUBSET Response
  /\ out \in SUBSET Response
  /\ pushed \in SUBSET Routers
  /\ sent \in 0 .. MaxReq
  /\ session \in [Users -> Nat]
  /\ told \in [Users -> Rows]
  /\ hidden \in SUBSET {"partial", "select"}

Init ==
  /\ db = [u \in Users |-> IF u \in Seed THEN SeedRow ELSE NoRow]
  /\ m_setManagerCache = {}
  /\ m_bUpdManagerCache = TRUE
  /\ m_mapClients = {}
  /\ m_bLogin = [u \in Users |-> FALSE]
  /\ m_strRouter = [u \in Users |-> NoRouter]
  /\ recentRead = [u \in Users |-> FALSE]
  /\ timerDue = FALSE
  /\ ppc = "top" /\ cur = NoMsg
  /\ tcp = [r \in Routers |-> <<>>]
  /\ tasks = <<>>
  /\ wpc = [w \in Workers |-> "idle"]
  /\ wmsg = [w \in Workers |-> NoMsg]
  /\ wres = [w \in Workers |-> "ok"]
  /\ wseen = [w \in Workers |-> {}]
  /\ wto = [w \in Workers |-> NoRouter]
  /\ wsame = [w \in Workers |-> FALSE]
  /\ inproc = {} /\ out = {} /\ pushed = {} /\ sent = 0
  /\ session = [u \in Users |-> 0]
  /\ told = [u \in Users |-> NoRow]
  /\ hidden = {}

-----------------------------------------------------------------------------
(* Clients and time                                                         *)

\* A client sends a message; a keep-alive only in answer to a push.
ClientSend(q) ==
  /\ sent < MaxReq
  /\ q.cmd = "KeepAlive" => q.router \in pushed
  /\ sent' = sent + 1
  /\ pushed' = IF q.cmd = "KeepAlive" THEN pushed \ {q.router} ELSE pushed
  /\ tcp' = [tcp EXCEPT ![q.router] = Append(@,
       [user |-> q.user, router |-> q.router, cmd |-> q.cmd, ele |-> q.ele,
        names |-> q.names, req |-> sent + 1, known |-> told[q.user],
        sess |-> 0])]
  /\ UNCHANGED <<cacheVars, sessionVars, pollVars, workerVars, timerDue, tasks,
                 inproc, out, told>>

\* A minute passes without a message of this user being accepted.
MinutePasses(u) ==
  /\ recentRead[u]
  /\ recentRead' = [recentRead EXCEPT ![u] = FALSE]
  /\ UNCHANGED <<cacheVars, m_mapClients, m_bLogin, m_strRouter, session,
                 pollVars, workerVars, clientVars, timerDue, tasks, inproc, out,
                 told>>

\* Ten seconds pass since the last recount().
TimerExpires ==
  /\ ~timerDue
  /\ timerDue' = TRUE
  /\ UNCHANGED <<cacheVars, sessionVars, pollVars, workerVars, clientVars,
                 tasks, inproc, out, told>>

-----------------------------------------------------------------------------
(* pollFunc                                                                 *)

\* Mutant: the cache is refreshed only when the timer has run out.
TestCacheFlagOnTimer ==
  /\ ppc = "top"
  /\ ppc' = IF m_bUpdManagerCache /\ timerDue THEN "select" ELSE "timer"
  /\ m_bUpdManagerCache' = (m_bUpdManagerCache /\ ~timerDue)
  /\ UNCHANGED <<db, m_setManagerCache, hidden, cur, sessionVars, workerVars,
                 clientVars, timerDue, tasks, inproc, out, told>>

\* compare_exchange_strong(true, false)
TestCacheFlag ==
  /\ ppc = "top"
  /\ ppc' = IF m_bUpdManagerCache THEN "select" ELSE "timer"
  /\ m_bUpdManagerCache' = FALSE
  /\ UNCHANGED <<db, m_setManagerCache, hidden, cur, sessionVars, workerVars,
                 clientVars, timerDue, tasks, inproc, out, told>>

\* The select of all names, and the replacement of the cache by its result. A
\* select that fails returns the rows it got so far, or none.
UpdManagerCache ==
  /\ ppc = "select"
  /\ ppc' = "timer"
  /\ \E rows \in (IF DbFaults THEN SUBSET Names ELSE {Names}) :
       /\ m_setManagerCache' = rows
       /\ hidden' = IF rows = Names THEN {} ELSE {"select"}
  /\ UNCHANGED <<db, m_bUpdManagerCache, cur, sessionVars, workerVars,
                 clientVars, timerDue, tasks, inproc, out, told>>

\* The session counter moves whenever m_bLogin does.
CountSessions ==
  session' = [u \in Users |-> IF m_bLogin'[u] # m_bLogin[u] THEN session[u] + 1
                                                            ELSE session[u]]

\* Mutant: the silent clients get no push, but their sessions stay.
KatimeHandleNoLogout ==
  /\ pushed' = pushed \cup
       ({m_strRouter[u] : u \in {v \in m_mapClients : recentRead[v]}} \ {NoRouter})
  /\ UNCHANGED <<m_bLogin, session>>

\* katimeHandle: end the silent sessions, push a keep-alive to everybody else.
KatimeHandle ==
  /\ m_bLogin' = [u \in Users |-> m_bLogin[u] /\ recentRead[u]]
  /\ CountSessions
  /\ pushed' = pushed \cup
       ({m_strRouter[u] : u \in {v \in m_mapClients : recentRead[v]}} \ {NoRouter})

CheckTimer ==
  /\ ppc = "timer"
  /\ ppc' = "poll"
  /\ \/ /\ timerDue
        /\ KatimeHandle
        /\ timerDue' = FALSE
     \/ /\ ~timerDue
        /\ UNCHANGED <<m_bLogin, session, pushed, timerDue>>
  /\ UNCHANGED <<cacheVars, m_mapClients, m_strRouter, recentRead, cur,
                 workerVars, tcp, sent, tasks, inproc, out, told>>

\* What the managers know once response p has been delivered.
ToldAfter(p) ==
  [u \in Users |->
     IF /\ p.err = "Success" /\ p.m.cmd = "Insert" /\ p.m.ele = "ManageUser"
        /\ db[u] = p.m.req
     THEN p.m.req ELSE told[u]]

\* zmq::poll, and the forwarding of one response.  The ROUTER socket fetches
\* the message it reports, so the message handled next is fixed here.
Poll ==
  /\ ppc = "poll"
  /\ \/ /\ inproc = {}
        /\ UNCHANGED <<inproc, out, told>>
     \/ \E p \in inproc :
          /\ inproc' = inproc \ {p}
          /\ out' = out \cup {p}
          /\ told' = ToldAfter(p)
  /\ \/ /\ \A r \in Routers : tcp[r] = <<>>
        /\ ppc' = "top"
        /\ UNCHANGED <<cur, tcp>>
     \/ \E r \in Routers :
          /\ tcp[r] # <<>>
          /\ cur' = Head(tcp[r])
          /\ tcp' = [tcp EXCEPT ![r] = Tail(@)]
          /\ ppc' = "recv"
  /\ UNCHANGED <<cacheVars, sessionVars, workerVars, timerDue, tasks, pushed,
                 sent>>

-----------------------------------------------------------------------------
(* The handling of one message, after router id, manager id and command     *)

\* The poll thread answers on m_sockBind itself.
Reply(err) ==
  out' = out \cup {[m |-> cur, to |-> cur.router, err |-> err, same |-> TRUE]}

IdentifyUser == cur.user \in m_setManagerCache

\* Mutant: the message is not finished with.
EndOfMessageKept == ppc = "recv" /\ ppc' = "top" /\ UNCHANGED cur

EndOfMessage == ppc = "recv" /\ ppc' = "top" /\ cur' = NoMsg

RejectUnknown ==
  /\ EndOfMessage
  /\ ~IdentifyUser
  /\ Reply("IdentifyErr")
  /\ UNCHANGED <<cacheVars, sessionVars, workerVars, clientVars, timerDue, tasks,
                 inproc, told>>

\* A first message makes a DispatcherClient, with m_tLastRead = now.
FindClient ==
  /\ m_mapClients' = m_mapClients \cup {cur.user}
  /\ recentRead' = [recentRead EXCEPT ![cur.user] =
                      @ \/ cur.user \notin m_mapClients]

RejectNoLogin ==
  /\ EndOfMessage
  /\ IdentifyUser
  /\ ~m_bLogin[cur.user] /\ cur.cmd \notin {"Login", "KeepAlive"}
  /\ FindClient
  /\ Reply("NoLogin")
  /\ UNCHANGED <<cacheVars, m_bLogin, m_strRouter, session, workerVars,
                 clientVars, timerDue, tasks, inproc, told>>

\* Mutant: m_tLastRead is renewed before the same-login-point check.
RejectMultiLoginRenews ==
  /\ EndOfMessage
  /\ IdentifyUser
  /\ m_bLogin[cur.user] /\ m_strRouter[cur.user] # cur.router
  /\ recentRead' = [recentRead EXCEPT ![cur.user] = TRUE]
  /\ Reply("MultiLogin")
  /\ UNCHANGED <<cacheVars, m_mapClients, m_bLogin, m_strRouter, session,
                 workerVars, clientVars, timerDue, tasks, inproc, told>>

RejectMultiLogin ==
  /\ EndOfMessage
  /\ IdentifyUser
  /\ m_bLogin[cur.user] /\ m_strRouter[cur.user] # cur.router
  /\ FindClient
  /\ Reply("MultiLogin")
  /\ UNCHANGED <<cacheVars, m_bLogin, m_strRouter, session, workerVars,
                 clientVars, timerDue, tasks, inproc, told>>

\* Mutant: no same-login-point check.
AcceptAnyRouter ==
  /\ EndOfMessage
  /\ IdentifyUser
  /\ m_bLogin[cur.user] \/ cur.cmd \in {"Login", "KeepAlive"}
  /\ m_mapClients' = m_mapClients \cup {cur.user}
  /\ m_strRouter' = [m_strRouter EXCEPT ![cur.user] = cur.router]
  /\ recentRead' = [recentRead EXCEPT ![cur.user] = TRUE]
  /\ UNCHANGED <<db, m_setManagerCache, hidden, workerVars, clientVars,
                 timerDue, inproc, told>>

\* Past both checks: the client's router id and m_tLastRead are renewed.  A
\* pool thread that is reading this router id now sees both values.
Accept ==
  /\ EndOfMessage
  /\ IdentifyUser
  /\ \/ m_bLogin[cur.user] /\ m_strRouter[cur.user] = cur.router
     \/ ~m_bLogin[cur.user] /\ cur.cmd \in {"Login", "KeepAlive"}
  /\ m_mapClients' = m_mapClients \cup {cur.user}
  /\ m_strRouter' = [m_strRouter EXCEPT ![cur.user] = cur.router]
  /\ recentRead' = [recentRead EXCEPT ![cur.user] = TRUE]
  /\ wseen' = [w \in Workers |->
                 IF wpc[w] = "reading" /\ wmsg[w].user = cur.user
                 THEN wseen[w] \cup {cur.router} ELSE wseen[w]]
  /\ UNCHANGED <<db, m_setManagerCache, hidden, wpc, wmsg, wres, wto, wsame,
                 clientVars, timerDue, inproc, told>>

OnReqLogin ==
  /\ Accept
  /\ cur.cmd = "Login"
  /\ Reply(IF m_bLogin[cur.user] THEN "ReplicatedLogin" ELSE "Success")
  /\ m_bLogin' = [m_bLogin EXCEPT ![cur.user] = TRUE]
  /\ CountSessions
  /\ UNCHANGED <<m_bUpdManagerCache, tasks>>

OnReqLogout ==
  /\ Accept
  /\ cur.cmd = "Logout"
  /\ Reply("Success")
  /\ m_bLogin' = [m_bLogin EXCEPT ![cur.user] = FALSE]
  /\ CountSessions
  /\ UNCHANGED <<m_bUpdManagerCache, tasks>>

OnKeepAlive ==
  /\ Accept
  /\ cur.cmd = "KeepAlive"
  /\ UNCHANGED <<m_bUpdManagerCache, m_bLogin, session, out, tasks>>

\* A database command becomes a task.  TInsert into ManageUser sets the flag
\* already here, before the task is submitted.
SubmitTask ==
  /\ Accept
  /\ cur.cmd \in DbCmds /\ cur.ele # "Unknown"
  /\ tasks' = Append(tasks, [cur EXCEPT !.sess = session[cur.user]])
  /\ m_bUpdManagerCache' =
       (m_bUpdManagerCache \/ (cur.cmd = "Insert" /\ cur.ele = "ManageUser"))
  /\ UNCHANGED <<m_bLogin, session, out>>

\* TDeploy, TExecute, TFinish, unknown commands and unknown element types: the
\* remaining frames are skipped and nothing is answered.
SkipCommand ==
  /\ Accept
  /\ cur.cmd = "Deploy" \/ (cur.cmd \in DbCmds /\ cur.ele = "Unknown")
  /\ UNCHANGED <<m_bUpdManagerCache, m_bLogin, session, out, tasks>>

OnMessage ==
  \/ RejectUnknown \/ RejectNoLogin \/ RejectMultiLogin
  \/ OnReqLogin \/ OnReqLogout \/ OnKeepAlive \/ SubmitTask \/ SkipCommand

PollFunc == TestCacheFlag \/ UpdManagerCache \/ CheckTimer \/ Poll \/ OnMessage

-----------------------------------------------------------------------------
(* The tasks, on the threads of the pool                                    *)

\* Mutant: the task stays at the front of the queue.
TakeTaskWithoutPop(w) ==
  /\ wpc[w] = "idle"
  /\ tasks # <<>>
  /\ wpc' = [wpc EXCEPT ![w] = "db"]
  /\ wmsg' = [wmsg EXCEPT ![w] = Head(tasks)]
  /\ UNCHANGED <<cacheVars, sessionVars, pollVars, clientVars, timerDue, tasks,
                 wres, wseen, wto, wsame, inproc, out, told>>

TakeTask(w) ==
  /\ wpc[w] = "idle"
  /\ tasks # <<>>
  /\ wpc' = [wpc EXCEPT ![w] = "db"]
  /\ wmsg' = [wmsg EXCEPT ![w] = Head(tasks)]
  /\ tasks' = Tail(tasks)
  /\ UNCHANGED <<cacheVars, sessionVars, pollVars, clientVars, timerDue, wres,
                 wseen, wto, wsame, inproc, out, told>>

\* The first k names can be inserted: ManagerName is UNIQUE.
Insertable(names, k) ==
  \A i \in 1 .. k : /\ db[names[i]] = NoRow
                    /\ \A j \in 1 .. i - 1 : names[j] # names[i]

\* InsertByVector: every row commits by itself, as no transaction was begun;
\* the first row that fails ends the loop and the rollback undoes nothing.
InsertUsers(m, res) ==
  \E k \in 0 .. Len(m.names) :
    /\ Insertable(m.names, k)
    /\ \/ res = "ok" /\ k = Len(m.names)
       \/ /\ res = "err" /\ k < Len(m.names)
          /\ DbFaults \/ ~Insertable(m.names, k + 1)
    /\ db' = [u \in Users |-> IF \E i \in 1 .. k : m.names[i] = u THEN m.req
                                                                  ELSE db[u]]

\* The rows that TDelete names, or that satisfy every filter of TDelByCol.
Doomed(m) ==
  IF m.cmd = "Delete" THEN {u \in Users : \E i \in 1 .. Len(m.names) : m.names[i] = u}
                      ELSE {u \in Users : \A i \in 1 .. Len(m.names) : m.names[i] = u}

\* The rows gone when DeleteByVector has failed: none, as the transaction is rolled
\* back, or those before the failing one when there is no transaction (the result
\* of beginTransaction is not looked at).  delBySql is a single statement.
GoneOnError(m) ==
  {{}} \cup {{m.names[i] : i \in 1 .. k} : k \in IF m.cmd = "Delete"
                                            THEN 0 .. Len(m.names) - 1 ELSE {}}

\* DeleteByVector and delBySql run in a transaction: all rows or none.  A commit
\* that fails goes unnoticed, too: ok is reported and no row is gone.
DeleteUsers(m, res) ==
  \E gone \in SUBSET Users :
    /\ \/ res = "ok" /\ (gone = Doomed(m) \/ (DbFaults /\ gone = {}))
       \/ /\ res = "err" /\ DbFaults /\ gone \in GoneOnError(m)
          /\ m.cmd = "Delete" => m.names # <<>>
    /\ db' = [u \in Users |-> IF u \in gone THEN NoRow ELSE db[u]]

\* TQuery, and TUpdate, which sets ManagerName to the name it looks up.
KeepUsers(res) ==
  /\ res = "ok" \/ DbFaults
  /\ UNCHANGED db

\* The database operation, with m_mtxSqlite held.  A row that is deleted is
\* also forgotten by the history of acknowledged insertions.
DbOperation(w) ==
  /\ wpc[w] = "db"
  /\ wpc' = [wpc EXCEPT ![w] = "read"]
  /\ \E res \in {"ok", "err"} :
       /\ wres' = [wres EXCEPT ![w] = res]
       /\ \/ wmsg[w].ele = "Config" /\ UNCHANGED db
          \/ /\ wmsg[w].ele = "ManageUser"
             /\ \/ wmsg[w].cmd = "Insert" /\ InsertUsers(wmsg[w], res)
                \/ wmsg[w].cmd \in {"Delete", "DelByCol"} /\ DeleteUsers(wmsg[w], res)
                \/ wmsg[w].cmd \in {"Query", "Update"} /\ KeepUsers(res)
       /\ hidden' = IF res = "err" /\ db' # db THEN hidden \cup {"partial"} ELSE hidden
  /\ told' = [u \in Users |-> IF db'[u] = NoRow THEN NoRow ELSE told[u]]
  /\ UNCHANGED <<m_setManagerCache, m_bUpdManagerCache, sessionVars, pollVars,
                 clientVars, timerDue, tasks, wmsg, wseen, wto, wsame, inproc, out>>

\* outerSendMsg(client->m_strRouter): the read begins ...
BeginReadRouter(w) ==
  /\ wpc[w] = "read"
  /\ wpc' = [wpc EXCEPT ![w] = "reading"]
  /\ wseen' = [wseen EXCEPT ![w] = {m_strRouter[wmsg[w].user]}]
  /\ UNCHANGED <<cacheVars, sessionVars, pollVars, clientVars, timerDue, tasks,
                 wmsg, wres, wto, wsame, inproc, out, told>>

\* ... and ends. A read that overlapped the assignment of a different id may
\* give either id or a mixture: another connection's id or nobody's.
EndReadRouter(w) ==
  /\ wpc[w] = "reading"
  /\ wpc' = [wpc EXCEPT ![w] = "store"]
  /\ \E r \in Routers \cup {NoRouter} :
       /\ r \in wseen[w] \/ (\E a, b \in wseen[w] : a # b)
       /\ wto' = [wto EXCEPT ![w] = r]
  /\ wsame' = [wsame EXCEPT ![w] = (wmsg[w].sess = session[wmsg[w].user])]
  /\ UNCHANGED <<cacheVars, sessionVars, pollVars, clientVars, timerDue, tasks,
                 wmsg, wres, wseen, inproc, out, told>>

\* Mutant: onInsByObjects relies on the flag set before the task was submitted.
StoresFlagNotForInsert(w) ==
  wres[w] = "ok" /\ wmsg[w].ele = "ManageUser" /\ wmsg[w].cmd \notin {"Query", "Insert"}

\* Whether the handler goes on to storeCacheBool<ManageUser>(true).
StoresFlag(w) ==
  wres[w] = "ok" /\ wmsg[w].ele = "ManageUser" /\ wmsg[w].cmd # "Query"

\* Mutant: onDelBySql does not call storeCacheBool.
StoreCacheBoolNotByCol(w) ==
  /\ wpc[w] = "store"
  /\ wpc' = [wpc EXCEPT ![w] = "send"]
  /\ m_bUpdManagerCache' = (m_bUpdManagerCache
                              \/ (StoresFlag(w) /\ wmsg[w].cmd # "DelByCol"))
  /\ UNCHANGED <<db, m_setManagerCache, hidden, sessionVars, pollVars,
                 clientVars, timerDue, tasks, wmsg, wres, wseen, wto, wsame,
                 inproc, out, told>>

StoreCacheBool(w) ==
  /\ wpc[w] = "store"
  /\ wpc' = [wpc EXCEPT ![w] = "send"]
  /\ m_bUpdManagerCache' = (m_bUpdManagerCache \/ StoresFlag(w))
  /\ UNCHANGED <<db, m_setManagerCache, hidden, sessionVars, pollVars,
                 clientVars, timerDue, tasks, wmsg, wres, wseen, wto, wsame,
                 inproc, out, told>>

\* Mutant: the handler returns early when the database operation failed.
SendRspOnSuccess(w) ==
  /\ wpc[w] = "send"
  /\ wpc' = [wpc EXCEPT ![w] = "idle"]
  /\ wmsg' = [wmsg EXCEPT ![w] = NoMsg]
  /\ inproc' = IF wres[w] = "err" THEN inproc ELSE inproc \cup
       {[m |-> wmsg[w], to |-> wto[w], err |-> "Success", same |-> wsame[w]]}
  /\ wres' = [wres EXCEPT ![w] = "ok"]
  /\ wseen' = [wseen EXCEPT ![w] = {}]
  /\ wto' = [wto EXCEPT ![w] = NoRouter]
  /\ wsame' = [wsame EXCEPT ![w] = FALSE]
  /\ UNCHANGED <<cacheVars, sessionVars, pollVars, clientVars, timerDue, tasks,
                 out, told>>

\* The last frame: only now is the whole response in the inproc socket.  The
\* handler's local variables go out of scope.
SendRsp(w) ==
  /\ wpc[w] = "send"
  /\ wpc' = [wpc EXCEPT ![w] = "idle"]
  /\ wmsg' = [wmsg EXCEPT ![w] = NoMsg]
  /\ inproc' = inproc \cup
       {[m |-> wmsg[w], to |-> wto[w],
         err |-> IF wres[w] = "ok" THEN "Success" ELSE "DbError",
         same |-> wsame[w]]}
  /\ wres' = [wres EXCEPT ![w] = "ok"]
  /\ wseen' = [wseen EXCEPT ![w] = {}]
  /\ wto' = [wto EXCEPT ![w] = NoRouter]
  /\ wsame' = [wsame EXCEPT ![w] = FALSE]
  /\ UNCHANGED <<cacheVars, sessionVars, pollVars, clientVars, timerDue, tasks,
                 out, told>>

RunTask(w) ==
  \/ DbOperation(w) \/ BeginReadRouter(w) \/ EndReadRouter(w)
  \/ StoreCacheBool(w) \/ SendRsp(w)

-----------------------------------------------------------------------------
Next ==
  \/ \E q \in Requests : ClientSend(q)
  \/ \E u \in Users : MinutePasses(u)
  \/ TimerExpires
  \/ PollFunc
  \/ \E w \in Workers : TakeTask(w) \/ RunTask(w)

Spec == Init /\ [][Next]_vars

(* pollFunc never stops, the pool runs what is submitted to it (see          *)
(* QueuedTaskRuns of FixedThreaPool) and ten seconds do pass.  Clients are   *)
(* free to send nothing, and a client need not fall silent.                  *)
Fairness ==
  /\ WF_vars(PollFunc)
  /\ WF_vars(TimerExpires)
  /\ \A w \in Workers : WF_vars(TakeTask(w)) /\ WF_vars(RunTask(w))

FairSpec == Spec /\ Fairness
-----------------------------------------------------------------------------
(* Properties                                                               *)

\* Pool thread w has committed a change of ManageUser and is on its way to
\* storeCacheBool.
FlagPending(w) == wpc[w] \in {"read", "reading", "store"} /\ StoresFlag(w)

(* The cache of names is never out of date without something being under way *)
(* that will refresh it: the flag is set, the poll thread has cleared it and *)
(* has yet to select, or a pool thread has changed the table and has yet to  *)
(* set the flag.  The two exceptions are an insertion, or a deletion without *)
(* a transaction, that failed after some rows, and a select that failed.     *)
(* This rests on the flag being cleared before the select and set after the  *)
(* commit (cpp 55-58, h 210-231).                                            *)
CacheStaleOnlyIfNoted ==
  \/ m_setManagerCache = Names
  \/ m_bUpdManagerCache
  \/ ppc = "select"
  \/ \E w \in Workers : FlagPending(w)
  \/ hidden # {}

(* The same without the exception: m_bUpdManagerCache is "the flag of        *)
(* modifying operations on the ManageUser table" (DispatcherService.h:97).   *)
ModificationFlagged ==
  \/ m_setManagerCache = Names
  \/ m_bUpdManagerCache
  \/ ppc = "select"
  \/ \E w \in Workers : FlagPending(w)

(* A user whose insertion was acknowledged to a manager before it sent its   *)
(* message is identified when the message is handled, as long as the row is  *)
(* still there and no select failed: the store to the flag precedes the last *)
(* frame of the response, the refresh precedes the poll and the poll fixes   *)
(* the message (cpp 55-95, h 257-259).                                       *)
AcknowledgedUserIdentified ==
  (/\ ppc = "recv" /\ cur.known # NoRow /\ cur.known = told[cur.user]
   /\ "select" \notin hidden)
    => cur.user \in m_setManagerCache

\* The requests on their way through the pool.
PendingMsgs == {tasks[i] : i \in 1 .. Len(tasks)}
                 \cup {wmsg[w] : w \in {v \in Workers : wpc[v] # "idle"}}

(* A response reaches the connection that sent the request, provided the     *)
(* user's session was not ended in between by a logout or by the timer,      *)
(* although the handler reads client->m_strRouter, unlocked, only after its  *)
(* database operation (h 214; the check of cpp 160 keeps the id constant).   *)
ResponseToRequester ==
  \A p \in inproc \cup out : p.same => p.to = p.m.router

(* A request is answered at most once: it is never both pending and          *)
(* answered, never held by two pool threads, and no two responses carry its  *)
(* request id.                                                               *)
AnsweredOnce ==
  /\ \A p, q \in inproc \cup out : p.m.req = q.m.req => p = q
  /\ inproc \cap out = {}
  /\ \A p \in inproc \cup out, m \in PendingMsgs : p.m.req # m.req
  /\ \A v, w \in Workers :
       wpc[v] # "idle" /\ wpc[w] # "idle" /\ wmsg[v].req = wmsg[w].req => v = w

(* While a user is logged in, only the connection it logged in from can      *)
(* change its session: no other message changes the router id, renews        *)
(* m_tLastRead or logs it out; apart from it only the keep-alive timer ends  *)
(* the session (cpp 160-178 and 214-238).                                    *)
SessionOwned ==
  [][\A u \in Users :
       m_bLogin[u] =>
         /\ m_strRouter'[u] = m_strRouter[u]
         /\ (recentRead'[u] /\ ~recentRead[u]) => cur.router = m_strRouter[u]
         /\ ~m_bLogin'[u] => \/ ppc = "timer" /\ ~recentRead[u]
                             \/ ppc = "recv" /\ cur.router = m_strRouter[u]]_vars

(* Every request that became a task is answered in the end: its response is  *)
(* handed to m_sockBind, whether or not the operation succeeded.             *)
TaskAnswered ==
  \A n \in 1 .. MaxReq :
    (\E m \in PendingMsgs : m.req = n) ~> (\E p \in out : p.m.req = n)

(* The cache catches up with the table again and again, unless a failure     *)
(* went unnoticed: no change of ManageUser stays invisible for ever.         *)
CacheConverges ==
  []<>(m_setManagerCache = Names \/ hidden # {})

(* The session of a user that has been silent for a minute is ended by the   *)
(* keep-alive timer, unless the user speaks again first (cpp 60-66, 221).    *)
SilentSessionEnds ==
  \A u \in Users :
    (m_bLogin[u] /\ ~recentRead[u]) ~> (~m_bLogin[u] \/ recentRead[u])
=============================================================================
