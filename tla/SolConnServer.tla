---------------------------- MODULE SolConnServer ----------------------------
(***************************************************************************)
(* The solcom server (solcomapi/src/SolConnServer.cpp, SolConnClient.cpp):  *)
(* callbacks of the libuv loop, one step each, and commands that libuv's    *)
(* work threads run in postMsg, one access to a shared field per step.  The *)
(* peers, libuv and the passing of time are the environment.                *)
(*                                                                          *)
(* A SolConnClient is created for every connection, so its receive machine  *)
(* (PackageStream) starts afresh; here a read completes a command or not.   *)
(* Raw pointers to it are kept by mapConnClient, by commands in the pool,   *)
(* by listWevent and by libuv; mem tells whether it still exists.           *)
(***************************************************************************)
EXTENDS Integers, Sequences, FiniteSets

CONSTANTS
  Objects,    \* the SolConnClient objects that are ever created
  Keys,       \* peer addresses, "IP:Port"
  Tasks,      \* the commands that are ever received
  PoolSize,   \* threads of libuv's pool
  MaxStarts,  \* bound on the calls of Start
  NoObject

ASSUME ServerAssumption ==
  /\ Objects # {} /\ Keys # {} /\ Tasks # {}
  /\ NoObject \notin Objects /\ PoolSize \in Nat \ {0} /\ MaxStarts \in Nat

VARIABLES
  thread,         \* loopThread: none, new, run, stopping (uv_stop called)
  bStop, starts,
  mapConnClient,  \* Keys -> object stored under it
  listWevent,
  mem, objKey, bConnected, tcp,   \* of each object
  old,            \* neither a read nor a write for MAX_IDLE_INTERVAL
  second,         \* reqBuffer.second: an answer is in the send buffer
  writes,         \* how many times libuv has write_req and owes its callback
  answer,         \* whose answer was encoded last
  tpc, client,    \* of each command: where it is, and for which object
  written,        \* history: commands whose answer was written
  overlap,        \* history: objects of which two commands were in postMsg at once
  abandoned,      \* history: objects whose answer writeHandle passed over
  stale, used     \* history: objects deleted while referred to; used after deletion

objVars  == <<mem, objKey, bConnected, tcp, old>>
sendVars == <<second, writes, answer, written>>
taskVars == <<tpc, client>>
histVars == <<overlap, abandoned, stale>>
runVars  == <<thread, bStop, starts>>
vars == <<thread, bStop, starts, mapConnClient, listWevent, mem, objKey, bConnected, tcp,
          old, second, writes, answer, tpc, client, written, overlap, abandoned, stale, used>>

InPool == {"wait", "test", "set", "add"}
TaskPc == {"free", "queued", "after"} \cup InPool

TypeOK ==
  /\ thread \in {"none", "new", "run", "stopping"}
  /\ bStop \in BOOLEAN /\ starts \in 0 .. MaxStarts
  /\ mapConnClient \in [Keys -> Objects \cup {NoObject}]
  /\ listWevent \in Seq(Objects)
  /\ mem \in [Objects -> {"none", "alive", "deleted"}]
  /\ objKey \in [Objects -> Keys]
  /\ bConnected \in [Objects -> BOOLEAN]
  /\ tcp \in [Objects -> {"none", "open", "closing", "closed", "misused"}]
  /\ old \in [Objects -> BOOLEAN] /\ second \in [Objects -> BOOLEAN]
  /\ writes \in [Objects -> Nat] /\ answer \in [Objects -> Tasks]
  /\ tpc \in [Tasks -> TaskPc] /\ client \in [Tasks -> Objects]
  /\ Cardinality({t \in Tasks : tpc[t] \in InPool}) <= PoolSize
  /\ \A k \in Keys : mapConnClient[k] # NoObject =>
       mem[mapConnClient[k]] = "alive" /\ objKey[mapConnClient[k]] = k
  /\ written \subseteq Tasks /\ overlap \subseteq Objects /\ abandoned \subseteq Objects
  /\ stale \subseteq Objects /\ used \subseteq Objects

Init ==
  /\ thread = "none" /\ bStop = FALSE /\ starts = 0
  /\ mapConnClient = [k \in Keys |-> NoObject] /\ listWevent = <<>>
  /\ mem = [o \in Objects |-> "none"] /\ objKey = [o \in Objects |-> CHOOSE k \in Keys : TRUE]
  /\ bConnected = [o \in Objects |-> FALSE] /\ tcp = [o \in Objects |-> "none"]
  /\ old = [o \in Objects |-> FALSE] /\ second = [o \in Objects |-> FALSE]
  /\ writes = [o \in Objects |-> 0] /\ answer = [o \in Objects |-> CHOOSE t \in Tasks : TRUE]
  /\ tpc = [t \in Tasks |-> "free"] /\ client = [t \in Tasks |-> CHOOSE o \in Objects : TRUE]
  /\ written = {} /\ overlap = {} /\ abandoned = {} /\ stale = {} /\ used = {}

\* An access to the object o: after its deletion, an access to freed memory.
Touch(o) == used' = IF mem[o] = "deleted" THEN used \cup {o} ELSE used

-----------------------------------------------------------------------------
(* Start, Stop and the loop thread                                          *)

Start ==
  /\ thread = "none" /\ starts < MaxStarts
  /\ starts' = starts + 1 /\ bStop' = FALSE /\ thread' = "new"
  /\ UNCHANGED <<mapConnClient, listWevent, objVars, sendVars, taskVars, histVars, used>>

Stop ==
  /\ thread \in {"new", "run"} /\ ~bStop
  /\ bStop' = TRUE
  /\ UNCHANGED <<thread, starts, mapConnClient, listWevent, objVars, sendVars, taskVars,
                 histVars, used>>

\* loopFunction tests bStop and enters uv_run.
loopFunction ==
  /\ thread = "new"
  /\ thread' = IF bStop THEN "none" ELSE "run"
  /\ UNCHANGED <<bStop, starts, mapConnClient, listWevent, objVars, sendVars, taskVars,
                 histVars, used>>

\* Mutant: without uv_stop the loop goes on while a connection is open.
uv_run_endsWhenIdle == thread = "stopping" /\ \A o \in Objects : tcp[o] \notin {"open", "closing"}

\* uv_stop ends uv_run after the iteration, whose last phase closes handles.
uv_run_ends == thread = "stopping" /\ \A o \in Objects : tcp[o] # "closing"

uv_run_returns ==
  /\ uv_run_ends
  /\ thread' = "none"
  /\ UNCHANGED <<bStop, starts, mapConnClient, listWevent, objVars, sendVars, taskVars,
                 histVars, used>>

\* uv_close takes effect at the end of the iteration; only then other callbacks.
InLoop == thread = "run" /\ \A o \in Objects : tcp[o] # "closing"

\* tcp after uv_close of the handles of objects: twice is an assertion of libuv.
uv_close(os) ==
  tcp' = [o \in Objects |-> IF o \notin os THEN tcp[o]
                            ELSE IF tcp[o] = "open" THEN "closing" ELSE "misused"]

-----------------------------------------------------------------------------
(* Connections                                                              *)

\* A peer can use an address again once its old connection is gone.  insert
\* keeps an object that is still stored under the key.
connect_cb(o, k) ==
  /\ InLoop /\ mem[o] = "none"
  /\ \A p \in Objects : tcp[p] = "open" => objKey[p] # k
  /\ mem' = [mem EXCEPT ![o] = "alive"]
  /\ tcp' = [tcp EXCEPT ![o] = "open"]
  /\ mapConnClient' = IF mapConnClient[k] = NoObject
                      THEN [mapConnClient EXCEPT ![k] = o] ELSE mapConnClient
  /\ objKey' = [objKey EXCEPT ![o] = k]
  /\ bConnected' = [bConnected EXCEPT ![o] = TRUE]
  /\ UNCHANGED <<runVars, listWevent, old, sendVars, taskVars, histVars, used>>

\* uv_accept fails: the object is neither stored nor deleted.
connect_cb_error(o) ==
  /\ InLoop /\ mem[o] = "none"
  /\ mem' = [mem EXCEPT ![o] = "alive"]
  /\ tcp' = [tcp EXCEPT ![o] = "closing"]
  /\ UNCHANGED <<runVars, mapConnClient, listWevent, objKey, bConnected, old, sendVars,
                 taskVars, histVars, used>>

\* closeClient of each of some objects.
closeClients(os) ==
  /\ uv_close({o \in os : bConnected[o]})
  /\ bConnected' = [o \in Objects |-> bConnected[o] /\ o \notin os]

\* The last bytes of a command: it is queued for the work threads.
read_cb(o, t) ==
  /\ InLoop /\ tcp[o] = "open" /\ tpc[t] = "free"
  /\ tpc' = [tpc EXCEPT ![t] = "queued"]
  /\ client' = [client EXCEPT ![t] = o]
  /\ old' = [old EXCEPT ![o] = FALSE]
  /\ Touch(o)
  /\ UNCHANGED <<runVars, mapConnClient, listWevent, mem, objKey, bConnected, tcp, sendVars,
                 histVars>>

\* A part of a package: only lastRead changes.
read_cb_part(o) ==
  /\ InLoop /\ tcp[o] = "open" /\ old[o]
  /\ old' = [old EXCEPT ![o] = FALSE]
  /\ Touch(o)
  /\ UNCHANGED <<runVars, mapConnClient, listWevent, mem, objKey, bConnected, tcp, sendVars,
                 taskVars, histVars>>

read_cb_error(o) ==
  /\ InLoop /\ tcp[o] = "open"
  /\ closeClients({o})
  /\ Touch(o)
  /\ UNCHANGED <<runVars, mapConnClient, listWevent, mem, objKey, old, sendVars, taskVars,
                 histVars>>


\* The buffer is free again, whatever became of the write.
WriteCalledBack(o) ==
  /\ writes[o] > 0
  /\ writes' = [writes EXCEPT ![o] = @ - 1]
  /\ second' = [second EXCEPT ![o] = FALSE]
  /\ Touch(o)
  /\ UNCHANGED <<runVars, mapConnClient, listWevent, mem, objKey, answer, taskVars, histVars>>

req_write_cb(o) ==
  /\ InLoop /\ tcp[o] = "open" /\ WriteCalledBack(o)
  /\ old' = [old EXCEPT ![o] = FALSE]
  /\ written' = written \cup {answer[o]}
  /\ UNCHANGED <<bConnected, tcp>>

req_write_cb_error(o) ==
  /\ InLoop /\ tcp[o] = "open" /\ WriteCalledBack(o)
  /\ closeClients({o})
  /\ UNCHANGED <<old, written>>

\* UV_ECANCELED, when the handle is closed.
req_write_cb_cancelled(o) ==
  /\ thread \in {"run", "stopping"} /\ tcp[o] = "closing" /\ WriteCalledBack(o)
  /\ UNCHANGED <<bConnected, tcp, old, written>>

\* The end of the iteration: libuv is done with the handle.
close_done(o) ==
  /\ thread \in {"run", "stopping"} /\ tcp[o] = "closing" /\ writes[o] = 0
  /\ tcp' = [tcp EXCEPT ![o] = "closed"]
  /\ Touch(o)
  /\ UNCHANGED <<runVars, mapConnClient, listWevent, mem, objKey, bConnected, old, sendVars,
                 taskVars, histVars>>

\* Who still refers to the object o: libuv, the write list, a command.
Referred(o) ==
  \/ tcp[o] \in {"open", "closing"}
  \/ \E i \in 1 .. Len(listWevent) : listWevent[i] = o
  \/ \E t \in Tasks : client[t] = o /\ tpc[t] \in {"queued"} \cup InPool

Stored == {mapConnClient[k] : k \in Keys} \ {NoObject}

\* Mutant: clients that are closed already stay in the map.
SilentWhileConnected == {o \in Stored : old[o] /\ bConnected[o]}

\* The stored clients without a read or write for MAX_IDLE_INTERVAL.  A time of
\* an earlier start may lie ahead of the present one; the unsigned difference is
\* then large, and the client counts as silent.
Silent == {o \in Stored : old[o]}

\* Mutant: the entries of deleted clients are not erased.
EraseNothing(os) == UNCHANGED mapConnClient

Erase(os) ==
  mapConnClient' = [k \in Keys |-> IF mapConnClient[k] \in os THEN NoObject ELSE mapConnClient[k]]

\* Silent clients are closed, deleted and erased.
hbt_timer_cb ==
  /\ InLoop /\ Silent # {}
  /\ closeClients(Silent)
  /\ mem' = [o \in Objects |-> IF o \in Silent THEN "deleted" ELSE mem[o]]
  /\ old' = [o \in Objects |-> old[o] /\ o \notin Silent]
  /\ Erase(Silent)
  /\ stale' = stale \cup {o \in Silent : Referred(o)}
  /\ used' = used \cup {o \in Stored : mem[o] = "deleted"}
  /\ UNCHANGED <<runVars, listWevent, objKey, sendVars, taskVars, overlap, abandoned>>

-----------------------------------------------------------------------------
(* idle_cb                                                                  *)

Listed(o) == {i \in 1 .. Len(listWevent) : listWevent[i] = o}

\* The list is taken under its mutex; answers of connected clients are written,
\* the others are passed over with reqBuffer.second still set.
writeHandle ==
  LET now == {listWevent[i] : i \in 1 .. Len(listWevent)}
  IN  /\ writes' = [o \in Objects |-> IF bConnected[o] THEN writes[o] + Cardinality(Listed(o))
                                      ELSE writes[o]]
      /\ abandoned' = abandoned \cup {o \in now : ~bConnected[o]}
      /\ used' = used \cup {o \in now : mem[o] = "deleted"}
      /\ listWevent' = <<>>

idle_cb ==
  /\ InLoop /\ ~bStop
  /\ writeHandle
  /\ UNCHANGED <<runVars, mapConnClient, objVars, second, answer, written, taskVars, overlap,
                 stale>>

\* With bStop: the stored clients are closed, the loop is told to stop.  The
\* list, cleared a second time, is empty already.
idle_cb_stop ==
  /\ InLoop /\ bStop
  /\ writeHandle
  /\ closeClients(Stored)
  /\ thread' = "stopping"
  /\ UNCHANGED <<bStop, starts, mapConnClient, mem, objKey, old, second, answer, written,
                 taskVars, overlap, stale>>

-----------------------------------------------------------------------------
(* A command on a work thread: CmdHandle calls postMsg.                     *)

Go(t, from, to) == tpc[t] = from /\ tpc' = [tpc EXCEPT ![t] = to]

\* A free work thread calls CmdHandle and postMsg, which tests the client and
\* the server (line 51).
work_cb(t) ==
  /\ Cardinality({u \in Tasks : tpc[u] \in InPool}) < PoolSize
  /\ Go(t, "queued", IF bConnected[client[t]] /\ ~bStop THEN "wait" ELSE "after")
  /\ Touch(client[t])
  /\ UNCHANGED <<client, runVars, mapConnClient, listWevent, objVars, sendVars, histVars>>

\* The loop of lines 54 to 57: ncouts is never counted up, so it ends only when
\* the buffer is free.
postMsg_wait(t) ==
  /\ ~second[client[t]]
  /\ Go(t, "wait", "test")
  /\ Touch(client[t])
  /\ UNCHANGED <<client, runVars, mapConnClient, listWevent, objVars, sendVars, histVars>>

\* A spin of the same loop, which may read freed memory.
postMsg_spin(t) ==
  /\ tpc[t] = "wait" /\ mem[client[t]] = "deleted" /\ client[t] \notin used
  /\ Touch(client[t])
  /\ UNCHANGED <<taskVars, runVars, mapConnClient, listWevent, objVars, sendVars, histVars>>

\* Line 58: another command may have taken the buffer since; -1 is returned.
postMsg_test(t) ==
  /\ Go(t, "test", IF second[client[t]] THEN "after" ELSE "set")
  /\ Touch(client[t])
  /\ UNCHANGED <<client, runVars, mapConnClient, listWevent, objVars, sendVars, histVars>>

\* Mutant: the flag is left alone.
postMsg_setNothing(t) ==
  /\ Go(t, "set", "add")
  /\ answer' = [answer EXCEPT ![client[t]] = t]
  /\ Touch(client[t])
  /\ UNCHANGED <<client, runVars, mapConnClient, listWevent, objVars, second, writes, written,
                 histVars>>

\* Lines 63 to 76 set the flag and fill the buffer; the test of line 58 may be
\* out of date by now.
postMsg_set(t) ==
  /\ Go(t, "set", "add")
  /\ second' = [second EXCEPT ![client[t]] = TRUE]
  /\ answer' = [answer EXCEPT ![client[t]] = t]
  /\ overlap' = IF second[client[t]] THEN overlap \cup {client[t]} ELSE overlap
  /\ Touch(client[t])
  /\ UNCHANGED <<client, runVars, mapConnClient, listWevent, objVars, writes, written,
                 abandoned, stale>>

\* Mutant: the answer is not registered.
WeventCtlNothing(t) ==
  /\ Go(t, "add", "after")
  /\ UNCHANGED <<client, runVars, mapConnClient, listWevent, objVars, sendVars, histVars, used>>

\* Line 77: WeventCtl with WPOLL_ADD, under mtxWevent.  The command is then done;
\* after_work_cb frees it.
WeventCtl(t) ==
  /\ Go(t, "add", "after")
  /\ listWevent' = Append(listWevent, client[t])
  /\ UNCHANGED <<client, runVars, mapConnClient, objVars, sendVars, histVars, used>>

Work(t) ==
  \/ work_cb(t) \/ postMsg_wait(t) \/ postMsg_spin(t) \/ postMsg_test(t)
  \/ postMsg_set(t) \/ WeventCtl(t)

\* MAX_IDLE_INTERVAL passes without a read from or a write to the client, which
\* only the timer looks at, and only for stored clients.
silence(o) ==
  /\ o \in Stored /\ ~old[o]
  /\ old' = [old EXCEPT ![o] = TRUE]
  /\ UNCHANGED <<runVars, mapConnClient, listWevent, mem, objKey, bConnected, tcp, sendVars,
                 taskVars, histVars, used>>

\* What libuv owes an object: the callbacks of its writes, then the closing.
Owed(o) ==
  req_write_cb(o) \/ req_write_cb_error(o) \/ req_write_cb_cancelled(o) \/ close_done(o)

Loop == loopFunction \/ idle_cb \/ idle_cb_stop \/ uv_run_returns

Next ==
  \/ Start \/ Stop \/ Loop \/ hbt_timer_cb
  \/ \E o \in Objects :
       \/ \E k \in Keys : connect_cb(o, k)
       \/ connect_cb_error(o) \/ read_cb_part(o) \/ read_cb_error(o)
       \/ \E t \in Tasks : read_cb(o, t)
       \/ Owed(o) \/ silence(o)
  \/ \E t \in Tasks : Work(t)

Spec == Init /\ [][Next]_vars

(* The loop and the work threads run; a write is called back in the end; a  *)
(* closed connection falls silent and the keep-alive timer comes round.     *)
(* Peers need not send, and nobody need start or stop the server.           *)
Fairness ==
  /\ WF_vars(Loop) /\ WF_vars(hbt_timer_cb)
  /\ \A o \in Objects : WF_vars(Owed(o)) /\ WF_vars(~bConnected[o] /\ silence(o))
  /\ \A t \in Tasks : WF_vars(Work(t))

FairSpec == Spec /\ Fairness
-----------------------------------------------------------------------------
(* Properties                                                               *)

\* Commands that fill the send buffer of o, its entries in the write list and
\* its writes under way.
Holders(o) ==
  Cardinality({t \in Tasks : client[t] = o /\ tpc[t] = "add"})
    + Cardinality(Listed(o)) + writes[o]

\* The one send buffer of a client has at most one user, from line 63 until the
\* write is called back, and while it has one the flag is set, unless two
\* commands of the client were between line 58 and line 63 at once: test and
\* set are two steps and nothing locks them.
SendBufferOwned ==
  \A o \in Objects \ overlap :
    Holders(o) <= 1 /\ (Holders(o) = 1 => second[o])

\* uv_close is never called twice for a handle, as the comment of line 110
\* demands, although read and write callbacks, the timer and a stop all close.
\* A deleted client is used again only if, when the timer deleted it, its
\* connection was still open, it was in the write list or a command of it was in
\* the pool: no new reference to a client appears once it is out of the map.
ClientsOwned ==
  TypeOK /\ (\A o \in Objects : tcp[o] # "misused") /\ used \subseteq stale

Lost(o) == bStop \/ o \in overlap \cup abandoned \/ mem[o] = "deleted"


\* An answer that was encoded is written, unless the connection is closed first.
AnswerWritten ==
  \A t \in Tasks :
    tpc[t] = "add" ~> (t \in written \/ tcp[client[t]] # "open" \/ Lost(client[t]))

\* A stored client whose connection is closed is deleted by the timer while the
\* server runs ("客户端资源销毁在定时器检测回调中完成", line 106).  A client that
\* was not stored, because its address was still in the map, is never deleted.
ClientReaped ==
  \A o \in Objects :
    (mem[o] = "alive" /\ ~bConnected[o] /\ mapConnClient[objKey[o]] = o)
      ~> (mem[o] = "deleted" \/ bStop)

\* Stop ends the loop thread, whatever work threads and open connections do.
StopReturns == bStop ~> (thread = "none" \/ ~bStop)
=============================================================================
