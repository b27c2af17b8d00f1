----------------------------- MODULE MCPrograms -----------------------------
(***************************************************************************)
(* The instances of the sample programs that TLC checks.  The programs have *)
(* nothing in common: a behaviour is one of program's, and the variables of *)
(* all the others stay in an initial state.                                 *)
(***************************************************************************)
EXTENDS SQLiteAccess, AsioServer, Anet, TcpSample, ShmSemaphores, IpcCounters,
        SplitMdFile, ReqRepBroker, ZmqEcho, Exercises

VARIABLE program
Programs == {"db", "asio", "anet", "tcp", "sem", "counter", "split", "broker", "echo", "exercise"}
vars == <<program, dbVars, asioVars, anetVars, tcpVars, semVars, counterVars, splitVars,
          brokerVars, echoVars, exVars>>

MCVectors == {<<>>, <<1>>, <<1, 2>>, <<2, 2>>}
MCLine(i, hasLetters) == [ins |-> i, letters |-> hasLetters]
MCFiles == {<<>>, <<MCLine(1, FALSE), MCLine(2, FALSE), MCLine(1, FALSE)>>,
            <<MCLine(1, FALSE), MCLine(1, TRUE), MCLine(1, FALSE)>>}
MCArrays == UNION {[1 .. k -> 1 .. 3] : k \in 0 .. 5}
MCCodes == UNION {[1 .. k -> 1 .. 2] : k \in 0 .. 3}

Init ==
  /\ program \in Programs
  /\ DbInit /\ (program # "db" => file = {})
  /\ AsioInit /\ NetInit /\ TcpInit
  /\ SemInit /\ (program # "sem" => named)
  /\ CounterInit /\ (program # "counter" => kind = "file")
  /\ SplitInit /\ (program # "split" => lines = <<>>)
  /\ BrokerInit /\ EchoInit
  /\ ExInit /\ (program # "exercise" => what = "sort" /\ ~shifted)

\* Only program p moves.
Only(p) ==
  /\ program = p /\ UNCHANGED program
  /\ p # "db" => UNCHANGED dbVars
  /\ p # "asio" => UNCHANGED asioVars
  /\ p # "anet" => UNCHANGED anetVars
  /\ p # "tcp" => UNCHANGED tcpVars
  /\ p # "sem" => UNCHANGED semVars
  /\ p # "counter" => UNCHANGED counterVars
  /\ p # "split" => UNCHANGED splitVars
  /\ p # "broker" => UNCHANGED brokerVars
  /\ p # "echo" => UNCHANGED echoVars
  /\ p # "exercise" => UNCHANGED exVars

Next ==
  \/ Only("db") /\ DbNext
  \/ Only("asio") /\ AsioNext
  \/ Only("anet") /\ NetNext
  \/ Only("tcp") /\ TcpNext
  \/ Only("sem") /\ SemNext
  \/ Only("counter") /\ CounterNext
  \/ Only("split") /\ SplitNext
  \/ Only("broker") /\ BrokerNext
  \/ Only("echo") /\ EchoNext
  \/ Only("exercise") /\ ExNext

\* Each process, thread and timer of the program is scheduled.  Nothing is assumed of
\* the handlers of the asio server beyond its timer's.
Fairness ==
  /\ WF_asioVars(program = "asio" /\ deadlineTimerHandle)
  /\ WF_tcpVars(program = "tcp" /\ tcpServer)
  /\ \A c \in TcpClients : WF_tcpVars(program = "tcp" /\ tcpClient(c))
  /\ \A p \in Procs : WF_semVars(program = "sem" /\ proc(p))
  /\ \A p \in Pair : WF_counterVars(program = "counter" /\ counter(p))
  /\ WF_splitVars(program = "split" /\ parent)
  /\ \A i \in Instruments : WF_splitVars(program = "split" /\ reader(i))
  /\ WF_brokerVars(program = "broker" /\ brokerStep)
  /\ \A c \in Requesters : WF_brokerVars(program = "broker" /\ requester(c))
  /\ \A w \in Workers : WF_brokerVars(program = "broker" /\ worker(w))
  /\ WF_echoVars(program = "echo" /\ pollFunction)
  /\ WF_echoVars(program = "echo" /\ destroy_join)

Spec == Init /\ [][Next]_vars /\ Fairness

-----------------------------------------------------------------------------
\* What a program acquires belongs to one user until it is given back, on every
\* error path: SQLite connections and statements (SQLiteDatabase.cpp), the ids
\* and watched entries of the asio server (serverEnd.cpp), descriptors
\* (anet.cpp), the shared memory between two semaphores (shmRead.cpp,
\* shmWrite.cpp), and requests that go through the broker (reqrepbroker.cpp).
ResourcesOwned ==
  /\ program = "db" => DbTypeOK /\ ConnectionFreed
  /\ program = "asio" => AsioTypeOK /\ IdsAccounted /\ IdExclusive /\ Watched
  /\ program = "anet" => NetTypeOK /\ FdOwned
  /\ program = "sem" => SemTypeOK /\ SemExclusive
  /\ program = "broker" => RepliesMatch

\* What a program stores or hands over is as it should be, except in the cases the
\* parts name: rows are inserted in order and deleted all or none (dbopmacros.h),
\* records in shared memory are whole and each newer than the last (shmRead.cpp),
\* no increment under a lock is lost (ipc_lock_trivial.cpp,
\* ipc_atomic_trivial.cpp), a split file has as many lines as the input has of its
\* instrument, all copies of the first (splitMdFile.cpp), and echoed messages come
\* back in order and are not lost while the socket is open (ZmqServerEnd.cpp).
DataIntact ==
  /\ program = "db" => DeleteAtomic /\ InsertPrefix
  /\ program = "sem" => RecordsWhole
  /\ program = "counter" => NoLostIncrement
  /\ program = "split" => SplitTypeOK /\ FilesCounted
  /\ program = "echo" => EchoIntact

\* The sequential exercises compute what their reference definitions say, for
\* every array, every sequence of unions and every set of codes within the
\* bounds.  (quickSort.cpp, topk.cpp, union_find_trivial.cpp,
\* stock_tree_trivial.cpp)
ExercisesRight == program = "exercise" => SortsRight /\ UnionRight /\ TreeRight

\* What has begun in the k-th process, client or connection of a program, and
\* what must become of it.  The other programs have begun with their first state.
Begun(k) ==
  CASE program = "asio" -> Silent(k)
    [] program = "sem"  -> BothRunOnce
    [] program = "echo" -> EchoStopped
    [] OTHER -> TRUE

Ended(k) ==
  CASE program = "asio"    -> SilentEnds(k)
    [] program = "sem"     -> HandOffEnds
    [] program = "echo"    -> EchoEnds
    [] program = "counter" -> k = 3 \/ SurvivorEnds(<<"parent", "child">>[k])
    [] program = "split"   -> SplitEnds
    [] program = "broker"  -> k = 3 \/ RequesterEnds(k)
    [] program = "tcp"     -> k = 3 \/ TcpEnds(k)
    [] OTHER -> TRUE

\* The programs get through what they have begun: a client that no longer
\* answers is closed (serverEnd.cpp), two processes hand all their records over
\* (shmRead.cpp), the survivor of a killed process ends (ipc_lock_trivial.cpp),
\* a split file is finished (splitMdFile.cpp), requests are answered
\* (reqrepbroker.cpp, tcpServer.cpp) and the thread of a stopped server ends, unless
\* the socket is closed under its poll (ZmqServerEnd.cpp); except in the cases the
\* parts name.
ProgramsEnd == \A k \in 1 .. 3 : Begun(k) ~> Ended(k)
=============================================================================
