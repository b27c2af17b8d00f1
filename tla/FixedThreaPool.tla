--------------------------- MODULE FixedThreaPool ---------------------------
(***************************************************************************)
(* The fixed-size thread pool of StragetyDeployer/FixedThreaPool.h: worker  *)
(* threads running do_work, threads calling submit, and the thread running  *)
(* the destructor.                                                          *)
(*                                                                          *)
(* One step is what a thread does between two points at which another       *)
(* thread can observe or disturb it: the mutex mtxTask, the condition       *)
(* variable cvTask and the atomics bStoped and nIdlThredNum.  cvTask.wait   *)
(* with a predicate is the loop "while (!pred) wait": the predicate is      *)
(* evaluated with the mutex held (WaitPredicate), and a thread for which it *)
(* was false still has to unlock and block (WaitBlock).  A notification     *)
(* between these two steps does not see that thread.                        *)
(***************************************************************************)
EXTENDS Integers, Sequences, FiniteSets

CONSTANTS
  Size,             \* the constructor's argument
  HardwareThreads,  \* std::thread::hardware_concurrency(), 0 if unknown
  Tasks,            \* the tasks that may be submitted, each at most once
  Submitters,       \* the threads that call submit
  NoTask            \* the empty std::function

ASSUME SizeAssumption == Size \in Int /\ HardwareThreads \in Nat
ASSUME TaskAssumption == NoTask \notin Tasks
ASSUME SubmitterAssumption == IsFiniteSet(Submitters)

\* The number of threads the constructor starts.
NumThread ==
  LET size == IF Size < 1 THEN 1 ELSE Size
  IN  IF HardwareThreads < size THEN HardwareThreads ELSE size

Workers == 1 .. NumThread

VARIABLES
  queTask,       \* the queue of submitted tasks
  mtxTask,       \* the worker that holds the mutex, or 0
  cvTask,        \* the workers blocked on the condition variable
  bStoped,       \* set by the destructor
  nIdlThredNum,  \* the idle count
  wpc, task,     \* where each worker is in do_work, and its local task
  spc, arg,      \* where each submitter is in submit, and the task it submits
  dpc,           \* where the destructor is
  done,          \* history: the tasks that have run to completion
  refused        \* history: the tasks submit returned an invalid future for

vars == <<queTask, mtxTask, cvTask, bStoped, nIdlThredNum, wpc, task, spc, arg,
          dpc, done, refused>>

Queued == {queTask[i] : i \in 1 .. Len(queTask)}

\* The tasks some thread holds in a local variable.
Held == {task[w] : w \in Workers} \cup {arg[s] : s \in Submitters}

WorkerPc == {"loop", "lock", "predicate", "sleep", "blocked", "pop", "begin",
             "run", "exit"}
SubmitPc == {"idle", "push", "notify"}
StopPc   == {"alive", "stored", "join", "destroyed"}

TypeOK ==
  /\ queTask \in Seq(Tasks)
  /\ mtxTask \in Workers \cup {0}
  /\ cvTask \in SUBSET Workers
  /\ bStoped \in BOOLEAN
  /\ nIdlThredNum \in 0 .. NumThread
  /\ wpc \in [Workers -> WorkerPc]
  /\ task \in [Workers -> Tasks \cup {NoTask}]
  /\ spc \in [Submitters -> SubmitPc]
  /\ arg \in [Submitters -> Tasks \cup {NoTask}]
  /\ dpc \in StopPc
  /\ done \in SUBSET Tasks
  /\ refused \in SUBSET Tasks

Init ==
  /\ queTask = <<>>
  /\ mtxTask = 0
  /\ cvTask = {}
  /\ bStoped = FALSE
  /\ nIdlThredNum = NumThread
  /\ wpc = [w \in Workers |-> "loop"]
  /\ task = [w \in Workers |-> NoTask]
  /\ spc = [s \in Submitters |-> "idle"]
  /\ arg = [s \in Submitters |-> NoTask]
  /\ dpc = "alive"
  /\ done = {}
  /\ refused = {}

-----------------------------------------------------------------------------
(* do_work                                                                  *)

Goto(w, from, to) == wpc[w] = from /\ wpc' = [wpc EXCEPT ![w] = to]

\* while (!bStoped)
LoopTest(w) ==
  /\ Goto(w, "loop", IF bStoped THEN "exit" ELSE "lock")
  /\ UNCHANGED <<queTask, mtxTask, cvTask, bStoped, nIdlThredNum, task, spc,
                 arg, dpc, done, refused>>

\* std::unique_lock, and the relocking of a thread that wakes up in wait.
Lock(w) ==
  /\ Goto(w, "lock", "predicate")
  /\ mtxTask = 0
  /\ mtxTask' = w
  /\ UNCHANGED <<queTask, cvTask, bStoped, nIdlThredNum, task, spc, arg, dpc,
                 done, refused>>

\* bStoped.load() || !queTask.empty(), with the mutex held.
WaitPredicate(w) ==
  /\ Goto(w, "predicate", IF bStoped \/ queTask # <<>> THEN "pop" ELSE "sleep")
  /\ UNCHANGED <<queTask, mtxTask, cvTask, bStoped, nIdlThredNum, task, spc,
                 arg, dpc, done, refused>>

\* The predicate was false: unlock and block, in one step.
WaitBlock(w) ==
  /\ Goto(w, "sleep", "blocked")
  /\ mtxTask' = 0
  /\ cvTask' = cvTask \cup {w}
  /\ UNCHANGED <<queTask, bStoped, nIdlThredNum, task, spc, arg, dpc, done,
                 refused>>

\* A condition variable may wake a thread nobody notified.
SpuriousWakeup(w) ==
  /\ w \in cvTask
  /\ Goto(w, "blocked", "lock")
  /\ cvTask' = cvTask \ {w}
  /\ UNCHANGED <<queTask, mtxTask, bStoped, nIdlThredNum, task, spc, arg, dpc,
                 done, refused>>

\* Mutant: the front task is copied out and the pop() is forgotten.
PopWithoutPop(w) ==
  /\ mtxTask' = 0
  /\ \/ bStoped /\ queTask = <<>> /\ Goto(w, "pop", "exit") /\ UNCHANGED task
     \/ /\ queTask # <<>>
        /\ Goto(w, "pop", "begin")
        /\ task' = [task EXCEPT ![w] = Head(queTask)]
  /\ UNCHANGED <<queTask, cvTask, bStoped, nIdlThredNum, spc, arg, dpc, done,
                 refused>>

\* After wait: return if stopped with nothing queued, else take the front task.
Pop(w) ==
  /\ mtxTask' = 0
  /\ \/ /\ bStoped /\ queTask = <<>>
        /\ Goto(w, "pop", "exit")
        /\ UNCHANGED <<queTask, task>>
     \/ /\ queTask # <<>>
        /\ Goto(w, "pop", "begin")
        /\ task' = [task EXCEPT ![w] = Head(queTask)]
        /\ queTask' = Tail(queTask)
  /\ UNCHANGED <<cvTask, bStoped, nIdlThredNum, spc, arg, dpc, done, refused>>

\* Mutant: the task starts without nIdlThredNum--.
BeginTaskUncounted(w) ==
  /\ Goto(w, "begin", "run")
  /\ UNCHANGED <<queTask, mtxTask, cvTask, bStoped, nIdlThredNum, task, spc, arg,
                 dpc, done, refused>>

\* nIdlThredNum--, and the task starts.
BeginTask(w) ==
  /\ Goto(w, "begin", "run")
  /\ nIdlThredNum' = nIdlThredNum - 1
  /\ UNCHANGED <<queTask, mtxTask, cvTask, bStoped, task, spc, arg, dpc, done,
                 refused>>

\* The task returns, nIdlThredNum++, and the local task goes out of scope.
EndTask(w) ==
  /\ Goto(w, "run", "loop")
  /\ nIdlThredNum' = nIdlThredNum + 1
  /\ done' = done \cup {task[w]}
  /\ task' = [task EXCEPT ![w] = NoTask]
  /\ UNCHANGED <<queTask, mtxTask, cvTask, bStoped, spc, arg, dpc, refused>>

DoWork(w) ==
  \/ LoopTest(w) \/ Lock(w) \/ WaitPredicate(w) \/ WaitBlock(w) \/ Pop(w)
  \/ BeginTask(w) \/ EndTask(w)

-----------------------------------------------------------------------------
(* submit.  A call must end before the object's lifetime does, so no step   *)
(* is taken on a destroyed pool.                                            *)

Fresh(t) == t \notin Queued \cup Held \cup done \cup refused

SubmitTest(s, t) ==
  /\ dpc # "destroyed"
  /\ spc[s] = "idle"
  /\ Fresh(t)
  /\ \/ /\ bStoped
        /\ refused' = refused \cup {t}
        /\ UNCHANGED <<spc, arg>>
     \/ /\ ~bStoped
        /\ spc' = [spc EXCEPT ![s] = "push"]
        /\ arg' = [arg EXCEPT ![s] = t]
        /\ UNCHANGED refused
  /\ UNCHANGED <<queTask, mtxTask, cvTask, bStoped, nIdlThredNum, wpc, task,
                 dpc, done>>

\* emplace under lock_guard.
SubmitPush(s) ==
  /\ dpc # "destroyed"
  /\ spc[s] = "push"
  /\ mtxTask = 0
  /\ queTask' = Append(queTask, arg[s])
  /\ spc' = [spc EXCEPT ![s] = "notify"]
  /\ arg' = [arg EXCEPT ![s] = NoTask]
  /\ UNCHANGED <<mtxTask, cvTask, bStoped, nIdlThredNum, wpc, task, dpc, done,
                 refused>>

\* Mutant: no call of notify_one.
SubmitNotifyNobody(s) ==
  /\ dpc # "destroyed"
  /\ spc[s] = "notify"
  /\ spc' = [spc EXCEPT ![s] = "idle"]
  /\ UNCHANGED <<queTask, mtxTask, cvTask, bStoped, nIdlThredNum, wpc, task, arg,
                 dpc, done, refused>>

\* Mutant: notify only when the queue was empty before the push.
SubmitNotifyFirst(s) ==
  /\ dpc # "destroyed"
  /\ spc[s] = "notify"
  /\ spc' = [spc EXCEPT ![s] = "idle"]
  /\ \/ /\ cvTask = {} \/ Len(queTask) > 1
        /\ UNCHANGED <<cvTask, wpc>>
     \/ /\ Len(queTask) =< 1
        /\ \E w \in cvTask :
             /\ cvTask' = cvTask \ {w}
             /\ wpc' = [wpc EXCEPT ![w] = "lock"]
  /\ UNCHANGED <<queTask, mtxTask, bStoped, nIdlThredNum, task, arg, dpc, done,
                 refused>>

\* notify_one: some blocked worker wakes up, if there is one.
SubmitNotify(s) ==
  /\ dpc # "destroyed"
  /\ spc[s] = "notify"
  /\ spc' = [spc EXCEPT ![s] = "idle"]
  /\ \/ /\ cvTask = {}
        /\ UNCHANGED <<cvTask, wpc>>
     \/ \E w \in cvTask :
          /\ cvTask' = cvTask \ {w}
          /\ wpc' = [wpc EXCEPT ![w] = "lock"]
  /\ UNCHANGED <<queTask, mtxTask, bStoped, nIdlThredNum, task, arg, dpc, done,
                 refused>>

Submit(s) == SubmitPush(s) \/ SubmitNotify(s)

-----------------------------------------------------------------------------
(* ~FixedThreaPool                                                          *)

\* bStoped.store(true), without the mutex.
StopStore ==
  /\ dpc = "alive"
  /\ dpc' = "stored"
  /\ bStoped' = TRUE
  /\ UNCHANGED <<queTask, mtxTask, cvTask, nIdlThredNum, wpc, task, spc, arg,
                 done, refused>>

\* cvTask.notify_all()
StopNotifyAll ==
  /\ dpc = "stored"
  /\ dpc' = "join"
  /\ cvTask' = {}
  /\ wpc' = [w \in Workers |-> IF w \in cvTask THEN "lock" ELSE wpc[w]]
  /\ UNCHANGED <<queTask, mtxTask, bStoped, nIdlThredNum, task, spc, arg, done,
                 refused>>

\* Every thread has been joined; the queue and its tasks are destroyed.
StopJoined ==
  /\ dpc = "join"
  /\ \A w \in Workers : wpc[w] = "exit"
  /\ dpc' = "destroyed"
  /\ queTask' = <<>>
  /\ UNCHANGED <<mtxTask, cvTask, bStoped, nIdlThredNum, wpc, task, spc, arg,
                 done, refused>>

-----------------------------------------------------------------------------
Next ==
  \/ \E w \in Workers : DoWork(w) \/ SpuriousWakeup(w)
  \/ \E s \in Submitters : Submit(s) \/ (\E t \in Tasks : SubmitTest(s, t))
  \/ StopStore \/ StopNotifyAll \/ StopJoined

(* Threads that can run do run, and the mutex is not denied to a thread      *)
(* for ever.  Nobody is obliged to submit or to destroy the pool, and no     *)
(* wakeup is owed to a thread that nobody notifies.                          *)
Fairness ==
  /\ \A w \in Workers : WF_vars(LoopTest(w)) /\ SF_vars(Lock(w))
                        /\ WF_vars(WaitPredicate(w) \/ WaitBlock(w) \/ Pop(w))
                        /\ WF_vars(BeginTask(w) \/ EndTask(w))
  /\ \A s \in Submitters : SF_vars(SubmitPush(s)) /\ WF_vars(SubmitNotify(s))
  /\ WF_vars(StopNotifyAll) /\ WF_vars(StopJoined)

Spec == Init /\ [][Next]_vars

FairSpec == Spec /\ Fairness
-----------------------------------------------------------------------------
(* Properties                                                               *)

\* The workers that will look at the queue again without being notified.
Awake == {w \in Workers : wpc[w] \in {"loop", "lock", "predicate", "pop"}}

\* The submitters that have pushed a task and not yet called notify_one.
Notifying == {s \in Submitters : spc[s] = "notify"}

(* No wakeup of submit is lost: while the pool runs and some worker sleeps   *)
(* on cvTask, every queued task has a worker on its way to the queue or a    *)
(* notify_one on its way to the sleepers.  The push under mtxTask, the       *)
(* predicate tested under it and one notify_one for every push are what      *)
(* this rests on (lines 55-59 and 85-91).                                    *)
NoIdleWhileQueued ==
  ~bStoped /\ cvTask # {}
    => Len(queTask) =< Cardinality(Awake) + Cardinality(Notifying)

(* A task is in one place at a time, from the call of submit to the end of   *)
(* its run: it is never queued twice, never given to two workers and never   *)
(* run again after it is done (the move and the pop of lines 62-63).         *)
TaskInOnePlace ==
  /\ \A i, j \in 1 .. Len(queTask) : queTask[i] = queTask[j] => i = j
  /\ \A v, w \in Workers : task[v] = task[w] => v = w \/ task[w] = NoTask
  /\ \A s, r \in Submitters : arg[s] = arg[r] => s = r \/ arg[s] = NoTask
  /\ \A s \in Submitters, w \in Workers : arg[s] = task[w] => task[w] = NoTask
  /\ Queued \cap (Held \cup done \cup refused) = {}
  /\ Held \cap (done \cup refused) = {}
  /\ done \cap refused = {}

(* A submitted task is run, unless the pool is stopped first: do_work and    *)
(* submit together leave no task behind on a running pool.  A task a worker  *)
(* has taken off the queue is run to its end even when the destructor has    *)
(* started meanwhile: bStoped is tested only before the next task is taken   *)
(* (lines 51 and 60).                                                        *)
QueuedTaskRuns ==
  \A t \in Tasks : /\ t \in Queued ~> t \in done \/ bStoped
                   /\ (\E w \in Workers : task[w] = t) ~> t \in done

(* The destructor returns.  The comment on notify_all (line 43) says that it *)
(* wakes up all threads, and the joins after it need every one of them.      *)
DestructorReturns ==
  dpc = "stored" ~> dpc = "destroyed"
=============================================================================
