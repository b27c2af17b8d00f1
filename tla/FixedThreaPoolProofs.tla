------------------------ MODULE FixedThreaPoolProofs ------------------------
(***************************************************************************)
(* Proofs about FixedThreaPool, for any number of threads, submitters and   *)
(* tasks.                                                                   *)
(***************************************************************************)
EXTENDS FixedThreaPool, FiniteSetTheorems, SequenceTheorems, TLAPS

Running == {w \in Workers : wpc[w] = "run"}

\* The idle count is exact whenever no worker is between pop and nIdlThredNum--.
IdleCount == nIdlThredNum = NumThread - Cardinality(Running)

\* The control points between locking and unlocking mtxTask.
MutexOwner ==
  \A w \in Workers : wpc[w] \in {"predicate", "sleep", "pop"} <=> mtxTask = w

\* The wait set of the condition variable.
Sleepers == cvTask = {w \in Workers : wpc[w] = "blocked"}

\* A worker that found the predicate false still holds the mutex, so nothing has
\* been pushed since.
SleepsOnEmpty == \A w \in Workers : wpc[w] = "sleep" => queTask = <<>>

\* Local variables hold a task where the code uses one.
Locals ==
  /\ \A w \in Workers : wpc[w] \in {"begin", "run"} => task[w] \in Tasks
  /\ \A s \in Submitters : spc[s] = "push" => arg[s] \in Tasks

\* TypeOK, with the idle count replaced by its exact value.
TypeBase ==
  /\ queTask \in Seq(Tasks)
  /\ mtxTask \in Workers \cup {0}
  /\ cvTask \in SUBSET Workers
  /\ bStoped \in BOOLEAN
  /\ wpc \in [Workers -> WorkerPc]
  /\ task \in [Workers -> Tasks \cup {NoTask}]
  /\ spc \in [Submitters -> SubmitPc]
  /\ arg \in [Submitters -> Tasks \cup {NoTask}]
  /\ dpc \in StopPc
  /\ done \in SUBSET Tasks
  /\ refused \in SUBSET Tasks

\* The inductive invariant behind TypeOK.
TypeInv == TypeBase /\ Locals /\ IdleCount

\* The inductive invariant behind NoIdleWhileQueued.
WakeInv == MutexOwner /\ Sleepers /\ SleepsOnEmpty /\ NoIdleWhileQueued
-----------------------------------------------------------------------------
(* Facts about the constants and about finite sets                          *)

(* The constructor's thread count is a natural number, so the workers form a *)
(* finite set that does not contain the value 0 of a free mutex (lines       *)
(* 33-38).                                                                   *)
LEMMA WorkersFinite ==
  /\ NumThread \in Nat
  /\ IsFiniteSet(Workers) /\ Cardinality(Workers) = NumThread
  /\ Workers \subseteq Nat \ {0}
<1>1. NumThread \in Nat
  BY SizeAssumption DEF NumThread
<1>2. IsFiniteSet(1 .. NumThread) /\ Cardinality(1 .. NumThread) = NumThread
  BY <1>1, FS_Interval
<1>3. QED
  BY <1>1, <1>2 DEF Workers

(* The sets that NoIdleWhileQueued and the idle count measure are finite and *)
(* their sizes are natural numbers, whatever the threads of the pool do.     *)
LEMMA CountsAreNat ==
  /\ IsFiniteSet(Awake) /\ Cardinality(Awake) \in Nat
  /\ IsFiniteSet(Notifying) /\ Cardinality(Notifying) \in Nat
  /\ IsFiniteSet(Running) /\ Cardinality(Running) \in 0 .. NumThread
<1>1. Awake \in SUBSET Workers /\ Running \in SUBSET Workers
  BY DEF Awake, Running
<1>2. Notifying \in SUBSET Submitters
  BY DEF Notifying
<1>3. IsFiniteSet(Awake) /\ IsFiniteSet(Running) /\ IsFiniteSet(Notifying)
  BY <1>1, <1>2, WorkersFinite, SubmitterAssumption, FS_Subset
<1>4. Cardinality(Running) =< NumThread
  BY <1>1, WorkersFinite, FS_Subset
<1>5. QED
  BY <1>3, <1>4, WorkersFinite, FS_CardinalityType

-----------------------------------------------------------------------------
(* Type correctness                                                         *)

(* The constructor establishes the type invariant.                          *)
LEMMA TypeInit == Init => TypeInv
<1> SUFFICES ASSUME Init PROVE TypeInv
  OBVIOUS
<1>1. TypeBase /\ Locals
  <2>1. queTask \in Seq(Tasks)
    BY EmptySeq DEF Init
  <2>2. wpc \in [Workers -> WorkerPc] /\ spc \in [Submitters -> SubmitPc]
    BY DEF Init, WorkerPc, SubmitPc
  <2>3. task \in [Workers -> Tasks \cup {NoTask}]
        /\ arg \in [Submitters -> Tasks \cup {NoTask}]
    BY DEF Init
  <2>4. TypeBase
    BY <2>1, <2>2, <2>3 DEF Init, TypeBase, StopPc
  <2>5. Locals
    BY DEF Init, Locals
  <2>6. QED
    BY <2>4, <2>5
<1>2. Running = {}
  BY DEF Init, Running
<1>3. Cardinality(Running) = 0
  BY <1>2, FS_EmptySet
<1>4. IdleCount
  BY <1>3, WorkersFinite DEF Init, IdleCount
<1>5. QED
  BY <1>1, <1>4 DEF TypeInv

(* A step that moves one worker from one control point other than "run" to   *)
(* another one leaves the set of running workers as it is.                   *)
LEMMA RunningUnchanged ==
  ASSUME TypeBase, NEW w \in Workers, NEW to \in WorkerPc \ {"run"},
         wpc[w] # "run", wpc' = [wpc EXCEPT ![w] = to]
  PROVE  Running' = Running
BY DEF Running, TypeBase

(* Every step of do_work, submit and the destructor preserves the types of   *)
(* the pool's variables and of the threads' local variables.                 *)
LEMMA TypeBaseStep == TypeInv /\ [Next]_vars => TypeBase' /\ Locals'
<1> SUFFICES ASSUME TypeInv, [Next]_vars PROVE TypeBase' /\ Locals'
  OBVIOUS
<1> USE DEF TypeInv, TypeBase, Locals, WorkerPc, SubmitPc, StopPc
<1>1. ASSUME NEW w \in Workers, LoopTest(w) PROVE TypeBase' /\ Locals'
  BY <1>1 DEF LoopTest, Goto
<1>2. ASSUME NEW w \in Workers, Lock(w) PROVE TypeBase' /\ Locals'
  BY <1>2 DEF Lock, Goto
<1>3. ASSUME NEW w \in Workers, WaitPredicate(w) PROVE TypeBase' /\ Locals'
  BY <1>3 DEF WaitPredicate, Goto
<1>4. ASSUME NEW w \in Workers, WaitBlock(w) PROVE TypeBase' /\ Locals'
  BY <1>4 DEF WaitBlock, Goto
<1>5. ASSUME NEW w \in Workers, SpuriousWakeup(w) PROVE TypeBase' /\ Locals'
  BY <1>5 DEF SpuriousWakeup, Goto
<1>6. ASSUME NEW w \in Workers, Pop(w) PROVE TypeBase' /\ Locals'
  <2>1. CASE queTask # <<>> /\ queTask' = Tail(queTask)
    <3>1. Head(queTask) \in Tasks /\ Tail(queTask) \in Seq(Tasks)
      BY <2>1, HeadTailProperties
    <3>2. QED
      BY <1>6, <2>1, <3>1 DEF Pop, Goto
  <2>2. CASE UNCHANGED <<queTask, task>>
    BY <1>6, <2>2 DEF Pop, Goto
  <2>3. QED
    BY <1>6, <2>1, <2>2 DEF Pop
<1>7. ASSUME NEW w \in Workers, BeginTask(w) PROVE TypeBase' /\ Locals'
  BY <1>7 DEF BeginTask, Goto
<1>8. ASSUME NEW w \in Workers, EndTask(w) PROVE TypeBase' /\ Locals'
  BY <1>8 DEF EndTask, Goto
<1>9. ASSUME NEW s \in Submitters, NEW t \in Tasks, SubmitTest(s, t)
      PROVE  TypeBase' /\ Locals'
  BY <1>9 DEF SubmitTest
<1>10. ASSUME NEW s \in Submitters, SubmitPush(s) PROVE TypeBase' /\ Locals'
  BY <1>10 DEF SubmitPush
<1>11. ASSUME NEW s \in Submitters, SubmitNotify(s) PROVE TypeBase' /\ Locals'
  BY <1>11 DEF SubmitNotify
<1>12. CASE StopStore
  BY <1>12 DEF StopStore
<1>13. CASE StopNotifyAll
  BY <1>13 DEF StopNotifyAll
<1>14. CASE StopJoined
  BY <1>14, EmptySeq DEF StopJoined
<1>15. CASE UNCHANGED vars
  BY <1>15 DEF vars
<1>16. QED
  BY <1>1, <1>2, <1>3, <1>4, <1>5, <1>6, <1>7, <1>8, <1>9, <1>10, <1>11, <1>12,
     <1>13, <1>14, <1>15 DEF Next, DoWork, Submit

(* nIdlThredNum-- and nIdlThredNum++ keep the idle count equal to the number *)
(* of workers that are not running a task (lines 65-67).                     *)
LEMMA IdleCountStep == TypeInv /\ Sleepers /\ [Next]_vars => IdleCount'
<1> SUFFICES ASSUME TypeInv, Sleepers, [Next]_vars PROVE IdleCount'
  OBVIOUS
<1> USE DEF TypeInv, IdleCount
<1>a. TypeBase /\ wpc \in [Workers -> WorkerPc]
  BY DEF TypeBase
<1>1. ASSUME NEW w \in Workers,
             LoopTest(w) \/ Lock(w) \/ WaitPredicate(w) \/ WaitBlock(w)
               \/ SpuriousWakeup(w) \/ Pop(w)
      PROVE  IdleCount'
  <2>1. nIdlThredNum' = nIdlThredNum
    BY <1>1 DEF LoopTest, Lock, WaitPredicate, WaitBlock, SpuriousWakeup, Pop
  <2>2. \E to \in WorkerPc \ {"run"} :
           wpc[w] # "run" /\ wpc' = [wpc EXCEPT ![w] = to]
    BY <1>1 DEF LoopTest, Lock, WaitPredicate, WaitBlock, SpuriousWakeup, Pop,
                Goto, WorkerPc
  <2>3. Running' = Running
    BY <1>a, <2>2, RunningUnchanged
  <2>4. QED
    BY <2>1, <2>3
<1>2. ASSUME NEW w \in Workers, BeginTask(w) PROVE IdleCount'
  <2>1. Running' = Running \cup {w} /\ w \notin Running
    BY <1>2, <1>a DEF BeginTask, Goto, Running
  <2>2. Cardinality(Running') = Cardinality(Running) + 1
    BY <2>1, CountsAreNat, FS_AddElement
  <2>3. QED
    BY <1>2, <2>2, CountsAreNat, WorkersFinite DEF BeginTask
<1>3. ASSUME NEW w \in Workers, EndTask(w) PROVE IdleCount'
  <2>1. Running' = Running \ {w} /\ w \in Running
    BY <1>3, <1>a DEF EndTask, Goto, Running
  <2>2. Cardinality(Running') = Cardinality(Running) - 1
    BY <2>1, CountsAreNat, FS_RemoveElement
  <2>3. QED
    BY <1>3, <2>2, CountsAreNat, WorkersFinite DEF EndTask
<1>4. ASSUME NEW s \in Submitters, SubmitNotify(s) PROVE IdleCount'
  <2>1. Running' = Running
    <3>1. CASE UNCHANGED wpc
      BY <3>1 DEF Running
    <3>2. ASSUME NEW w \in cvTask, wpc' = [wpc EXCEPT ![w] = "lock"]
          PROVE  Running' = Running
      BY <3>2, <1>a, RunningUnchanged DEF Sleepers, WorkerPc
    <3>3. QED
      BY <1>4, <3>1, <3>2 DEF SubmitNotify
  <2>2. QED
    BY <1>4, <2>1 DEF SubmitNotify
<1>5. CASE StopNotifyAll
  <2>1. Running' = Running
    BY <1>5, <1>a DEF StopNotifyAll, Running, Sleepers
  <2>2. QED
    BY <1>5, <2>1 DEF StopNotifyAll
<1>6. ASSUME UNCHANGED <<wpc, nIdlThredNum>> PROVE IdleCount'
  BY <1>6 DEF Running
<1>7. ASSUME NEW s \in Submitters, NEW t \in Tasks, SubmitTest(s, t) PROVE IdleCount'
  BY <1>7, <1>6 DEF SubmitTest
<1>8. ASSUME NEW s \in Submitters, SubmitPush(s) PROVE IdleCount'
  BY <1>8, <1>6 DEF SubmitPush
<1>9. CASE StopStore \/ StopJoined \/ UNCHANGED vars
  BY <1>9, <1>6 DEF StopStore, StopJoined, vars
<1>10. QED
  BY <1>1, <1>2, <1>3, <1>4, <1>5, <1>7, <1>8, <1>9 DEF Next, DoWork, Submit
-----------------------------------------------------------------------------
(* No wakeup is lost                                                        *)

(* Nobody sleeps and nothing is queued in a new pool.                       *)
LEMMA WakeInit == Init => WakeInv
BY WorkersFinite DEF Init, WakeInv, MutexOwner, Sleepers, SleepsOnEmpty,
                     NoIdleWhileQueued

(* Mutual exclusion on mtxTask, the wait set of cvTask and the emptiness of  *)
(* the queue seen by a worker about to block are kept by every step.         *)
LEMMA ControlStep ==
  TypeInv /\ MutexOwner /\ Sleepers /\ SleepsOnEmpty /\ [Next]_vars
    => MutexOwner' /\ Sleepers' /\ SleepsOnEmpty'
<1> DEFINE Control == MutexOwner /\ Sleepers /\ SleepsOnEmpty
<1> SUFFICES ASSUME TypeInv, Control, [Next]_vars PROVE Control'
  OBVIOUS
<1> USE WorkersFinite DEF TypeInv, TypeBase, MutexOwner, Sleepers, SleepsOnEmpty,
                          WorkerPc
<1>1. ASSUME NEW w \in Workers, LoopTest(w) PROVE Control'
  BY <1>1 DEF LoopTest, Goto
<1>2. ASSUME NEW w \in Workers, Lock(w) PROVE Control'
  BY <1>2 DEF Lock, Goto
<1>3. ASSUME NEW w \in Workers, WaitPredicate(w) PROVE Control'
  BY <1>3 DEF WaitPredicate, Goto
<1>4. ASSUME NEW w \in Workers, WaitBlock(w) PROVE Control'
  BY <1>4 DEF WaitBlock, Goto
<1>5. ASSUME NEW w \in Workers, SpuriousWakeup(w) PROVE Control'
  BY <1>5 DEF SpuriousWakeup, Goto
<1>6. ASSUME NEW w \in Workers, Pop(w) PROVE Control'
  BY <1>6 DEF Pop, Goto
<1>7. ASSUME NEW w \in Workers, BeginTask(w) PROVE Control'
  BY <1>7 DEF BeginTask, Goto
<1>8. ASSUME NEW w \in Workers, EndTask(w) PROVE Control'
  BY <1>8 DEF EndTask, Goto
<1>9. ASSUME NEW s \in Submitters, NEW t \in Tasks, SubmitTest(s, t) PROVE Control'
  BY <1>9 DEF SubmitTest
<1>10. ASSUME NEW s \in Submitters, SubmitPush(s) PROVE Control'
  BY <1>10 DEF SubmitPush
<1>11. ASSUME NEW s \in Submitters, SubmitNotify(s) PROVE Control'
  BY <1>11, ZenonT(60) DEF SubmitNotify
<1>12. CASE StopStore
  BY <1>12 DEF StopStore
<1>13. CASE StopNotifyAll
  BY <1>13 DEF StopNotifyAll
<1>14. CASE StopJoined
  BY <1>14 DEF StopJoined
<1>15. CASE UNCHANGED vars
  BY <1>15 DEF vars
<1>16. QED
  BY <1>1, <1>2, <1>3, <1>4, <1>5, <1>6, <1>7, <1>8, <1>9, <1>10, <1>11, <1>12,
     <1>13, <1>14, <1>15 DEF Next, DoWork, Submit

(* Every step keeps enough workers awake or notifications under way for the  *)
(* queued tasks: a push adds one of each, notify_one turns a notification    *)
(* into an awake worker, a pop removes one of each, and a worker falls       *)
(* asleep only on an empty queue.                                            *)
LEMMA NoIdleStep ==
  TypeInv /\ WakeInv /\ [Next]_vars => NoIdleWhileQueued'
<1> SUFFICES ASSUME TypeInv, WakeInv, [Next]_vars,
                    ~bStoped', cvTask' # {}
             PROVE  Len(queTask') =< Cardinality(Awake') + Cardinality(Notifying')
  BY DEF NoIdleWhileQueued
<1> DEFINE Goal == Len(queTask') =< Cardinality(Awake') + Cardinality(Notifying')
<1> HIDE DEF Goal
<1>a. /\ queTask \in Seq(Tasks) /\ Len(queTask) \in Nat
      /\ wpc \in [Workers -> WorkerPc] /\ spc \in [Submitters -> SubmitPc]
  BY LenProperties DEF TypeInv, TypeBase
<1>b. cvTask # {} => Len(queTask) =< Cardinality(Awake) + Cardinality(Notifying)
                     \/ bStoped
  BY DEF WakeInv, NoIdleWhileQueued
<1>c. /\ Cardinality(Awake) \in Nat /\ Cardinality(Notifying) \in Nat
      /\ IsFiniteSet(Awake) /\ IsFiniteSet(Notifying)
      /\ Cardinality(Awake') \in Nat /\ Cardinality(Notifying') \in Nat
  <2>1. (Cardinality(Awake) \in Nat)' /\ (Cardinality(Notifying) \in Nat)'
    BY CountsAreNat, PTL
  <2>2. QED
    BY <2>1, CountsAreNat
<1>1. ASSUME NEW w \in Workers, LoopTest(w) PROVE Goal
  <2>1. Awake' = Awake /\ Notifying' = Notifying
    BY <1>1, <1>a DEF LoopTest, Goto, Awake, Notifying
  <2>2. QED
    BY <1>1, <1>a, <1>b, <2>1 DEF LoopTest, Goal
<1>2. ASSUME NEW w \in Workers, Lock(w) PROVE Goal
  <2>1. Awake' = Awake /\ Notifying' = Notifying
    BY <1>2, <1>a DEF Lock, Goto, Awake, Notifying
  <2>2. QED
    BY <1>2, <1>a, <1>b, <2>1 DEF Lock, Goal
<1>3. ASSUME NEW w \in Workers, WaitPredicate(w) PROVE Goal
  <2>1. CASE queTask = <<>>
    BY <1>3, <2>1, <1>c, EmptySeq DEF WaitPredicate, Goal
  <2>2. CASE queTask # <<>>
    <3>1. Awake' = Awake /\ Notifying' = Notifying
      BY <1>3, <1>a, <2>2 DEF WaitPredicate, Goto, Awake, Notifying
    <3>2. QED
      BY <1>3, <1>a, <1>b, <3>1 DEF WaitPredicate, Goal
  <2>3. QED
    BY <2>1, <2>2
<1>4. ASSUME NEW w \in Workers, WaitBlock(w) PROVE Goal
  <2>1. queTask' = <<>>
    BY <1>4 DEF WaitBlock, Goto, WakeInv, SleepsOnEmpty
  <2>2. QED
    BY <2>1, <1>c, EmptySeq DEF Goal
<1>5. ASSUME NEW w \in Workers, SpuriousWakeup(w) PROVE Goal
  <2>1. Awake' = Awake \cup {w} /\ w \notin Awake /\ Notifying' = Notifying
    BY <1>5, <1>a DEF SpuriousWakeup, Goto, Awake, Notifying
  <2>2. Cardinality(Awake') = Cardinality(Awake) + 1
    BY <2>1, <1>c, FS_AddElement
  <2>3. QED
    BY <1>5, <1>a, <1>b, <1>c, <2>1, <2>2 DEF SpuriousWakeup, Goal
<1>6. ASSUME NEW w \in Workers, Pop(w) PROVE Goal
  <2>1. queTask # <<>> /\ queTask' = Tail(queTask) /\ Goto(w, "pop", "begin")
    BY <1>6 DEF Pop
  <2>2. Len(queTask') = Len(queTask) - 1
    BY <2>1, <1>a, HeadTailProperties
  <2>3. Awake' = Awake \ {w} /\ w \in Awake /\ Notifying' = Notifying
    BY <1>6, <2>1, <1>a DEF Pop, Goto, Awake, Notifying
  <2>4. Cardinality(Awake') = Cardinality(Awake) - 1
    BY <2>3, <1>c, FS_RemoveElement
  <2>5. QED
    BY <1>6, <1>a, <1>b, <1>c, <2>2, <2>3, <2>4 DEF Pop, Goal
<1>7. ASSUME NEW w \in Workers, BeginTask(w) PROVE Goal
  <2>1. Awake' = Awake /\ Notifying' = Notifying
    BY <1>7, <1>a DEF BeginTask, Goto, Awake, Notifying
  <2>2. QED
    BY <1>7, <1>a, <1>b, <2>1 DEF BeginTask, Goal
<1>8. ASSUME NEW w \in Workers, EndTask(w) PROVE Goal
  <2>1. Awake' = Awake \cup {w} /\ w \notin Awake /\ Notifying' = Notifying
    BY <1>8, <1>a DEF EndTask, Goto, Awake, Notifying
  <2>2. Cardinality(Awake') = Cardinality(Awake) + 1
    BY <2>1, <1>c, FS_AddElement
  <2>3. QED
    BY <1>8, <1>a, <1>b, <1>c, <2>1, <2>2 DEF EndTask, Goal
<1>9. ASSUME NEW s \in Submitters, NEW t \in Tasks, SubmitTest(s, t) PROVE Goal
  <2>1. Awake' = Awake /\ Notifying' = Notifying
    BY <1>9, <1>a DEF SubmitTest, Awake, Notifying, SubmitPc
  <2>2. QED
    BY <1>9, <1>a, <1>b, <2>1 DEF SubmitTest, Goal
<1>10. ASSUME NEW s \in Submitters, SubmitPush(s) PROVE Goal
  <2>1. Notifying' = Notifying \cup {s} /\ s \notin Notifying /\ Awake' = Awake
    BY <1>10, <1>a DEF SubmitPush, Awake, Notifying
  <2>2. Cardinality(Notifying') = Cardinality(Notifying) + 1
    BY <2>1, <1>c, FS_AddElement
  <2>3. Len(queTask') = Len(queTask) + 1
    BY <1>10, <1>a DEF SubmitPush, TypeInv, Locals
  <2>4. QED
    BY <1>10, <1>a, <1>b, <1>c, <2>1, <2>2, <2>3 DEF SubmitPush, Goal
<1>11. ASSUME NEW s \in Submitters, SubmitNotify(s) PROVE Goal
  <2>1. Notifying' = Notifying \ {s} /\ s \in Notifying
    BY <1>11, <1>a DEF SubmitNotify, Notifying
  <2>2. Cardinality(Notifying') = Cardinality(Notifying) - 1
    BY <2>1, <1>c, FS_RemoveElement
  <2>3. PICK w \in cvTask : wpc' = [wpc EXCEPT ![w] = "lock"]
    BY <1>11 DEF SubmitNotify
  <2>4. Awake' = Awake \cup {w} /\ w \notin Awake
    BY <2>3, <1>a DEF Awake, WakeInv, Sleepers
  <2>5. Cardinality(Awake') = Cardinality(Awake) + 1
    BY <2>4, <1>c, FS_AddElement
  <2>6. QED
    BY <1>11, <1>a, <1>b, <1>c, <2>2, <2>3, <2>5 DEF SubmitNotify, Goal
<1>12. ASSUME StopStore \/ StopNotifyAll \/ StopJoined PROVE Goal
  <2>1. CASE StopStore
    BY <2>1 DEF StopStore
  <2>2. CASE StopNotifyAll
    BY <2>2 DEF StopNotifyAll
  <2>3. CASE StopJoined
    BY <2>3, <1>c, EmptySeq DEF StopJoined, Goal
  <2>4. QED
    BY <1>12, <2>1, <2>2, <2>3
<1>13. ASSUME UNCHANGED vars PROVE Goal
  BY <1>13, <1>a, <1>b DEF vars, Goal, Awake, Notifying
<1>14. Goal
  <2>1. ASSUME NEW w \in Workers, DoWork(w) \/ SpuriousWakeup(w) PROVE Goal
    BY <2>1, <1>1, <1>2, <1>3, <1>4, <1>5, <1>6, <1>7, <1>8 DEF DoWork
  <2>2. ASSUME NEW s \in Submitters,
               Submit(s) \/ \E t \in Tasks : SubmitTest(s, t)
        PROVE  Goal
    BY <2>2, <1>9, <1>10, <1>11 DEF Submit
  <2>3. CASE Next
    BY <2>1, <2>2, <2>3, <1>12 DEF Next
  <2>4. QED
    BY <1>13, <2>3
<1>15. QED
  BY <1>14 DEF Goal

-----------------------------------------------------------------------------
(* A task is in one place                                                   *)

(* Taking the front off a queue of different tasks leaves the others behind, *)
(* still different from one another and from the one taken.                  *)
LEMMA PopQueue ==
  ASSUME queTask \in Seq(Tasks), queTask # <<>>, queTask' = Tail(queTask),
         \A i, j \in 1 .. Len(queTask) : queTask[i] = queTask[j] => i = j
  PROVE  /\ Head(queTask) \in Queued /\ Head(queTask) \in Tasks
         /\ Queued' \subseteq Queued \ {Head(queTask)}
         /\ \A i, j \in 1 .. Len(queTask') : queTask'[i] = queTask'[j] => i = j
<1>1. /\ Len(queTask) \in Nat \ {0} /\ Len(Tail(queTask)) = Len(queTask) - 1
      /\ \A i \in 1 .. Len(Tail(queTask)) : Tail(queTask)[i] = queTask[i + 1]
      /\ Head(queTask) = queTask[1]
  BY HeadTailProperties, LenProperties
<1>2. \A i \in 1 .. Len(queTask') : /\ i + 1 \in 1 .. Len(queTask) /\ i + 1 # 1
                                    /\ queTask'[i] = queTask[i + 1]
  BY <1>1
<1>3. 1 \in 1 .. Len(queTask)
  BY <1>1
<1>4. Queued' \subseteq Queued \ {Head(queTask)}
  BY <1>1, <1>2, <1>3 DEF Queued
<1>5. ASSUME NEW i \in 1 .. Len(queTask'), NEW j \in 1 .. Len(queTask'),
             queTask'[i] = queTask'[j]
      PROVE  i = j
  <2>1. i + 1 = j + 1
    BY <1>2, <1>5
  <2>2. QED
    BY <2>1, <1>1
<1>6. QED
  BY <1>1, <1>3, <1>4, <1>5, HeadTailProperties DEF Queued

(* Pushing a task that is not queued keeps the queued tasks different.       *)
LEMMA PushQueue ==
  ASSUME queTask \in Seq(Tasks), NEW t \in Tasks, t \notin Queued,
         queTask' = Append(queTask, t),
         \A i, j \in 1 .. Len(queTask) : queTask[i] = queTask[j] => i = j
  PROVE  /\ Queued' \subseteq Queued \cup {t}
         /\ \A i, j \in 1 .. Len(queTask') : queTask'[i] = queTask'[j] => i = j
<1>1. /\ Len(queTask) \in Nat /\ Len(queTask') = Len(queTask) + 1
      /\ \A i \in 1 .. Len(queTask) : queTask'[i] = queTask[i]
      /\ queTask'[Len(queTask) + 1] = t
  BY AppendProperties, LenProperties
<1>2. \A i \in 1 .. Len(queTask') : i \in 1 .. Len(queTask) \/ i = Len(queTask) + 1
  BY <1>1
<1>3. \A i \in 1 .. Len(queTask) : queTask[i] # t
  BY DEF Queued
<1>4. QED
  BY <1>1, <1>2, <1>3 DEF Queued

(* Every step moves a task on, from the submitter to the queue, to one       *)
(* worker, to the finished tasks, and never copies it.                       *)
LEMMA OnePlaceStep == TypeInv /\ TaskInOnePlace /\ [Next]_vars => TaskInOnePlace'
<1> SUFFICES ASSUME TypeInv, TaskInOnePlace, [Next]_vars PROVE TaskInOnePlace'
  OBVIOUS
<1>a. /\ queTask \in Seq(Tasks) /\ task \in [Workers -> Tasks \cup {NoTask}]
      /\ arg \in [Submitters -> Tasks \cup {NoTask}]
      /\ done \subseteq Tasks /\ refused \subseteq Tasks
  BY DEF TypeInv, TypeBase
<1>b. Queued \subseteq Tasks
  BY <1>a, ElementOfSeq DEF Queued
<1>1. ASSUME UNCHANGED <<queTask, task, arg, done, refused>> PROVE TaskInOnePlace'
  BY <1>1 DEF TaskInOnePlace, Queued, Held
<1>2. ASSUME NEW w \in Workers, Pop(w), queTask # <<>> PROVE TaskInOnePlace'
  <2>1. /\ queTask' = Tail(queTask) /\ task' = [task EXCEPT ![w] = Head(queTask)]
        /\ UNCHANGED <<arg, done, refused>>
    BY <1>2 DEF Pop
  <2> DEFINE t == Head(queTask)
  <2>2. /\ t \in Queued /\ t \in Tasks /\ Queued' \subseteq Queued \ {t}
        /\ \A i, j \in 1 .. Len(queTask') : queTask'[i] = queTask'[j] => i = j
    BY <1>a, <1>2, <2>1, PopQueue DEF TaskInOnePlace
  <2> HIDE DEF t
  <2>3. t \notin Held \cup done \cup refused
    BY <2>2 DEF TaskInOnePlace
  <2>4. /\ \A v \in Workers : task[v] # t /\ task'[v] = IF v = w THEN t ELSE task[v]
        /\ \A s \in Submitters : arg[s] # t
        /\ Held' \subseteq Held \cup {t}
    BY <1>a, <2>1, <2>3 DEF Held, t
  <2>5. QED
    BY <2>1, <2>2, <2>3, <2>4 DEF TaskInOnePlace
<1>3. ASSUME NEW w \in Workers, EndTask(w) PROVE TaskInOnePlace'
  <2>1. /\ done' = done \cup {task[w]} /\ task' = [task EXCEPT ![w] = NoTask]
        /\ UNCHANGED <<queTask, arg, refused>>
        /\ task[w] \in Tasks
    BY <1>3 DEF EndTask, Goto, TypeInv, Locals
  <2>2. Queued' = Queued
    BY <2>1 DEF Queued
  <2>3. task[w] \in Held /\ task[w] # NoTask
    BY <2>1, TaskAssumption DEF Held
  <2>4. \A v \in Workers : task'[v] = IF v = w THEN NoTask ELSE task[v]
    BY <1>a, <2>1
  <2>5. Held' \subseteq (Held \ {task[w]}) \cup {NoTask}
    BY <2>1, <2>3, <2>4 DEF Held, TaskInOnePlace
  <2>6. NoTask \notin done' \cup refused' \cup Queued'
    BY <1>a, <1>b, <2>1, <2>2, TaskAssumption
  <2>7. /\ Queued' \cap (Held' \cup done' \cup refused') = {}
        /\ Held' \cap (done' \cup refused') = {}
        /\ done' \cap refused' = {}
    BY <2>1, <2>2, <2>3, <2>5, <2>6 DEF TaskInOnePlace
  <2>8. QED
    BY <2>1, <2>4, <2>7 DEF TaskInOnePlace
<1>4. ASSUME NEW s \in Submitters, NEW t \in Tasks, SubmitTest(s, t)
      PROVE  TaskInOnePlace'
  <2>1. t \notin Queued \cup Held \cup done \cup refused /\ t # NoTask
    BY <1>4, TaskAssumption DEF SubmitTest, Fresh
  <2>2. UNCHANGED <<queTask, task, done>> /\ Queued' = Queued
    BY <1>4 DEF SubmitTest, Queued
  <2>3. CASE refused' = refused \cup {t} /\ UNCHANGED arg
    <3>1. Held' = Held
      BY <2>2, <2>3 DEF Held
    <3>2. QED
      BY <2>1, <2>2, <2>3, <3>1 DEF TaskInOnePlace
  <2>4. CASE arg' = [arg EXCEPT ![s] = t] /\ UNCHANGED refused
    <3>1. \A r \in Submitters : arg'[r] = IF r = s THEN t ELSE arg[r]
      BY <1>a, <2>4
    <3>2. /\ Held' \subseteq Held \cup {t}
          /\ \A v \in Workers : task[v] # t
          /\ \A r \in Submitters : arg[r] # t
      BY <2>1, <2>2, <3>1 DEF Held
    <3>3. QED
      BY <2>1, <2>2, <2>4, <3>1, <3>2 DEF TaskInOnePlace
  <2>5. QED
    BY <1>4, <2>3, <2>4 DEF SubmitTest
<1>5. ASSUME NEW s \in Submitters, SubmitPush(s) PROVE TaskInOnePlace'
  <2>1. /\ queTask' = Append(queTask, arg[s]) /\ arg' = [arg EXCEPT ![s] = NoTask]
        /\ UNCHANGED <<task, done, refused>>
        /\ arg[s] \in Tasks
    BY <1>5 DEF SubmitPush, TypeInv, Locals
  <2>2. arg[s] \in Held /\ arg[s] # NoTask
    BY <2>1, TaskAssumption DEF Held
  <2>3. arg[s] \notin Queued \cup done \cup refused
    BY <2>2 DEF TaskInOnePlace
  <2>4. /\ Queued' \subseteq Queued \cup {arg[s]}
        /\ \A i, j \in 1 .. Len(queTask') : queTask'[i] = queTask'[j] => i = j
    BY <1>a, <2>1, <2>3, PushQueue DEF TaskInOnePlace
  <2>5. \A r \in Submitters : arg'[r] = IF r = s THEN NoTask ELSE arg[r]
    BY <1>a, <2>1
  <2>6. Held' \subseteq (Held \ {arg[s]}) \cup {NoTask}
    BY <2>1, <2>2, <2>5 DEF Held, TaskInOnePlace
  <2>7. NoTask \notin done' \cup refused' \cup Queued'
    BY <1>a, <1>b, <2>1, <2>4, TaskAssumption
  <2>8. /\ Queued' \cap (Held' \cup done' \cup refused') = {}
        /\ Held' \cap (done' \cup refused') = {}
        /\ done' \cap refused' = {}
    BY <2>1, <2>2, <2>3, <2>4, <2>6, <2>7 DEF TaskInOnePlace
  <2>9. QED
    BY <2>1, <2>4, <2>5, <2>8 DEF TaskInOnePlace
<1>6. CASE StopJoined
  <2>1. queTask' = <<>> /\ UNCHANGED <<task, arg, done, refused>>
    BY <1>6 DEF StopJoined
  <2>2. Len(queTask') = 0 /\ Queued' = {} /\ Held' = Held
    BY <2>1, EmptySeq DEF Queued, Held
  <2>3. QED
    BY <2>1, <2>2 DEF TaskInOnePlace
<1>7. ASSUME NEW w \in Workers, DoWork(w) \/ SpuriousWakeup(w) PROVE TaskInOnePlace'
  <2>1. CASE Pop(w) /\ queTask = <<>>
    BY <2>1, <1>1 DEF Pop
  <2>2. CASE LoopTest(w) \/ Lock(w) \/ WaitPredicate(w) \/ WaitBlock(w)
               \/ SpuriousWakeup(w) \/ BeginTask(w)
    BY <2>2, <1>1 DEF LoopTest, Lock, WaitPredicate, WaitBlock, SpuriousWakeup,
                      BeginTask
  <2>3. QED
    BY <1>2, <1>3, <1>7, <2>1, <2>2 DEF DoWork
<1>8. ASSUME NEW s \in Submitters, SubmitNotify(s) PROVE TaskInOnePlace'
  BY <1>8, <1>1 DEF SubmitNotify
<1>9. CASE StopStore \/ StopNotifyAll \/ UNCHANGED vars
  BY <1>9, <1>1 DEF StopStore, StopNotifyAll, vars
<1>10. QED
  BY <1>4, <1>5, <1>6, <1>7, <1>8, <1>9 DEF Next, Submit

-----------------------------------------------------------------------------
(* Theorems                                                                 *)

(* The inductive invariant of the pool holds in every reachable state.       *)
LEMMA InvariantHolds == Spec => [](TypeInv /\ WakeInv)
<1>1. Init => TypeInv /\ WakeInv
  BY TypeInit, WakeInit
<1>2. TypeInv /\ WakeInv /\ [Next]_vars => (TypeInv /\ WakeInv)'
  BY TypeBaseStep, IdleCountStep, ControlStep, NoIdleStep DEF TypeInv, WakeInv
<1>3. QED
  BY <1>1, <1>2, PTL DEF Spec

(* Type correctness of the pool for every number of threads, submitters and  *)
(* tasks; in particular 0 <= nIdlThredNum <= number of threads, so idlCount  *)
(* never goes out of range.                                                  *)
THEOREM TypeCorrect == Spec => []TypeOK
<1>1. TypeInv => TypeOK
  <2>1. ASSUME TypeInv PROVE nIdlThredNum \in 0 .. NumThread
    BY <2>1, CountsAreNat, WorkersFinite DEF TypeInv, IdleCount
  <2>2. QED
    BY <2>1 DEF TypeInv, TypeBase, TypeOK
<1>2. QED
  BY <1>1, InvariantHolds, PTL

(* No wakeup of submit is ever lost on a running pool: with the push under   *)
(* mtxTask and one notify_one after every push, a worker never stays asleep  *)
(* beside a queued task that nobody is on the way to (lines 49-69, 85-91).   *)
THEOREM NoLostWakeup == Spec => []NoIdleWhileQueued
<1>1. WakeInv => NoIdleWhileQueued
  BY DEF WakeInv
<1>2. QED
  BY <1>1, InvariantHolds, PTL

(* Nothing is run twice and nothing is in two hands, for any number of       *)
(* workers, submitters and tasks: the front task is moved out and popped     *)
(* under mtxTask (lines 62-63), so submit, the queue, the workers and the    *)
(* finished tasks never share one.                                           *)
THEOREM NoTaskDuplicated == Spec => []TaskInOnePlace
<1>1. Init => TaskInOnePlace
  BY EmptySeq DEF Init, TaskInOnePlace, Queued, Held
<1>2. TypeInv /\ TaskInOnePlace /\ [Next]_vars => TaskInOnePlace'
  BY OnePlaceStep
<1>3. QED
  BY <1>1, <1>2, InvariantHolds, PTL DEF Spec
=============================================================================
