---------------------------- MODULE IpcCounters ----------------------------
(***************************************************************************)
(* A parent and a child process that count in shared memory: under a mutex  *)
(* in that memory or under a file lock (trivials/ipc_lock_trivial.cpp), or  *)
(* with no lock on a plain integer beside an atomic one                     *)
(* (trivials/ipc_atomic_trivial.cpp).  A process may be killed anywhere.    *)
(***************************************************************************)
EXTENDS Integers

CONSTANTS Turns   \* increments of each process, 10 or 20 in the code

ASSUME TurnsAssumption == Turns \in Nat /\ Turns >= 2

Pair == {"parent", "child"}
Other(p) == IF p = "parent" THEN "child" ELSE "parent"

VARIABLES
  kind,        \* mutex, file, none
  kpc, turns,  \* of each process: atomic, lock, load, store, unlock, end, done, dead;
               \* turns left
  atomics,     \* of each process: atomic increments left
  reg,         \* of each process: the value it has loaded
  num, a_int,  \* the plain integer and the atomic one
  holder,      \* who has the lock, or "free"
  destroyed    \* pthread_mutex_destroy has invalidated the mutex

counterVars == <<kind, kpc, turns, atomics, reg, num, a_int, holder, destroyed>>

Step(p) == IF p = "parent" /\ kind # "none" THEN 2 ELSE 1

CounterInit ==
  /\ kind \in {"mutex", "file", "none"}
  /\ kpc = [p \in Pair |-> IF kind = "none" THEN "atomic" ELSE "lock"]
  /\ turns = [p \in Pair |-> Turns] /\ atomics = turns
  /\ reg = [p \in Pair |-> 0] /\ num = 0 /\ a_int = 0
  /\ holder = "free" /\ destroyed = FALSE

\* The atomic increments of ipc_atomic_trivial.cpp come first.
atomic(p) ==
  /\ kpc[p] = "atomic" /\ a_int' = a_int + 1 /\ atomics' = [atomics EXCEPT ![p] = @ - 1]
  /\ kpc' = [kpc EXCEPT ![p] = IF atomics[p] = 1 THEN "lock" ELSE "atomic"]
  /\ UNCHANGED <<kind, turns, reg, num, holder, destroyed>>

\* pthread_mutex_lock or writeLock, whose results are not looked at: a mutex
\* that was destroyed is not locked.
lock(p) ==
  /\ kpc[p] = "lock" /\ kpc' = [kpc EXCEPT ![p] = "load"]
  /\ IF kind = "none" \/ destroyed THEN UNCHANGED holder
     ELSE holder = "free" /\ holder' = p
  /\ UNCHANGED <<kind, turns, atomics, reg, num, a_int, destroyed>>

load(p) ==
  /\ kpc[p] = "load" /\ reg' = [reg EXCEPT ![p] = num]
  /\ kpc' = [kpc EXCEPT ![p] = "store"]
  /\ UNCHANGED <<kind, turns, atomics, num, a_int, holder, destroyed>>

store(p) ==
  /\ kpc[p] = "store" /\ num' = reg[p] + Step(p) /\ reg' = [reg EXCEPT ![p] = 0]
  /\ kpc' = [kpc EXCEPT ![p] = "unlock"] /\ turns' = [turns EXCEPT ![p] = @ - 1]
  /\ UNCHANGED <<kind, atomics, a_int, holder, destroyed>>

unlock(p) ==
  /\ kpc[p] = "unlock"
  /\ kpc' = [kpc EXCEPT ![p] = IF turns[p] = 0 THEN "end" ELSE "lock"]
  /\ holder' = IF holder = p THEN "free" ELSE holder
  /\ UNCHANGED <<kind, turns, atomics, reg, num, a_int, destroyed>>

\* exit_label: the process that ends first destroys the mutex of both, which is
\* refused while the other one holds it.
end_process(p) ==
  /\ kpc[p] = "end" /\ kpc' = [kpc EXCEPT ![p] = "done"]
  /\ destroyed' = (destroyed \/ (kind = "mutex" /\ holder = "free"))
  /\ UNCHANGED <<kind, turns, atomics, reg, num, a_int, holder>>

\* A process is killed: the kernel gives a file lock back, not a mutex.
kill_counter(p) ==
  /\ kpc[p] \notin {"done", "dead"} /\ kpc' = [kpc EXCEPT ![p] = "dead"]
  /\ holder' = IF kind = "file" /\ holder = p THEN "free" ELSE holder
  /\ UNCHANGED <<kind, turns, atomics, reg, num, a_int, destroyed>>

counter(p) == atomic(p) \/ lock(p) \/ load(p) \/ store(p) \/ unlock(p) \/ end_process(p)

CounterNext == \E p \in Pair : counter(p) \/ kill_counter(p)

-----------------------------------------------------------------------------
Added(p) == Step(p) * (Turns - turns[p])

\* Under either lock no increment is lost, whoever is killed, and although the
\* first process to end destroys the mutex under the other.  Without a lock the
\* plain counter loses increments, but each finished pair counts two at least;
\* the atomic one loses none.  (ShareMutexFunc, FileLockFunc; ipc_atomic main)
NoLostIncrement ==
  /\ kind # "none" => num = Added("parent") + Added("child")
  /\ kind = "none" /\ (\A p \in Pair : kpc[p] = "done") =>
       /\ num \in 2 .. 2 * Turns /\ a_int = 2 * Turns

\* "exit without unlock, parent process can still lock success" for the file
\* lock, and "will never lock success" for the mutex (ipc_lock_trivial.cpp:83
\* and 129): the other process ends unless the one killed held the mutex.
SurvivorEnds(p) ==
  \/ kpc[p] \in {"done", "dead"}
  \/ kind = "mutex" /\ holder = Other(p) /\ kpc[Other(p)] = "dead"
=============================================================================
