---------------------------- MODULE ShmSemaphores ----------------------------
(***************************************************************************)
(* A writer and a reader process that hand records over in shared memory by *)
(* two semaphores: named ones (shm_named_sem_sync) or ones that lie in the  *)
(* memory itself and that both processes initialise (shm_anony_sem_sync).   *)
(* The reader removes what has a name when it ends.  A name that was        *)
(* removed is created anew by whoever opens it next, so each object has a   *)
(* generation.  Processes may be run in any order, and be killed.           *)
(***************************************************************************)
EXTENDS Integers, Sequences

CONSTANTS
  Rounds,   \* records per run, 10 in the code
  MaxRuns   \* bound on the runs of each process

ASSUME SemAssumption == Rounds \in Nat \ {0} /\ MaxRuns \in Nat

Procs == {"writer", "reader"}
Sems  == {"sem_r", "sem_w"}
Names == Sems \cup {"shm"}
Gens  == 0 .. 2 * MaxRuns
Peer(p) == IF p = "writer" THEN "reader" ELSE "writer"

VARIABLES
  named,       \* which of the two programs
  gen,         \* of each name: the generation created last
  linked,      \* the names that exist
  val,         \* the value of every semaphore of every generation
  record,      \* of every generation of the memory: the name and age written last
  spc, n,      \* of each process: where it is, rounds left
  has,         \* of each process: the generation of each object it has opened
  copy,        \* the name the reader has read
  written, received,   \* how many records were written; the last one received
  runs,
  mixed,       \* history: the reader received a record of two writes, or an old one
  disturbed,   \* history: semaphores initialised in use, or the removal of the
               \* names interrupted or overlapped by the other process
  killed       \* history: a process was killed

semVars == <<named, gen, linked, val, record, spc, n, has, copy, written, received, runs,
             mixed, disturbed, killed>>

Opening == IF named THEN <<"sem_r", "sem_w", "shm">> ELSE <<"shm", "init_r", "init_w">>
Closing(p) == IF p = "writer" THEN <<>>
              ELSE IF named THEN <<"rm_shm", "rm_sem_r", "rm_sem_w">> ELSE <<"rm_shm">>
Inside == {"first", "second", "post"}

\* What follows pc in a list of steps, and what follows the list.
After(list, pc, then) ==
  LET k == CHOOSE i \in 1 .. Len(list) : list[i] = pc IN
  IF k = Len(list) THEN then ELSE list[k + 1]

\* The semaphore s as process p knows it.
SemOf(p, s) == <<s, IF named THEN has[p][s] ELSE has[p]["shm"]>>
Waits(p) == IF p = "writer" THEN "sem_w" ELSE "sem_r"
Posts(p) == Waits(Peer(p))
Initial(s) == IF s = "sem_w" THEN 1 ELSE 0

SemTypeOK ==
  /\ named \in BOOLEAN /\ gen \in [Names -> Gens] /\ linked \subseteq Names
  /\ val \in [Sems \X Gens -> Nat]
  /\ \A p \in Procs : /\ n[p] \in 0 .. Rounds /\ has[p] \in [Names -> Gens]
                      /\ runs[p] \in 0 .. MaxRuns
  /\ \A g \in Gens : record[g].name \in 0 .. written + 1 /\ record[g].age \in 0 .. written
  /\ mixed \in BOOLEAN /\ disturbed \in BOOLEAN /\ killed \in BOOLEAN
  /\ ~(disturbed \/ killed) /\ named => \A x \in Sems \X Gens : val[x] <= 1

SemInit ==
  /\ named \in BOOLEAN /\ gen = [x \in Names |-> 0] /\ linked = {}
  /\ val = [x \in Sems \X Gens |-> 0]
  /\ record = [g \in Gens |-> [name |-> 0, age |-> 0]]
  /\ spc = [p \in Procs |-> "off"] /\ n = [p \in Procs |-> 0]
  /\ has = [p \in Procs |-> [x \in Names |-> 0]] /\ copy = 0
  /\ written = 0 /\ received = 0 /\ runs = [p \in Procs |-> 0]
  /\ mixed = FALSE /\ disturbed = FALSE /\ killed = FALSE

start(p) ==
  /\ spc[p] = "off" /\ runs[p] < MaxRuns
  /\ runs' = [runs EXCEPT ![p] = @ + 1] /\ n' = [n EXCEPT ![p] = Rounds]
  /\ spc' = [spc EXCEPT ![p] = Head(Opening)]
  /\ has' = [has EXCEPT ![p] = [x \in Names |-> 0]]
  /\ UNCHANGED <<named, gen, linked, val, record, copy, written, received, mixed,
                 disturbed, killed>>

\* sem_open with O_CREAT.  An existing semaphore keeps its value, also when the
\* reader of an earlier run has removed the memory and not yet this name.
sem_open(p, s) ==
  /\ spc[p] = s /\ s \in Sems
  /\ gen' = IF s \in linked THEN gen ELSE [gen EXCEPT ![s] = @ + 1]
  /\ linked' = linked \cup {s}
  /\ val' = IF s \in linked THEN val ELSE [val EXCEPT ![<<s, gen'[s]>>] = Initial(s)]
  /\ has' = [has EXCEPT ![p][s] = gen'[s]]
  /\ spc' = [spc EXCEPT ![p] = After(Opening, s, "wait")]
  /\ disturbed' = (disturbed \/ spc[Peer(p)] \in {"rm_sem_r", "rm_sem_w"})
  /\ UNCHANGED <<named, record, n, copy, written, received, runs, mixed, killed>>

\* shmget with IPC_CREAT, shmat: new memory is zero.
shmget(p) ==
  /\ spc[p] = "shm"
  /\ gen' = IF "shm" \in linked THEN gen ELSE [gen EXCEPT !["shm"] = @ + 1]
  /\ linked' = linked \cup {"shm"}
  /\ has' = [has EXCEPT ![p]["shm"] = gen'["shm"]]
  /\ spc' = [spc EXCEPT ![p] = After(Opening, "shm", "wait")]
  /\ UNCHANGED <<named, val, record, n, copy, written, received, runs, mixed, disturbed,
                 killed>>

\* sem_init sets the value again, whatever the other process has done with it.
sem_init(p, s) ==
  /\ spc[p] = (IF s = "sem_r" THEN "init_r" ELSE "init_w")
  /\ val' = [val EXCEPT ![SemOf(p, s)] = Initial(s)]
  /\ spc' = [spc EXCEPT ![p] = After(Opening, spc[p], "wait")]
  /\ disturbed' = (disturbed \/ (has[Peer(p)]["shm"] = has[p]["shm"]
                                 /\ (spc[Peer(p)] \in Inside \/ n[Peer(p)] < Rounds)))
  /\ UNCHANGED <<named, gen, linked, record, n, has, copy, written, received, runs, mixed,
                 killed>>

sem_wait(p) ==
  /\ spc[p] = "wait" /\ val[SemOf(p, Waits(p))] > 0
  /\ val' = [val EXCEPT ![SemOf(p, Waits(p))] = @ - 1]
  /\ spc' = [spc EXCEPT ![p] = "first"]
  /\ UNCHANGED <<named, gen, linked, record, n, has, copy, written, received, runs, mixed,
                 disturbed, killed>>

\* The writer stores the name and then the age.
write(field) ==
  /\ spc["writer"] = (IF field = "name" THEN "first" ELSE "second")
  /\ record' = [record EXCEPT ![has["writer"]["shm"]][field] = written + 1]
  /\ IF field = "name" THEN spc' = [spc EXCEPT !["writer"] = "second"] /\ UNCHANGED written
     ELSE spc' = [spc EXCEPT !["writer"] = "post"] /\ written' = written + 1
  /\ UNCHANGED <<named, gen, linked, val, n, has, copy, received, runs, mixed, disturbed,
                 killed>>

\* The reader prints the name and then the age.
read(field) ==
  LET got == record[has["reader"]["shm"]][field] IN
  /\ spc["reader"] = (IF field = "name" THEN "first" ELSE "second")
  /\ IF field = "name"
     THEN copy' = got /\ spc' = [spc EXCEPT !["reader"] = "second"] /\ UNCHANGED <<received, mixed>>
     ELSE /\ spc' = [spc EXCEPT !["reader"] = "post"] /\ received' = got /\ copy' = 0
          /\ mixed' = (mixed \/ copy # got \/ got <= received)
  /\ UNCHANGED <<named, gen, linked, val, record, n, has, written, runs, disturbed, killed>>

\* sem_post ends a round; after the last one the reader removes the names.  The
\* programs without names call sem_destroy for both semaphores there, while the
\* other process may wait on one: undefined by POSIX, without effect in glibc.
sem_post(p) ==
  /\ spc[p] = "post"
  /\ val' = [val EXCEPT ![SemOf(p, Posts(p))] = @ + 1]
  /\ n' = [n EXCEPT ![p] = @ - 1]
  /\ spc' = [spc EXCEPT ![p] = IF n[p] > 1 THEN "wait" ELSE Append(Closing(p), "off")[1]]
  /\ UNCHANGED <<named, gen, linked, record, has, copy, written, received, runs, mixed,
                 disturbed, killed>>

\* shmctl IPC_RMID and sem_unlink: processes that have the object keep it.
remove(x) ==
  LET pc == CASE x = "shm" -> "rm_shm" [] x = "sem_r" -> "rm_sem_r" [] x = "sem_w" -> "rm_sem_w" IN
  /\ spc["reader"] = pc /\ linked' = linked \ {x}
  /\ spc' = [spc EXCEPT !["reader"] = After(Closing("reader"), pc, "off")]
  /\ disturbed' = (disturbed \/ (spc["writer"] # "off" /\ named))
  /\ UNCHANGED <<named, gen, val, record, n, has, copy, written, received, runs, mixed, killed>>

\* A process is killed; names and values stay.
kill_process(p) ==
  /\ spc[p] # "off" /\ spc' = [spc EXCEPT ![p] = "off"] /\ killed' = TRUE
  /\ disturbed' = (disturbed \/ spc[p] \in {"rm_sem_r", "rm_sem_w"})
  /\ UNCHANGED <<named, gen, linked, val, record, n, has, copy, written, received, runs,
                 mixed>>

proc(p) ==
  \/ \E s \in Sems : sem_open(p, s) \/ sem_init(p, s)
  \/ shmget(p) \/ sem_wait(p) \/ sem_post(p)
  \/ p = "writer" /\ \E f \in {"name", "age"} : write(f)
  \/ p = "reader" /\ \E f \in {"name", "age"} : read(f)
  \/ p = "reader" /\ \E x \in Names : remove(x)

SemNext == \E p \in Procs : start(p) \/ proc(p) \/ kill_process(p)

-----------------------------------------------------------------------------
\* The processes are never both at work on one piece of shared memory, however
\* often they are killed and run again, unless semaphores were initialised in
\* use or the removal of the names was disturbed.  (shmWrite.cpp, shmRead.cpp)
SemExclusive ==
  (\A p \in Procs : spc[p] \in Inside) /\ has["writer"]["shm"] = has["reader"]["shm"] => disturbed

\* Every record received is one whole record, and newer than the one before,
\* under the same condition.
RecordsWhole == mixed => disturbed

\* Two processes that are each run once, not killed and not disturbed, hand over
\* all their records and end.  (shmWrite.cpp, shmRead.cpp)
BothRunOnce == \A p \in Procs : runs[p] = 1
HandOffEnds ==
  \/ \A p \in Procs : spc[p] = "off" /\ n[p] = 0 /\ received = Rounds
  \/ killed \/ disturbed \/ \E p \in Procs : runs[p] > 1
=============================================================================
