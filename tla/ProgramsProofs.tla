---------------------------- MODULE ProgramsProofs ----------------------------
(***************************************************************************)
(* Proofs about the sample programs: the shared memory, the split file, the *)
(* counters and the database, each on its own and for every value of its    *)
(* constants; then, with the results of NetSamplesProofs, what MCPrograms   *)
(* says of all the programs.                                                *)
(***************************************************************************)
EXTENDS MCPrograms, NetSamplesProofs, WellFoundedInduction, FunctionTheorems

-----------------------------------------------------------------------------
(* Two processes with shared memory and two semaphores (ShmSemaphores)       *)


SemSpec == SemInit /\ [][SemNext]_semVars

Ready == {"wait"} \cup Inside
SemPcs == {"off", "sem_r", "sem_w", "shm", "init_r", "init_w", "wait", "first", "second",
           "post", "rm_shm", "rm_sem_r", "rm_sem_w"}

SemTypes ==
  /\ named \in BOOLEAN /\ gen \in [Names -> Gens] /\ linked \subseteq Names
  /\ val \in [Sems \X Gens -> Nat]
  /\ record \in [Gens -> [name : Nat, age : Nat]]
  /\ spc \in [Procs -> SemPcs] /\ n \in [Procs -> 0 .. Rounds]
  /\ has \in [Procs -> [Names -> Gens]] /\ copy \in Nat
  /\ written \in Nat /\ received \in Nat /\ runs \in [Procs -> 0 .. MaxRuns]
  /\ mixed \in BOOLEAN /\ disturbed \in BOOLEAN /\ killed \in BOOLEAN

\* Only the reader removes names, and only one of the programs initialises.
SemPc ==
  /\ spc["writer"] \notin {"rm_shm", "rm_sem_r", "rm_sem_w"}
  /\ named => \A p \in Procs : spc[p] \notin {"init_r", "init_w"}
  /\ ~named => \A p \in Procs : spc[p] \notin {"sem_r", "sem_w", "rm_sem_r", "rm_sem_w"}

\* A process has all its rounds left until the first post, and one until the last.
RoundsLeft ==
  \A p \in Procs :
    /\ spc[p] \in {"sem_r", "sem_w", "shm", "init_r", "init_w"} => n[p] = Rounds
    /\ spc[p] \in Ready => n[p] >= 1

\* A run creates at most one generation of each object.
ToOpen(p, x) ==
  IF spc[p] \in (CASE x = "sem_r" -> {"sem_r"} [] x = "sem_w" -> {"sem_r", "sem_w"}
                   [] x = "shm" -> {"sem_r", "sem_w", "shm"})
  THEN 1 ELSE 0
GensLeft ==
  \A x \in Names :
    /\ gen[x] + ToOpen("writer", x) + ToOpen("reader", x) <= runs["writer"] + runs["reader"]
    /\ \A p \in Procs : has[p][x] <= gen[x]

RecordsKnown ==
  \A g \in Gens : record[g].name <= written + 1 /\ record[g].age <= written

\* The semaphores that the next process to open them gets.
Cur(sm) == <<sm, IF named THEN gen[sm] ELSE gen["shm"]>>
In(p) == IF spc[p] \in Inside THEN 1 ELSE 0
OnCurrent == spc["writer"] \in Ready /\ has["writer"]["shm"] = gen["shm"]
SemOpened(x) ==
  CASE x = "sem_r" -> {"sem_w", "shm"} \cup Ready
    [] x = "sem_w" -> {"shm"} \cup Ready
    [] x = "shm" -> {"init_r", "init_w"} \cup Ready

\* What a process has opened is what exists now, except that the reader may have
\* removed the memory the writer of the second program works on.
Present ==
  /\ \A p \in Procs, x \in Names :
       (named \/ (p = "reader" /\ x = "shm")) /\ spc[p] \in SemOpened(x)
         => x \in linked /\ has[p][x] = gen[x]
  /\ spc["reader"] \in {"rm_sem_r", "rm_sem_w"} => spc["writer"] \in {"off", "sem_r"}
  /\ spc["reader"] = "rm_sem_w" => "sem_r" \notin linked

\* One turn at most is available or taken; in the second program, while a writer
\* works on the current memory.
OneTurn ==
  named \/ OnCurrent =>
    val[Cur("sem_r")] + val[Cur("sem_w")] + In("writer") + In("reader") <= 1
ReaderTurn == val[Cur("sem_r")] + In("reader") <= 1
SmallValues == named => \A x \in Sems \X Gens : val[x] <= 1

\* Nothing was posted to a semaphore whose companions are yet to be made, nor by
\* a writer in its first round, nor to what is not there.
NothingYet ==
  named /\ "sem_r" \in linked /\ ~({"sem_w", "shm"} \subseteq linked)
    /\ spc["reader"] # "rm_sem_r" => val[Cur("sem_r")] = 0
FirstRound ==
  ~named /\ spc["writer"] \in {"init_w"} \cup Ready /\ n["writer"] = Rounds
    /\ has["writer"]["shm"] = gen["shm"] => val[Cur("sem_r")] = 0
Unborn == ~named => \A sm \in Sems, g \in Gens : g > gen["shm"] => val[<<sm, g>>] = 0

Tokens == OneTurn /\ ReaderTurn /\ SmallValues /\ NothingYet /\ FirstRound /\ Unborn

\* The reader's turn: the record is whole and newer than the last.
Whole ==
  /\ record[gen["shm"]].name = record[gen["shm"]].age
  /\ record[gen["shm"]].age > received
Handed ==
  /\ received <= written /\ ~mixed
  /\ val[Cur("sem_r")] >= 1 => Whole
  /\ spc["reader"] \in {"first", "second"} => Whole
  /\ spc["reader"] = "second" => copy = record[gen["shm"]].name
  /\ has["writer"]["shm"] = gen["shm"] =>
       /\ spc["writer"] = "post" => Whole
       /\ spc["writer"] = "second" => record[gen["shm"]].name = written + 1

SemInv ==
  /\ SemTypes /\ SemPc /\ RoundsLeft /\ GensLeft /\ RecordsKnown
  /\ ~disturbed => Present /\ Tokens /\ Handed

-----------------------------------------------------------------------------
\* Where a process goes next.
LEMMA NextOf ==
  ASSUME NEW l, NEW d, Len(l) = 3, l[1] # l[2], l[1] # l[3], l[2] # l[3]
  PROVE  After(l, l[1], d) = l[2] /\ After(l, l[2], d) = l[3] /\ After(l, l[3], d) = d
<1>1. \A i \in 1 .. 3 : i = 1 \/ i = 2 \/ i = 3 OBVIOUS
<1>2. (CHOOSE i \in 1 .. 3 : l[i] = l[1]) = 1 BY <1>1
<1>3. (CHOOSE i \in 1 .. 3 : l[i] = l[2]) = 2 BY <1>1
<1>4. (CHOOSE i \in 1 .. 3 : l[i] = l[3]) = 3 BY <1>1
<1> QED BY <1>2, <1>3, <1>4 DEF After

LEMMA Steps ==
  /\ named => /\ After(Opening, "sem_r", "wait") = "sem_w"
              /\ After(Opening, "sem_w", "wait") = "shm"
              /\ After(Opening, "shm", "wait") = "wait"
              /\ After(Closing("reader"), "rm_shm", "off") = "rm_sem_r"
              /\ After(Closing("reader"), "rm_sem_r", "off") = "rm_sem_w"
              /\ After(Closing("reader"), "rm_sem_w", "off") = "off"
  /\ ~named => /\ After(Opening, "shm", "wait") = "init_r"
               /\ After(Opening, "init_r", "wait") = "init_w"
               /\ After(Opening, "init_w", "wait") = "wait"
               /\ After(Closing("reader"), "rm_shm", "off") = "off"
  /\ Head(Opening) = IF named THEN "sem_r" ELSE "shm"
  /\ \A p \in Procs : Append(Closing(p), "off")[1] = IF p = "writer" THEN "off" ELSE "rm_shm"
<1>1. CASE named
  <2>1. Opening = <<"sem_r", "sem_w", "shm">> BY <1>1 DEF Opening
  <2>2. Closing("reader") = <<"rm_shm", "rm_sem_r", "rm_sem_w">> /\ Closing("writer") = <<>>
    BY <1>1 DEF Closing
  <2>3. \A p \in Procs : Append(Closing(p), "off")[1] = IF p = "writer" THEN "off" ELSE "rm_shm"
    BY <2>2 DEF Procs
  <2>4. /\ Len(Opening) = 3 /\ Opening[1] = "sem_r" /\ Opening[2] = "sem_w"
        /\ Opening[3] = "shm" /\ Head(Opening) = "sem_r"
    BY <2>1
  <2>5. /\ Len(Closing("reader")) = 3 /\ Closing("reader")[1] = "rm_shm"
        /\ Closing("reader")[2] = "rm_sem_r" /\ Closing("reader")[3] = "rm_sem_w"
    BY <2>2
  <2>6. /\ After(Opening, Opening[1], "wait") = Opening[2]
        /\ After(Opening, Opening[2], "wait") = Opening[3]
        /\ After(Opening, Opening[3], "wait") = "wait"
    BY <2>4, NextOf
  <2>7. PICK l : l = Closing("reader") OBVIOUS
  <2>8. After(l, l[1], "off") = l[2] /\ After(l, l[2], "off") = l[3] /\ After(l, l[3], "off") = "off"
    BY <2>5, <2>7, NextOf
  <2> QED BY <1>1, <2>3, <2>4, <2>5, <2>6, <2>7, <2>8
<1>2. CASE ~named
  <2>1. Opening = <<"shm", "init_r", "init_w">> BY <1>2 DEF Opening
  <2>2. Closing("reader") = <<"rm_shm">> /\ Closing("writer") = <<>> BY <1>2 DEF Closing
  <2>3. \A p \in Procs : Append(Closing(p), "off")[1] = IF p = "writer" THEN "off" ELSE "rm_shm"
    BY <2>2 DEF Procs
  <2>4. /\ Len(Opening) = 3 /\ Opening[1] = "shm" /\ Opening[2] = "init_r"
        /\ Opening[3] = "init_w" /\ Head(Opening) = "shm"
    BY <2>1
  <2>5. /\ After(Opening, Opening[1], "wait") = Opening[2]
        /\ After(Opening, Opening[2], "wait") = Opening[3]
        /\ After(Opening, Opening[3], "wait") = "wait"
    BY <2>4, NextOf
  <2>6. After(Closing("reader"), "rm_shm", "off") = "off"
    <3>1. PICK l : l = Closing("reader") OBVIOUS
    <3>2. Len(l) = 1 /\ l[1] = "rm_shm" BY <2>2, <3>1
    <3>3. (CHOOSE i \in 1 .. 1 : l[i] = "rm_shm") = 1 BY <3>2
    <3> QED BY <3>1, <3>2, <3>3 DEF After
  <2> QED BY <1>2, <2>3, <2>4, <2>5, <2>6
<1> QED BY <1>1, <1>2

\* A process that moves.
LEMMA Moved ==
  ASSUME SemTypes, NEW p \in Procs, NEW v \in SemPcs, spc' = [spc EXCEPT ![p] = v]
  PROVE  /\ spc' \in [Procs -> SemPcs] /\ spc'[p] = v
         /\ \A q \in Procs : q # p => spc'[q] = spc[q]
BY DEF SemTypes

LEMMA Two ==
  /\ Procs = {"writer", "reader"} /\ "writer" # "reader"
  /\ \A p \in Procs : Peer(p) \in Procs /\ Peer(p) # p
  /\ \A p, q \in Procs : q # p <=> q = Peer(p)
BY DEF Procs, Peer

\* The current semaphores are two of those that exist.
LEMMA Currents ==
  SemTypes => /\ Cur("sem_r") \in Sems \X Gens /\ Cur("sem_w") \in Sems \X Gens
              /\ Cur("sem_r") # Cur("sem_w")
              /\ val[Cur("sem_r")] \in Nat /\ val[Cur("sem_w")] \in Nat
              /\ gen["shm"] \in Gens /\ gen["sem_r"] \in Gens /\ gen["sem_w"] \in Gens
BY DEF SemTypes, Cur, Sems, Names

LEMMA SemInitInv == SemInit => SemInv
<1> SUFFICES ASSUME SemInit PROVE SemInv OBVIOUS
<1>0. MaxRuns \in Nat /\ Rounds \in Nat /\ 0 \in Gens BY SemAssumption DEF Gens
<1>1. SemTypes
  <2>1. record \in [Gens -> [name : Nat, age : Nat]] BY DEF SemInit
  <2>2. has \in [Procs -> [Names -> Gens]] /\ gen \in [Names -> Gens] BY <1>0 DEF SemInit
  <2>3. val \in [Sems \X Gens -> Nat] /\ spc \in [Procs -> SemPcs] BY DEF SemInit, SemPcs
  <2>4. n \in [Procs -> 0 .. Rounds] /\ runs \in [Procs -> 0 .. MaxRuns] BY <1>0 DEF SemInit
  <2> QED BY Zenon, <2>1, <2>2, <2>3, <2>4 DEF SemInit, SemTypes
<1>2. SemPc BY DEF SemInit, SemPc, Procs
<1>3. RoundsLeft BY DEF SemInit, RoundsLeft, Ready, Inside
<1>4. GensLeft
  <2>1. \A x \in Names : ToOpen("writer", x) = 0 /\ ToOpen("reader", x) = 0
    BY DEF SemInit, ToOpen, Procs, Names, Sems
  <2> QED BY <2>1 DEF SemInit, GensLeft, Procs
<1>5. RecordsKnown BY DEF SemInit, RecordsKnown
<1>6. Present BY Two DEF SemInit, Present, SemOpened, Ready, Inside, Names, Sems
<1>7. val[Cur("sem_r")] = 0 /\ val[Cur("sem_w")] = 0 /\ In("writer") = 0 /\ In("reader") = 0
  <2>1. Cur("sem_r") \in Sems \X Gens /\ Cur("sem_w") \in Sems \X Gens BY <1>1, Currents
  <2> QED BY <2>1 DEF SemInit, In, Inside, Procs
<1>8. Tokens
  BY <1>7 DEF SemInit, Tokens, Ready, Inside, Procs, OneTurn, ReaderTurn, SmallValues,
              NothingYet, FirstRound, Unborn
<1>9. Handed BY <1>7 DEF SemInit, Handed, Procs, Names
<1> QED BY <1>1, <1>2, <1>3, <1>4, <1>5, <1>6, <1>8, <1>9 DEF SemInv

\* What the invariant says besides the types, in a behaviour nothing disturbed.
Calm == ~disturbed => Present /\ Tokens /\ Handed

LEMMA StartInv == ASSUME SemInv, NEW p \in Procs, start(p) PROVE SemInv'
<1>0. /\ spc[p] = "off" /\ runs[p] < MaxRuns
      /\ runs' = [runs EXCEPT ![p] = runs[p] + 1] /\ n' = [n EXCEPT ![p] = Rounds]
      /\ spc' = [spc EXCEPT ![p] = Head(Opening)]
      /\ has' = [has EXCEPT ![p] = [x \in Names |-> 0]]
      /\ UNCHANGED <<named, gen, linked, val, record, copy, written, received, mixed,
                     disturbed, killed>>
  BY DEF start
<1>t. SemTypes /\ Rounds \in Nat \ {0} /\ MaxRuns \in Nat BY SemAssumption DEF SemInv
<1>1. PICK v \in SemPcs : v = (IF named THEN "sem_r" ELSE "shm") /\ v = Head(Opening)
  BY Steps DEF SemPcs
<1>2. /\ spc' \in [Procs -> SemPcs] /\ spc'[p] = v /\ \A q \in Procs : q # p => spc'[q] = spc[q]
  BY Zenon, <1>0, <1>1, <1>t, Moved
<1>3. has'[p] = [x \in Names |-> 0] /\ \A q \in Procs : q # p => has'[q] = has[q]
  BY <1>0, <1>t DEF SemTypes
<1>4. n'[p] = Rounds /\ runs'[p] = runs[p] + 1
      /\ \A q \in Procs : q # p => n'[q] = n[q] /\ runs'[q] = runs[q]
  BY <1>0, <1>t DEF SemTypes
<1>5. SemTypes'
  <2>1. n' \in [Procs -> 0 .. Rounds] /\ runs' \in [Procs -> 0 .. MaxRuns]
    BY <1>0, <1>t DEF SemTypes
  <2>2. has' \in [Procs -> [Names -> Gens]]
    <3>1. 0 \in Gens BY <1>t DEF Gens
    <3> QED BY <1>0, <1>t, <3>1 DEF SemTypes
  <2> QED BY <1>0, <1>t, <1>2, <2>1, <2>2 DEF SemTypes
<1>6. SemPc' BY <1>0, <1>1, <1>2, Two DEF SemInv, SemPc
<1>7. RoundsLeft' BY <1>0, <1>1, <1>2, <1>4 DEF SemInv, RoundsLeft, Ready, Inside
<1>8. GensLeft'
  <2> SUFFICES ASSUME NEW x \in Names
               PROVE  /\ gen[x] + ToOpen("writer", x)' + ToOpen("reader", x)'
                           <= runs'["writer"] + runs'["reader"]
                      /\ \A q \in Procs : has'[q][x] <= gen[x]
    BY <1>0 DEF GensLeft
  <2>1. gen[x] \in Nat /\ runs["writer"] \in Nat /\ runs["reader"] \in Nat
    BY <1>t, Two DEF SemTypes, Gens
  <2>2. gen[x] + ToOpen("writer", x) + ToOpen("reader", x) <= runs["writer"] + runs["reader"]
    BY DEF SemInv, GensLeft
  <2>3. ToOpen(p, x) = 0 /\ ToOpen(p, x)' \in 0 .. 1
    BY <1>0, <1>1, <1>2 DEF ToOpen, Names, Sems
  <2>4. \A q \in Procs : q # p => ToOpen(q, x)' = ToOpen(q, x) BY Zenon, <1>2 DEF ToOpen
  <2>5. \A q \in Procs : ToOpen(q, x) \in 0 .. 1 BY DEF ToOpen
  <2>6. \A q \in Procs : has'[q][x] <= gen[x] BY <1>3, <2>1 DEF SemInv, GensLeft
  <2>7. CASE p = "writer" BY <1>4, <2>1, <2>2, <2>3, <2>4, <2>5, <2>6, <2>7, Two
  <2>8. CASE p = "reader" BY <1>4, <2>1, <2>2, <2>3, <2>4, <2>5, <2>6, <2>8, Two
  <2> QED BY <2>7, <2>8, Two
<1>9. RecordsKnown' BY <1>0 DEF SemInv, RecordsKnown
<1>10. Calm'
  <2> SUFFICES ASSUME ~disturbed PROVE (Present /\ Tokens /\ Handed)' BY <1>0 DEF Calm
  <2>0. Present /\ Tokens /\ Handed BY DEF SemInv
  <2>1. Present'
    <3>1. \A x \in Names : named \/ x = "shm" => spc'[p] \notin SemOpened(x)
      BY <1>1, <1>2 DEF SemOpened, Ready, Inside, Names, Sems
    <3>2. ~named => spc["reader"] \notin {"rm_sem_r", "rm_sem_w"} BY Two DEF SemInv, SemPc
    <3> QED BY <1>0, <1>1, <1>2, <1>3, <2>0, <3>1, <3>2, Two DEF Present
  <2>2. In(p)' = 0 /\ In(p) = 0 /\ \A q \in Procs : In(q)' = In(q)
    BY <1>0, <1>1, <1>2 DEF In, Inside
  <2>3. Cur("sem_r")' = Cur("sem_r") /\ Cur("sem_w")' = Cur("sem_w") BY <1>0 DEF Cur
  <2>4. OnCurrent' => OnCurrent BY <1>1, <1>2, <1>3, <1>0, Two DEF OnCurrent, Ready, Inside
  <2>5. Tokens'
    BY <1>0, <1>1, <1>2, <1>3, <1>4, <2>0, <2>2, <2>3, <2>4, Two
    DEF Tokens, Ready, Inside, OneTurn, ReaderTurn, SmallValues, NothingYet, FirstRound, Unborn
  <2>6. Handed'
    BY <1>0, <1>1, <1>2, <1>3, <2>0, <2>3, Two DEF Handed, Whole
  <2> QED BY <2>1, <2>5, <2>6
<1> QED BY <1>5, <1>6, <1>7, <1>8, <1>9, <1>10 DEF SemInv, Calm

LEMMA KillProcessInv == ASSUME SemInv, NEW p \in Procs, kill_process(p) PROVE SemInv'
<1>0. /\ spc[p] # "off" /\ spc' = [spc EXCEPT ![p] = "off"] /\ killed' = TRUE
      /\ disturbed' = (disturbed \/ spc[p] \in {"rm_sem_r", "rm_sem_w"})
      /\ UNCHANGED <<named, gen, linked, val, record, n, has, copy, written, received, runs,
                     mixed>>
  BY DEF kill_process
<1>t. SemTypes BY DEF SemInv
<1>1. "off" \in SemPcs BY DEF SemPcs
<1>2. /\ spc' \in [Procs -> SemPcs] /\ spc'[p] = "off"
      /\ \A q \in Procs : q # p => spc'[q] = spc[q]
  BY Zenon, <1>0, <1>1, <1>t, Moved
<1>5. SemTypes' BY <1>0, <1>t, <1>2 DEF SemTypes
<1>6. SemPc' BY <1>0, <1>2, Two DEF SemInv, SemPc
<1>7. RoundsLeft' BY <1>0, <1>2 DEF SemInv, RoundsLeft, Ready, Inside
<1>8. GensLeft'
  <2> SUFFICES ASSUME NEW x \in Names
               PROVE  gen[x] + ToOpen("writer", x)' + ToOpen("reader", x)'
                           <= runs["writer"] + runs["reader"]
    BY <1>0 DEF SemInv, GensLeft
  <2>1. gen[x] \in Nat /\ runs["writer"] \in Nat /\ runs["reader"] \in Nat
    BY <1>t, Two DEF SemTypes, Gens
  <2>2. gen[x] + ToOpen("writer", x) + ToOpen("reader", x) <= runs["writer"] + runs["reader"]
    BY DEF SemInv, GensLeft
  <2>3. ToOpen(p, x)' = 0 BY <1>2 DEF ToOpen, Names, Sems
  <2>4. \A q \in Procs : q # p => ToOpen(q, x)' = ToOpen(q, x) BY Zenon, <1>2 DEF ToOpen
  <2>5. \A q \in Procs : ToOpen(q, x) \in 0 .. 1 BY DEF ToOpen
  <2> QED BY <2>1, <2>2, <2>3, <2>4, <2>5, Two
<1>9. RecordsKnown' BY <1>0 DEF SemInv, RecordsKnown
<1>10. Calm'
  <2> SUFFICES ASSUME ~disturbed, spc[p] \notin {"rm_sem_r", "rm_sem_w"}
               PROVE  (Present /\ Tokens /\ Handed)'
    BY Zenon, <1>0 DEF Calm
  <2>0. Present /\ Tokens /\ Handed BY DEF SemInv
  <2>1. Present'
    <3>1. \A x \in Names : spc'[p] \notin SemOpened(x)
      BY <1>2 DEF SemOpened, Ready, Inside, Names, Sems
    <3> QED BY <1>0, <1>2, <2>0, <3>1, Two DEF Present
  <2>2. In("writer")' <= In("writer") /\ In("reader")' <= In("reader")
        /\ In("writer") \in 0 .. 1 /\ In("writer")' \in 0 .. 1
        /\ In("reader") \in 0 .. 1 /\ In("reader")' \in 0 .. 1
    BY <1>2, Two DEF In, Inside
  <2>3. Cur("sem_r")' = Cur("sem_r") /\ Cur("sem_w")' = Cur("sem_w") BY <1>0 DEF Cur
  <2>4. OnCurrent' => OnCurrent BY <1>2, <1>0, Two DEF OnCurrent, Ready, Inside
  <2>5. val[Cur("sem_r")] \in Nat /\ val[Cur("sem_w")] \in Nat BY <1>t, Currents
  <2>6. Tokens'
    BY <1>0, <1>2, <2>0, <2>2, <2>3, <2>4, <2>5, Two
    DEF Tokens, Ready, Inside, OneTurn, ReaderTurn, SmallValues, NothingYet, FirstRound, Unborn
  <2>7. Handed'
    BY <1>0, <1>2, <2>0, <2>3, Two DEF Handed, Whole
  <2> QED BY <2>1, <2>6, <2>7
<1> QED BY <1>5, <1>6, <1>7, <1>8, <1>9, <1>10 DEF SemInv, Calm

\* No step without a start or an opening needs another generation.
LEMMA GensKept ==
  ASSUME SemInv, NEW p \in Procs, UNCHANGED <<gen, runs, has>>,
         \A q \in Procs : q # p => spc'[q] = spc[q],
         spc'[p] \notin {"sem_r", "sem_w", "shm"}
  PROVE  GensLeft'
<1> SUFFICES ASSUME NEW x \in Names
             PROVE  gen[x] + ToOpen("writer", x)' + ToOpen("reader", x)'
                         <= runs["writer"] + runs["reader"]
  BY DEF SemInv, GensLeft
<1>1. gen[x] \in Nat /\ runs["writer"] \in Nat /\ runs["reader"] \in Nat
  BY Two DEF SemInv, SemTypes, Gens
<1>2. gen[x] + ToOpen("writer", x) + ToOpen("reader", x) <= runs["writer"] + runs["reader"]
  BY DEF SemInv, GensLeft
<1>3. ToOpen(p, x)' = 0 BY DEF ToOpen, Names, Sems
<1>4. \A q \in Procs : q # p => ToOpen(q, x)' = ToOpen(q, x) BY Zenon DEF ToOpen
<1>5. \A q \in Procs : ToOpen(q, x) \in 0 .. 1 BY DEF ToOpen
<1> QED BY <1>1, <1>2, <1>3, <1>4, <1>5, Two

\* A semaphore that is set.
LEMMA Set ==
  ASSUME SemTypes, NEW y \in Sems \X Gens, NEW v \in Nat, val' = [val EXCEPT ![y] = v]
  PROVE  /\ val' \in [Sems \X Gens -> Nat] /\ val'[y] = v
         /\ \A x \in Sems \X Gens : x # y => val'[x] = val[x]
BY DEF SemTypes

\* The semaphores a process uses are the current ones, unless it is the writer of
\* the second program on memory that the reader has removed.
LEMMA UsedSem ==
  ASSUME SemInv, NEW p \in Procs, spc[p] \in Ready, NEW sm \in Sems
  PROVE  /\ SemOf(p, sm) \in Sems \X Gens /\ val[SemOf(p, sm)] \in Nat
         /\ ~named => SemOf(p, sm) = <<sm, has[p]["shm"]>> /\ has[p]["shm"] \in Gens
         /\ ~disturbed /\ (named \/ has[p]["shm"] = gen["shm"]) => SemOf(p, sm) = Cur(sm)
         /\ ~disturbed /\ ~(named \/ has[p]["shm"] = gen["shm"])
              => p = "writer" /\ SemOf(p, sm) \notin {Cur("sem_r"), Cur("sem_w")}
<1>t. SemTypes BY DEF SemInv
<1>1. /\ has[p][sm] \in Gens /\ has[p]["shm"] \in Gens /\ sm \in Names /\ "shm" \in Names
  BY <1>t DEF SemTypes, Names
<1>2. SemOf(p, sm) \in Sems \X Gens BY <1>1 DEF SemOf
<1>3. val[SemOf(p, sm)] \in Nat BY <1>t, <1>2 DEF SemTypes
<1>4. ~named => SemOf(p, sm) = <<sm, has[p]["shm"]>> BY DEF SemOf
<1>5. \A x \in Names : spc[p] \in SemOpened(x) BY DEF SemOpened, Ready, Names, Sems
<1>6. ASSUME ~disturbed, named \/ has[p]["shm"] = gen["shm"] PROVE SemOf(p, sm) = Cur(sm)
  BY <1>1, <1>5, <1>6 DEF SemInv, Present, SemOf, Cur
<1>7. ASSUME ~disturbed, ~(named \/ has[p]["shm"] = gen["shm"])
      PROVE  p = "writer" /\ SemOf(p, sm) \notin {Cur("sem_r"), Cur("sem_w")}
  <2>1. p = "writer" BY <1>1, <1>5, <1>7, Two DEF SemInv, Present
  <2>2. SemOf(p, sm) # Cur("sem_r") /\ SemOf(p, sm) # Cur("sem_w") BY <1>4, <1>7 DEF Cur
  <2> QED BY <2>1, <2>2
<1> QED BY <1>1, <1>2, <1>3, <1>4, <1>6, <1>7

\* A turn is taken.
LEMMA WaitInv == ASSUME SemInv, NEW p \in Procs, sem_wait(p) PROVE SemInv'
<1> DEFINE y == SemOf(p, Waits(p))
<1>0. /\ spc[p] = "wait" /\ val[y] > 0 /\ val' = [val EXCEPT ![y] = val[y] - 1]
      /\ spc' = [spc EXCEPT ![p] = "first"]
      /\ UNCHANGED <<named, gen, linked, record, n, has, copy, written, received, runs, mixed,
                     disturbed, killed>>
  BY DEF sem_wait
<1>t. SemTypes BY DEF SemInv
<1>1. spc[p] \in Ready /\ "first" \in SemPcs /\ Waits(p) \in Sems
  BY <1>0 DEF Ready, SemPcs, Waits, Sems
<1>2. /\ spc' \in [Procs -> SemPcs] /\ spc'[p] = "first"
      /\ \A q \in Procs : q # p => spc'[q] = spc[q]
  BY Zenon, <1>0, <1>1, <1>t, Moved
<1>3. y \in Sems \X Gens /\ val[y] \in Nat BY <1>1, UsedSem
<1>u. /\ ~named => y = <<Waits(p), has[p]["shm"]>> /\ has[p]["shm"] \in Gens
      /\ ~disturbed /\ (named \/ has[p]["shm"] = gen["shm"]) => y = Cur(Waits(p))
      /\ ~disturbed /\ ~(named \/ has[p]["shm"] = gen["shm"])
           => p = "writer" /\ y \notin {Cur("sem_r"), Cur("sem_w")}
  BY <1>1, UsedSem
<1> HIDE DEF y
<1>4. /\ val' \in [Sems \X Gens -> Nat] /\ val'[y] = val[y] - 1
      /\ \A x \in Sems \X Gens : x # y => val'[x] = val[x]
  <2>1. val[y] - 1 \in Nat BY <1>0, <1>3
  <2> QED BY Zenon, <1>0, <1>3, <1>t, <2>1, Set
<1>5. SemTypes' BY <1>0, <1>t, <1>2, <1>4 DEF SemTypes
<1>6. SemPc' BY <1>0, <1>2, Two DEF SemInv, SemPc
<1>7. RoundsLeft' BY <1>0, <1>1, <1>2 DEF SemInv, RoundsLeft, Ready, Inside
<1>8. GensLeft' BY <1>0, <1>2, GensKept
<1>9. RecordsKnown' BY <1>0 DEF SemInv, RecordsKnown
<1>10. Calm'
  <2> SUFFICES ASSUME ~disturbed PROVE (Present /\ Tokens /\ Handed)' BY <1>0 DEF Calm
  <2>0. Present /\ Tokens /\ Handed BY DEF SemInv
  <2>1. Present'
    <3>1. \A x \in Names : spc[p] \in SemOpened(x) BY <1>1 DEF SemOpened, Ready, Names, Sems
    <3>2. spc["reader"] \in {"rm_sem_r", "rm_sem_w"} => p # "writer" BY <1>0, <2>0 DEF Present
    <3> QED BY <1>0, <1>2, <2>0, <3>1, <3>2, Two DEF Present
  <2>2. Cur("sem_r")' = Cur("sem_r") /\ Cur("sem_w")' = Cur("sem_w") BY <1>0 DEF Cur
  <2>3. /\ Cur("sem_r") \in Sems \X Gens /\ Cur("sem_w") \in Sems \X Gens
        /\ Cur("sem_r") # Cur("sem_w")
        /\ val[Cur("sem_r")] \in Nat /\ val[Cur("sem_w")] \in Nat
    BY <1>t, Currents
  <2>4. In(p)' = 1 /\ In(p) = 0 /\ \A q \in Procs : q # p => In(q)' = In(q)
    BY <1>0, <1>2 DEF In, Inside
  <2>5. In("writer") \in 0 .. 1 /\ In("reader") \in 0 .. 1 BY DEF In
  <2>6. OnCurrent' <=> OnCurrent BY <1>0, <1>1, <1>2, Two DEF OnCurrent, Ready, Inside
  <2>7. \A x \in Sems \X Gens : val'[x] <= val[x] /\ val'[x] \in Nat /\ val[x] \in Nat
    <3> SUFFICES ASSUME NEW x \in Sems \X Gens
                 PROVE  val'[x] <= val[x] /\ val'[x] \in Nat /\ val[x] \in Nat
      OBVIOUS
    <3>1. val[x] \in Nat /\ val'[x] \in Nat BY <1>t, <1>4 DEF SemTypes
    <3>2. CASE x = y BY <1>3, <1>4, <3>1, <3>2
    <3>3. CASE x # y BY <1>4, <3>1, <3>3
    <3> QED BY <3>2, <3>3
  <2>8. SmallValues' /\ NothingYet' /\ Unborn'
    <3>1. SmallValues'
      <4> SUFFICES ASSUME named, NEW x \in Sems \X Gens PROVE val'[x] <= 1
        BY <1>0 DEF SmallValues
      <4>1. val[x] <= 1 BY <2>0 DEF Tokens, SmallValues
      <4> QED BY <2>7, <4>1
    <3>2. Unborn'
      <4> SUFFICES ASSUME ~named, NEW sm \in Sems, NEW g \in Gens, g > gen["shm"]
                   PROVE  val'[<<sm, g>>] = 0
        BY <1>0 DEF Unborn
      <4>1. val[<<sm, g>>] = 0 /\ <<sm, g>> \in Sems \X Gens BY <2>0 DEF Tokens, Unborn
      <4>2. PICK x \in Sems \X Gens : x = <<sm, g>> BY <4>1
      <4>3. val[x] = 0 BY <4>1, <4>2
      <4>4. val'[x] = 0 BY <2>7, <4>3
      <4> QED BY <4>2, <4>4
    <3>3. NothingYet'
      <4>1. val[Cur("sem_r")] = 0 => val'[Cur("sem_r")] = 0 BY <2>3, <2>7
      <4>2. spc'["reader"] # "rm_sem_r" => spc["reader"] # "rm_sem_r" BY <1>0, <1>2, Two
      <4> QED BY <1>0, <2>0, <2>2, <4>1, <4>2 DEF Tokens, NothingYet
    <3> QED BY <3>1, <3>2, <3>3
  <2>9. FirstRound'
    <3>1. val[Cur("sem_r")] = 0 => val'[Cur("sem_r")] = 0 BY <2>3, <2>7
    <3>2. spc'["writer"] \in {"init_w"} \cup Ready => spc["writer"] \in {"init_w"} \cup Ready
      BY <1>1, <1>2, Two
    <3> QED BY <1>0, <2>0, <2>2, <3>1, <3>2 DEF Tokens, FirstRound
  <2>10. /\ p = "writer" /\ (named \/ has[p]["shm"] = gen["shm"])
              => /\ val'[Cur("sem_w")] = val[Cur("sem_w")] - 1
                 /\ val'[Cur("sem_r")] = val[Cur("sem_r")]
         /\ p = "writer" /\ ~(named \/ has[p]["shm"] = gen["shm"])
              => /\ val'[Cur("sem_w")] = val[Cur("sem_w")]
                 /\ val'[Cur("sem_r")] = val[Cur("sem_r")]
         /\ p = "reader" => /\ val'[Cur("sem_r")] = val[Cur("sem_r")] - 1
                            /\ val[Cur("sem_r")] > 0
                            /\ val'[Cur("sem_w")] = val[Cur("sem_w")]
    <3>1. CASE ~(named \/ has[p]["shm"] = gen["shm"]) BY <1>4, <1>u, <2>3, <3>1, Two
    <3>2. CASE named \/ has[p]["shm"] = gen["shm"]
      <4>1. CASE p = "writer" BY <1>4, <1>u, <2>3, <3>2, <4>1, Two DEF Waits
      <4>2. CASE p = "reader" BY <1>0, <1>4, <1>u, <2>3, <3>2, <4>2, Two DEF Waits
      <4> QED BY <3>2, <4>1, <4>2, Two
    <3> QED BY <3>1, <3>2
  <2>11. OneTurn' /\ ReaderTurn'
    <3>1. CASE p = "writer"
      <4>1. In("writer")' = 1 /\ In("writer") = 0 /\ In("reader")' = In("reader")
        BY <2>4, <3>1, Two
      <4>2. named \/ OnCurrent => named \/ has[p]["shm"] = gen["shm"]
        BY <3>1 DEF OnCurrent
      <4> QED
        BY <1>0, <2>0, <2>2, <2>3, <2>5, <2>6, <2>10, <3>1, <4>1, <4>2
        DEF Tokens, OneTurn, ReaderTurn
    <3>2. CASE p = "reader"
      <4>1. In("reader")' = 1 /\ In("reader") = 0 /\ In("writer")' = In("writer")
        BY <2>4, <3>2, Two
      <4> QED
        BY <1>0, <2>0, <2>2, <2>3, <2>5, <2>6, <2>10, <3>2, <4>1
        DEF Tokens, OneTurn, ReaderTurn
    <3> QED BY <3>1, <3>2, Two
  <2>12. Handed'
    <3>1. Whole' <=> Whole BY <1>0 DEF Whole
    <3>2. CASE p = "writer"
      BY <1>0, <1>2, <2>0, <2>2, <2>10, <3>1, <3>2, Two DEF Handed
    <3>3. CASE p = "reader"
      <4>1. Whole BY <2>0, <2>3, <2>10, <3>3 DEF Handed
      <4> QED BY <1>0, <1>2, <2>0, <2>2, <2>10, <3>1, <3>3, <4>1, Two DEF Handed
    <3> QED BY <3>2, <3>3, Two
  <2> QED BY <2>1, <2>8, <2>9, <2>11, <2>12 DEF Tokens
<1> QED BY <1>5, <1>6, <1>7, <1>8, <1>9, <1>10 DEF SemInv, Calm

\* A turn is handed over.
LEMMA PostInv == ASSUME SemInv, NEW p \in Procs, sem_post(p) PROVE SemInv'
<1> DEFINE y == SemOf(p, Posts(p))
<1>0. /\ spc[p] = "post" /\ val' = [val EXCEPT ![y] = val[y] + 1]
      /\ n' = [n EXCEPT ![p] = n[p] - 1]
      /\ spc' = [spc EXCEPT ![p] = IF n[p] > 1 THEN "wait" ELSE Append(Closing(p), "off")[1]]
      /\ UNCHANGED <<named, gen, linked, record, has, copy, written, received, runs, mixed,
                     disturbed, killed>>
  BY DEF sem_post
<1>t. SemTypes /\ Rounds \in Nat BY SemAssumption DEF SemInv
<1>1. spc[p] \in Ready /\ Posts(p) \in Sems /\ n[p] \in 1 .. Rounds
  BY <1>0, <1>t DEF Ready, Inside, Posts, Waits, Sems, SemInv, RoundsLeft, SemTypes
<1>v. PICK v \in SemPcs : /\ v = (IF n[p] > 1 THEN "wait" ELSE Append(Closing(p), "off")[1])
                          /\ v \in {"wait", "off", "rm_shm"} /\ (p = "writer" => v # "rm_shm")
                          /\ v = "wait" => n[p] > 1
  BY Steps DEF SemPcs
<1>2. /\ spc' \in [Procs -> SemPcs] /\ spc'[p] = v /\ \A q \in Procs : q # p => spc'[q] = spc[q]
  BY Zenon, <1>0, <1>v, <1>t, Moved
<1>n. /\ n' \in [Procs -> 0 .. Rounds] /\ n'[p] = n[p] - 1
      /\ \A q \in Procs : q # p => n'[q] = n[q]
  BY <1>0, <1>1, <1>t DEF SemTypes
<1>3. y \in Sems \X Gens /\ val[y] \in Nat BY <1>1, UsedSem
<1>u. /\ ~named => y = <<Posts(p), has[p]["shm"]>> /\ has[p]["shm"] \in Gens
      /\ ~disturbed /\ (named \/ has[p]["shm"] = gen["shm"]) => y = Cur(Posts(p))
      /\ ~disturbed /\ ~(named \/ has[p]["shm"] = gen["shm"])
           => p = "writer" /\ y \notin {Cur("sem_r"), Cur("sem_w")}
  BY <1>1, UsedSem
<1>p. Posts("writer") = "sem_r" /\ Posts("reader") = "sem_w" BY DEF Posts, Waits, Peer
<1> HIDE DEF y
<1>4. /\ val' \in [Sems \X Gens -> Nat] /\ val'[y] = val[y] + 1
      /\ \A x \in Sems \X Gens : x # y => val'[x] = val[x]
  <2>1. val[y] + 1 \in Nat BY <1>3
  <2> QED BY Zenon, <1>0, <1>3, <1>t, <2>1, Set
<1>5. SemTypes' BY Zenon, <1>0, <1>t, <1>2, <1>4, <1>n DEF SemTypes
<1>6. SemPc' BY <1>0, <1>v, <1>2, Two DEF SemInv, SemPc
<1>7. RoundsLeft'
  <2> SUFFICES ASSUME NEW q \in Procs
               PROVE  /\ spc'[q] \in {"sem_r", "sem_w", "shm", "init_r", "init_w"}
                           => n'[q] = Rounds
                      /\ spc'[q] \in Ready => n'[q] >= 1
    BY DEF RoundsLeft
  <2>1. CASE q = p BY <1>1, <1>v, <1>2, <1>n, <2>1 DEF Ready, Inside
  <2>2. CASE q # p BY <1>2, <1>n, <2>2 DEF SemInv, RoundsLeft
  <2> QED BY <2>1, <2>2
<1>8. GensLeft' BY <1>0, <1>v, <1>2, GensKept
<1>9. RecordsKnown' BY <1>0 DEF SemInv, RecordsKnown
<1>10. Calm'
  <2> SUFFICES ASSUME ~disturbed PROVE (Present /\ Tokens /\ Handed)' BY <1>0 DEF Calm
  <2>0. Present /\ Tokens /\ Handed BY DEF SemInv
  <2>o. \A x \in Names : spc[p] \in SemOpened(x) BY <1>1 DEF SemOpened, Ready, Names, Sems
  <2>1. Present'
    <3>2. spc["reader"] \in {"rm_sem_r", "rm_sem_w"} => p # "writer" BY <1>0, <2>0 DEF Present
    <3>3. spc'["reader"] \in {"rm_sem_r", "rm_sem_w"} => spc'["reader"] = spc["reader"] /\ p # "reader"
      BY <1>v, <1>2, Two
    <3> QED BY <1>0, <1>2, <2>0, <2>o, <3>2, <3>3, Two DEF Present
  <2>2. Cur("sem_r")' = Cur("sem_r") /\ Cur("sem_w")' = Cur("sem_w") BY <1>0 DEF Cur
  <2>3. /\ Cur("sem_r") \in Sems \X Gens /\ Cur("sem_w") \in Sems \X Gens
        /\ Cur("sem_r") # Cur("sem_w")
        /\ val[Cur("sem_r")] \in Nat /\ val[Cur("sem_w")] \in Nat
    BY <1>t, Currents
  <2>4. In(p)' = 0 /\ In(p) = 1 /\ \A q \in Procs : q # p => In(q)' = In(q)
    BY <1>0, <1>v, <1>2 DEF In, Inside
  <2>5. In("writer") \in 0 .. 1 /\ In("reader") \in 0 .. 1 BY DEF In
  <2>6. OnCurrent' => OnCurrent BY <1>0, <1>1, <1>2, Two DEF OnCurrent, Ready, Inside
  <2>7. p = "writer" => (OnCurrent <=> has[p]["shm"] = gen["shm"]) BY <1>1 DEF OnCurrent
  <2>8. named => has[p]["shm"] = gen["shm"] /\ {"sem_w", "shm"} \subseteq linked
    BY <2>0, <2>o DEF Present, Names, Sems
  <2>9. /\ p = "writer" /\ (named \/ has[p]["shm"] = gen["shm"])
              => /\ val'[Cur("sem_r")] = val[Cur("sem_r")] + 1
                 /\ val'[Cur("sem_w")] = val[Cur("sem_w")]
        /\ p = "writer" /\ ~(named \/ has[p]["shm"] = gen["shm"])
              => /\ val'[Cur("sem_w")] = val[Cur("sem_w")]
                 /\ val'[Cur("sem_r")] = val[Cur("sem_r")]
        /\ p = "reader" => /\ val'[Cur("sem_w")] = val[Cur("sem_w")] + 1
                           /\ val'[Cur("sem_r")] = val[Cur("sem_r")]
    <3>1. CASE ~(named \/ has[p]["shm"] = gen["shm"]) BY <1>4, <1>u, <2>3, <3>1, Two
    <3>2. CASE named \/ has[p]["shm"] = gen["shm"]
      <4>1. CASE p = "writer" BY <1>4, <1>u, <1>p, <2>3, <3>2, <4>1, Two
      <4>2. CASE p = "reader" BY <1>4, <1>u, <1>p, <2>3, <3>2, <4>2, Two
      <4> QED BY <3>2, <4>1, <4>2, Two
    <3> QED BY <3>1, <3>2
  <2>10. named \/ (p = "writer" /\ has[p]["shm"] = gen["shm"])
           => val[Cur("sem_r")] = 0 /\ val[Cur("sem_w")] = 0 /\ (p = "writer" => In("reader") = 0)
    BY <2>0, <2>3, <2>4, <2>5, <2>7, Two DEF Tokens, OneTurn
  <2>11. SmallValues'
    <3> SUFFICES ASSUME named, NEW x \in Sems \X Gens PROVE val'[x] <= 1
      BY <1>0 DEF SmallValues
    <3>1. val[x] <= 1 BY <2>0 DEF Tokens, SmallValues
    <3>2. val[y] = 0 BY <1>u, <1>p, <2>10, Two
    <3>3. CASE x = y BY <1>4, <3>2, <3>3
    <3>4. CASE x # y BY <1>4, <3>1, <3>4
    <3> QED BY <3>3, <3>4
  <2>12. Unborn'
    <3> SUFFICES ASSUME ~named, NEW sm \in Sems, NEW g \in Gens, g > gen["shm"]
                 PROVE  val'[<<sm, g>>] = 0
      BY <1>0 DEF Unborn
    <3>1. val[<<sm, g>>] = 0 /\ <<sm, g>> \in Sems \X Gens BY <2>0 DEF Tokens, Unborn
    <3>2. has[p]["shm"] <= gen["shm"] BY DEF SemInv, GensLeft, Names
    <3>3. has[p]["shm"] # g
      <4>1. has[p]["shm"] \in Int /\ gen["shm"] \in Int /\ g \in Int
        BY <1>t, <1>u, Currents DEF Gens
      <4> QED BY <3>2, <4>1
    <3>4. <<sm, g>> # y BY <1>u, <3>3
    <3> QED BY <1>4, <3>1, <3>4
  <2>13. NothingYet' BY <1>0, <2>8 DEF NothingYet
  <2>14. FirstRound'
    <3>1. CASE p = "writer"
      <4>1. n'["writer"] # Rounds BY <1>t, <1>1, <1>n, <3>1
      <4> QED BY <4>1 DEF FirstRound
    <3>2. CASE p = "reader"
      BY <1>0, <1>2, <1>n, <2>0, <2>2, <2>9, <3>2, Two DEF Tokens, FirstRound
    <3> QED BY <3>1, <3>2, Two
  <2>15. OneTurn' /\ ReaderTurn'
    <3>1. CASE p = "writer"
      <4>1. In("writer")' = 0 /\ In("writer") = 1 /\ In("reader")' = In("reader")
        BY <2>4, <3>1, Two
      <4>2. CASE named \/ has[p]["shm"] = gen["shm"]
        BY <2>2, <2>3, <2>5, <2>9, <2>10, <3>1, <4>1, <4>2 DEF OneTurn, ReaderTurn
      <4>3. CASE ~(named \/ has[p]["shm"] = gen["shm"])
        BY <1>0, <2>0, <2>2, <2>3, <2>5, <2>6, <2>7, <2>9, <3>1, <4>1, <4>3
        DEF Tokens, OneTurn, ReaderTurn
      <4> QED BY <4>2, <4>3
    <3>2. CASE p = "reader"
      <4>1. In("reader")' = 0 /\ In("reader") = 1 /\ In("writer")' = In("writer")
        BY <2>4, <3>2, Two
      <4> QED
        BY <1>0, <2>0, <2>2, <2>3, <2>5, <2>6, <2>9, <3>2, <4>1
        DEF Tokens, OneTurn, ReaderTurn
    <3> QED BY <3>1, <3>2, Two
  <2>16. Handed'
    <3>1. Whole' <=> Whole BY <1>0 DEF Whole
    <3>2. CASE p = "writer"
      <4>1. named \/ has[p]["shm"] = gen["shm"] => Whole
        BY <1>0, <2>0, <2>8, <3>2 DEF Handed
      <4>2. spc'["writer"] \notin {"post", "second"} /\ spc'["reader"] = spc["reader"]
        BY <1>v, <1>2, <3>2, Two
      <4> QED BY <1>0, <2>0, <2>2, <2>9, <3>1, <3>2, <4>1, <4>2, Two DEF Handed
    <3>3. CASE p = "reader"
      <4>1. spc'["reader"] \notin {"first", "second"} /\ spc'["writer"] = spc["writer"]
        BY <1>v, <1>2, <3>3, Two
      <4> QED BY <1>0, <2>0, <2>2, <2>9, <3>1, <3>3, <4>1, Two DEF Handed
    <3> QED BY <3>2, <3>3, Two
  <2> QED BY <2>1, <2>11, <2>12, <2>13, <2>14, <2>15, <2>16 DEF Tokens
<1> QED BY <1>5, <1>6, <1>7, <1>8, <1>9, <1>10 DEF SemInv, Calm

\* A step inside the turn of a process changes only the records.
LEMMA InsideKept ==
  ASSUME SemInv, ~disturbed, NEW p \in Procs, spc[p] \in Inside, spc'[p] \in Inside,
         \A q \in Procs : q # p => spc'[q] = spc[q],
         UNCHANGED <<named, gen, linked, val, n, has>>
  PROVE  Present' /\ Tokens' /\ (named \/ has[p]["shm"] = gen["shm"] \/ p = "writer")
         /\ (named => has[p]["shm"] = gen["shm"])
         /\ (p = "reader" => has[p]["shm"] = gen["shm"])
         /\ (has[p]["shm"] = gen["shm"] =>
               /\ val[Cur("sem_r")] = 0
               /\ \A q \in Procs : q # p => spc[q] \notin Inside \/ has[q]["shm"] # gen["shm"])
<1>t. SemTypes BY DEF SemInv
<1>0. Present /\ Tokens BY DEF SemInv
<1>1. \A x \in Names : spc[p] \in SemOpened(x) /\ spc'[p] \in SemOpened(x)
  BY DEF SemOpened, Ready, Names, Sems
<1>2. Present'
  <2>1. spc["reader"] \in {"rm_sem_r", "rm_sem_w"} => p # "writer" BY <1>0 DEF Present, Inside
  <2>2. spc'["reader"] \in {"rm_sem_r", "rm_sem_w"}
          => spc'["reader"] = spc["reader"] /\ p # "reader"
    BY Two DEF Inside
  <2> QED BY <1>0, <1>1, <2>1, <2>2, Two DEF Present
<1>3. In("writer")' = In("writer") /\ In("reader")' = In("reader") BY Two DEF In
<1>4. Cur("sem_r")' = Cur("sem_r") /\ Cur("sem_w")' = Cur("sem_w") BY DEF Cur
<1>5. OnCurrent' <=> OnCurrent BY Two DEF OnCurrent, Ready
<1>6. Tokens'
  <2>1. OneTurn' /\ ReaderTurn' BY <1>0, <1>3, <1>4, <1>5 DEF Tokens, OneTurn, ReaderTurn
  <2>2. SmallValues' /\ Unborn' BY <1>0 DEF Tokens, SmallValues, Unborn
  <2>3. NothingYet' /\ FirstRound'
    BY <1>0, <1>4, Two DEF Tokens, NothingYet, FirstRound, Ready, Inside
  <2> QED BY <2>1, <2>2, <2>3 DEF Tokens
<1>7. "shm" \in Names BY DEF Names
<1>8. (named => has[p]["shm"] = gen["shm"]) /\ (p = "reader" => has[p]["shm"] = gen["shm"])
  BY <1>0, <1>1, <1>7 DEF Present
<1>9. ASSUME has[p]["shm"] = gen["shm"]
      PROVE  /\ val[Cur("sem_r")] = 0
             /\ \A q \in Procs : q # p => spc[q] \notin Inside \/ has[q]["shm"] # gen["shm"]
  <2>1. In(p) = 1 /\ \A q \in Procs : In(q) \in 0 .. 1 /\ (spc[q] \in Inside => In(q) = 1)
    BY DEF In
  <2>2. val[Cur("sem_r")] \in Nat /\ val[Cur("sem_w")] \in Nat BY <1>t, Currents
  <2>3. \A q \in Procs : q # p /\ spc[q] \in Inside /\ has[q]["shm"] = gen["shm"] => OnCurrent
    BY <1>9, Two DEF OnCurrent, Ready
  <2>4. p = "writer" => OnCurrent BY <1>9 DEF OnCurrent, Ready
  <2>5. OnCurrent => val[Cur("sem_r")] + val[Cur("sem_w")] + In("writer") + In("reader") <= 1
    BY <1>0 DEF Tokens, OneTurn
  <2>6. val[Cur("sem_r")] + In("reader") <= 1 BY <1>0 DEF Tokens, ReaderTurn
  <2>7. CASE p = "writer"
    <3>1. val[Cur("sem_r")] = 0 /\ In("reader") = 0
      BY <2>1, <2>2, <2>4, <2>5, <2>7, Two
    <3> QED BY <2>1, <2>7, <3>1, Two
  <2>8. CASE p = "reader"
    <3>1. val[Cur("sem_r")] = 0 BY <2>1, <2>2, <2>6, <2>8, Two
    <3>2. OnCurrent => In("writer") = 0 BY <2>1, <2>2, <2>5, <2>8, Two
    <3> QED BY <2>1, <2>3, <2>8, <3>1, <3>2, Two
  <2> QED BY <2>7, <2>8, Two
<1> QED BY <1>2, <1>6, <1>8, <1>9, Two

LEMMA WriteInv ==
  ASSUME SemInv, NEW field \in {"name", "age"}, write(field) PROVE SemInv'
<1> DEFINE g == has["writer"]["shm"]
           v == IF field = "name" THEN "second" ELSE "post"
<1>0. /\ spc["writer"] = (IF field = "name" THEN "first" ELSE "second")
      /\ record' = [record EXCEPT ![g][field] = written + 1]
      /\ spc' = [spc EXCEPT !["writer"] = v]
      /\ written' = IF field = "name" THEN written ELSE written + 1
      /\ UNCHANGED <<named, gen, linked, val, n, has, copy, received, runs, mixed, disturbed,
                     killed>>
  BY DEF write
<1>t. SemTypes BY DEF SemInv
<1>1. v \in SemPcs /\ v \in Inside /\ spc["writer"] \in Inside /\ g \in Gens
  BY <1>0, <1>t, Two DEF SemPcs, Inside, SemTypes, Names
<1>2. /\ spc' \in [Procs -> SemPcs] /\ spc'["writer"] = v
      /\ \A q \in Procs : q # "writer" => spc'[q] = spc[q]
  BY Zenon, <1>0, <1>1, <1>t, Moved, Two
<1>3. /\ record' \in [Gens -> [name : Nat, age : Nat]]
      /\ field = "name" => record'[g].name = written + 1 /\ record'[g].age = record[g].age
      /\ field = "age" => record'[g].age = written + 1 /\ record'[g].name = record[g].name
      /\ \A h \in Gens : h # g => record'[h] = record[h]
  <2>1. record \in [Gens -> [name : Nat, age : Nat]] /\ written \in Nat BY <1>t DEF SemTypes
  <2>2. CASE field = "name"
    <3>1. record' = [record EXCEPT ![g] = [record[g] EXCEPT !.name = written + 1]]
      BY Zenon, <1>0, <1>1, <2>1, <2>2
    <3> HIDE DEF g
    <3> QED BY <1>1, <2>1, <2>2, <3>1
  <2>3. CASE field = "age"
    <3>1. record' = [record EXCEPT ![g] = [record[g] EXCEPT !.age = written + 1]]
      BY Zenon, <1>0, <1>1, <2>1, <2>3
    <3> HIDE DEF g
    <3> QED BY <1>1, <2>1, <2>3, <3>1
  <2> QED BY <2>2, <2>3
<1> HIDE DEF g
<1>4. written \in Nat /\ written' \in Nat BY <1>0, <1>t DEF SemTypes
<1>5. SemTypes' BY <1>0, <1>t, <1>2, <1>3, <1>4 DEF SemTypes
<1>6. SemPc' BY <1>0, <1>2, Two DEF SemInv, SemPc
<1>7. RoundsLeft' BY <1>0, <1>1, <1>2, Two DEF SemInv, RoundsLeft, Ready, Inside
<1>8. GensLeft' BY <1>0, <1>2, GensKept, Two
<1>9. RecordsKnown'
  <2> SUFFICES ASSUME NEW h \in Gens
               PROVE  record'[h].name <= written' + 1 /\ record'[h].age <= written'
    BY DEF RecordsKnown
  <2>1. record[h].name <= written + 1 /\ record[h].age <= written
        /\ record[h].name \in Nat /\ record[h].age \in Nat
    BY <1>t DEF SemInv, RecordsKnown, SemTypes
  <2>2. CASE h = g BY <1>0, <1>3, <1>4, <2>1, <2>2
  <2>3. CASE h # g BY <1>0, <1>3, <1>4, <2>1, <2>3
  <2> QED BY <2>2, <2>3
<1>10. Calm'
  <2> SUFFICES ASSUME ~disturbed PROVE (Present /\ Tokens /\ Handed)' BY <1>0 DEF Calm
  <2>0. Present /\ Tokens /\ Handed BY DEF SemInv
  <2>1. /\ Present' /\ Tokens'
        /\ g = gen["shm"] => /\ val[Cur("sem_r")] = 0
                             /\ spc["reader"] \notin Inside \/ has["reader"]["shm"] # gen["shm"]
    BY <1>0, <1>1, <1>2, InsideKept, Two DEF g
  <2>2. spc["reader"] \in {"first", "second"} => has["reader"]["shm"] = gen["shm"]
    BY <2>0, Two DEF Present, SemOpened, Ready, Inside, Names, Sems
  <2>3. Cur("sem_r")' = Cur("sem_r") BY <1>0 DEF Cur
  <2>4. received <= written /\ received \in Nat /\ gen["shm"] \in Gens
    BY <1>t, <2>0, Currents DEF Handed, SemTypes
  <2>5. CASE g = gen["shm"]
    <3>1. spc'["reader"] \notin {"first", "second"} /\ val'[Cur("sem_r")] = 0
      BY <1>0, <1>2, <2>1, <2>2, <2>5, Two DEF Inside
    <3>2. field = "name" => spc'["writer"] = "second" /\ record'[gen["shm"]].name = written' + 1
      BY <1>0, <1>2, <1>3, <2>5
    <3>3. field = "age" => spc'["writer"] = "post" /\ Whole'
      <4>1. field = "age" => record[gen["shm"]].name = written + 1
        BY <1>0, <2>0, <2>5 DEF Handed, g
      <4> QED BY <1>0, <1>2, <1>3, <1>4, <2>4, <2>5, <4>1 DEF Whole
    <3>4. field = "name" \/ field = "age" OBVIOUS
    <3>5. received' <= written' /\ ~mixed' BY <1>0, <1>4, <2>0, <2>4 DEF Handed
    <3> QED BY <1>0, <2>1, <2>3, <3>1, <3>2, <3>3, <3>4, <3>5 DEF Handed
  <2>6. CASE g # gen["shm"]
    <3>1. record'[gen["shm"]] = record[gen["shm"]] BY <1>3, <2>4, <2>6
    <3>2. Whole' <=> Whole BY <1>0, <3>1 DEF Whole
    <3>3. received' <= written' /\ ~mixed' BY <1>0, <1>4, <2>0, <2>4 DEF Handed
    <3>4. has'["writer"]["shm"] # gen'["shm"] BY <1>0, <2>6 DEF g
    <3> QED BY <1>0, <1>2, <2>0, <2>1, <2>3, <3>1, <3>2, <3>3, <3>4, Two DEF Handed
  <2> QED BY <2>1, <2>5, <2>6
<1> QED BY <1>5, <1>6, <1>7, <1>8, <1>9, <1>10 DEF SemInv, Calm

LEMMA ReadInv ==
  ASSUME SemInv, NEW field \in {"name", "age"}, read(field) PROVE SemInv'
<1> DEFINE got == record[has["reader"]["shm"]][field]
           v == IF field = "name" THEN "second" ELSE "post"
<1>0. /\ spc["reader"] = (IF field = "name" THEN "first" ELSE "second")
      /\ spc' = [spc EXCEPT !["reader"] = v]
      /\ field = "name" => copy' = got /\ UNCHANGED <<received, mixed>>
      /\ field = "age" => /\ received' = got /\ copy' = 0
                          /\ mixed' = (mixed \/ copy # got \/ got <= received)
      /\ UNCHANGED <<named, gen, linked, val, record, n, has, written, runs, disturbed, killed>>
  BY DEF read
<1>t. SemTypes BY DEF SemInv
<1>1. v \in SemPcs /\ v \in Inside /\ spc["reader"] \in Inside
  BY <1>0 DEF SemPcs, Inside
<1>2. /\ spc' \in [Procs -> SemPcs] /\ spc'["reader"] = v
      /\ \A q \in Procs : q # "reader" => spc'[q] = spc[q]
  BY Zenon, <1>0, <1>1, <1>t, Moved, Two
<1>3. PICK g \in Gens : g = has["reader"]["shm"] BY <1>t, Two DEF SemTypes, Names
<1>4. /\ record[g].name \in Nat /\ record[g].age \in Nat /\ written \in Nat /\ received \in Nat
      /\ record[g].age <= written
      /\ field = "name" => got = record[g].name
      /\ field = "age" => got = record[g].age
  BY <1>3, <1>t DEF SemTypes, SemInv, RecordsKnown
<1> HIDE DEF got
<1>g. (field = "name" \/ field = "age") /\ got \in Nat BY <1>4
<1>5. SemTypes'
  <2>1. copy' \in Nat /\ received' \in Nat BY <1>0, <1>g, <1>t DEF SemTypes
  <2>2. mixed' \in BOOLEAN
    <3>1. CASE field = "name" BY <1>0, <1>t, <3>1 DEF SemTypes
    <3>2. CASE field = "age" BY <1>0, <3>2
    <3> QED BY <1>g, <3>1, <3>2
  <2> QED BY <1>0, <1>t, <1>2, <2>1, <2>2 DEF SemTypes
<1>6. SemPc' BY <1>0, <1>2, Two DEF SemInv, SemPc
<1>7. RoundsLeft' BY <1>0, <1>1, <1>2, Two DEF SemInv, RoundsLeft, Ready, Inside
<1>8. GensLeft' BY <1>0, <1>2, GensKept, Two
<1>9. RecordsKnown' BY <1>0 DEF SemInv, RecordsKnown
<1>10. Calm'
  <2> SUFFICES ASSUME ~disturbed PROVE (Present /\ Tokens /\ Handed)' BY <1>0 DEF Calm
  <2>0. Present /\ Tokens /\ Handed BY DEF SemInv
  <2>1. /\ Present' /\ Tokens' /\ g = gen["shm"] /\ val[Cur("sem_r")] = 0
        /\ spc["writer"] \notin Inside \/ has["writer"]["shm"] # gen["shm"]
    BY <1>0, <1>1, <1>2, <1>3, InsideKept, Two
  <2>2. Cur("sem_r")' = Cur("sem_r") BY <1>0 DEF Cur
  <2>3. Whole BY <1>0, <2>0 DEF Handed
  <2>4. has'["writer"]["shm"] = gen'["shm"] => spc'["writer"] \notin {"post", "second"}
    BY <1>0, <1>2, <2>1, Two DEF Inside
  <2>5. CASE field = "name"
    <3>1. Whole' BY <1>0, <2>3, <2>5 DEF Whole
    <3>2. spc'["reader"] = "second" /\ copy' = record'[gen'["shm"]].name
      BY <1>0, <1>2, <1>4, <2>1, <2>5
    <3>3. received' <= written' /\ ~mixed' BY <1>0, <2>0, <2>5 DEF Handed
    <3> QED BY <2>1, <2>4, <3>1, <3>2, <3>3 DEF Handed
  <2>6. CASE field = "age"
    <3>1. copy = got /\ ~(got <= received) /\ ~mixed
      BY <1>0, <1>4, <2>0, <2>1, <2>3, <2>6 DEF Handed, Whole
    <3>2. spc'["reader"] = "post" /\ received' <= written' /\ ~mixed'
      BY Zenon, <1>0, <1>2, <1>4, <2>6, <3>1
    <3>3. val'[Cur("sem_r")'] = 0 BY <1>0, <2>1, <2>2
    <3> QED BY <2>1, <2>4, <3>2, <3>3 DEF Handed
  <2> QED BY <1>g, <2>1, <2>5, <2>6
<1> QED BY <1>5, <1>6, <1>7, <1>8, <1>9, <1>10 DEF SemInv, Calm

\* The reader removes a name, when no writer has it in the first program.
LEMMA RemoveInv == ASSUME SemInv, NEW x \in Names, remove(x) PROVE SemInv'
<1> DEFINE pc == CASE x = "shm" -> "rm_shm" [] x = "sem_r" -> "rm_sem_r"
                   [] x = "sem_w" -> "rm_sem_w"
<1>0. /\ spc["reader"] = pc /\ linked' = linked \ {x}
      /\ spc' = [spc EXCEPT !["reader"] = After(Closing("reader"), pc, "off")]
      /\ disturbed' = (disturbed \/ (spc["writer"] # "off" /\ named))
      /\ UNCHANGED <<named, gen, val, record, n, has, copy, written, received, runs, mixed,
                     killed>>
  BY DEF remove
<1>t. SemTypes BY DEF SemInv
<1>1. x = "shm" \/ x = "sem_r" \/ x = "sem_w" BY DEF Names, Sems
<1>2. (x = "sem_r" \/ x = "sem_w") => named BY <1>0, Two DEF SemInv, SemPc
<1>3. PICK v \in SemPcs :
        /\ v = After(Closing("reader"), pc, "off")
        /\ x = "shm" => spc["reader"] = "rm_shm" /\ v = IF named THEN "rm_sem_r" ELSE "off"
        /\ x = "sem_r" => spc["reader"] = "rm_sem_r" /\ v = "rm_sem_w"
        /\ x = "sem_w" => spc["reader"] = "rm_sem_w" /\ v = "off"
  <2>1. CASE x = "shm" BY <1>0, <2>1, Steps DEF SemPcs
  <2>2. CASE x = "sem_r" BY <1>0, <1>2, <2>2, Steps DEF SemPcs
  <2>3. CASE x = "sem_w" BY <1>0, <1>2, <2>3, Steps DEF SemPcs
  <2> QED BY <1>1, <2>1, <2>2, <2>3
<1> HIDE DEF pc
<1>4. /\ spc' \in [Procs -> SemPcs] /\ spc'["reader"] = v /\ spc'["writer"] = spc["writer"]
      /\ \A q \in Procs : q # "reader" => spc'[q] = spc[q]
  BY Zenon, <1>0, <1>3, <1>t, Moved, Two
<1>v. v \in {"rm_sem_r", "rm_sem_w", "off"} /\ (~named => v = "off") BY <1>1, <1>2, <1>3
<1>5. SemTypes' BY <1>0, <1>t, <1>4 DEF SemTypes
<1>6. SemPc' BY <1>0, <1>v, <1>4, Two DEF SemInv, SemPc
<1>7. RoundsLeft' BY <1>0, <1>v, <1>4, Two DEF SemInv, RoundsLeft, Ready, Inside
<1>8. GensLeft' BY <1>0, <1>v, <1>4, GensKept, Two
<1>9. RecordsKnown' BY <1>0 DEF SemInv, RecordsKnown
<1>10. Calm'
  <2> SUFFICES ASSUME ~disturbed, named => spc["writer"] = "off"
               PROVE  (Present /\ Tokens /\ Handed)'
    BY Zenon, <1>0 DEF Calm
  <2>0. Present /\ Tokens /\ Handed BY DEF SemInv
  <2>1. Present'
    <3>1. \A q \in Procs, z \in Names : named \/ q = "reader" => spc'[q] \notin SemOpened(z)
      BY <1>4, <1>v, Two DEF SemOpened, Ready, Inside, Names, Sems
    <3>2. spc'["reader"] = "rm_sem_w" => "sem_r" \notin linked' BY <1>0, <1>1, <1>3, <1>4
    <3>3. spc'["reader"] \in {"rm_sem_r", "rm_sem_w"} => spc'["writer"] = "off"
      BY <1>4, <1>v
    <3> QED BY <1>0, <3>1, <3>2, <3>3 DEF Present
  <2>2. In("writer")' = In("writer") /\ In("reader")' = In("reader")
    BY <1>1, <1>3, <1>4, <1>v DEF In, Inside
  <2>3. Cur("sem_r")' = Cur("sem_r") /\ Cur("sem_w")' = Cur("sem_w") BY <1>0 DEF Cur
  <2>4. OnCurrent' <=> OnCurrent BY <1>0, <1>4 DEF OnCurrent
  <2>5. OneTurn' /\ ReaderTurn'
    BY <1>0, <2>0, <2>2, <2>3, <2>4 DEF Tokens, OneTurn, ReaderTurn
  <2>6. SmallValues' /\ Unborn' /\ FirstRound'
    BY <1>0, <1>4, <2>0, <2>3 DEF Tokens, SmallValues, Unborn, FirstRound
  <2>7. NothingYet'
    <3>1. CASE x = "shm" BY <1>0, <1>3, <1>4, <3>1 DEF NothingYet
    <3>2. CASE x = "sem_r" BY <1>0, <3>2 DEF NothingYet
    <3>3. CASE x = "sem_w"
      <4>1. "sem_r" \notin linked BY <1>3, <2>0, <3>3 DEF Present
      <4> QED BY <1>0, <4>1 DEF NothingYet
    <3> QED BY <1>1, <3>1, <3>2, <3>3
  <2>8. Handed' BY <1>0, <1>4, <1>v, <2>0, <2>3 DEF Handed, Whole
  <2> QED BY <2>1, <2>5, <2>6, <2>7, <2>8 DEF Tokens
<1> QED BY <1>5, <1>6, <1>7, <1>8, <1>9, <1>10 DEF SemInv, Calm

\* What sem_open and shmget have in common: x is created if it does not exist, and
\* p gets it.
Opens(p, x) ==
  /\ spc[p] = x
  /\ gen' = IF x \in linked THEN gen ELSE [gen EXCEPT ![x] = gen[x] + 1]
  /\ has' = [has EXCEPT ![p][x] = gen'[x]]
  /\ \A q \in Procs : q # p => spc'[q] = spc[q]
  /\ spc'[p] = IF x = "sem_r" THEN "sem_w" ELSE IF x = "sem_w" THEN "shm"
               ELSE IF named THEN "wait" ELSE "init_r"
  /\ runs' = runs

\* Opening creates at most one generation, and only of what does not exist.
LEMMA OpenGens ==
  ASSUME SemInv, NEW p \in Procs, NEW x \in Names, Opens(p, x)
  PROVE  /\ gen' \in [Names -> Gens] /\ has' \in [Procs -> [Names -> Gens]] /\ GensLeft'
         /\ \A z \in Names : z # x => gen'[z] = gen[z]
         /\ x \in linked => gen' = gen
         /\ x \notin linked => gen'[x] = gen[x] + 1
         /\ has'[p][x] = gen'[x] /\ \A z \in Names : z # x => has'[p][z] = has[p][z]
         /\ \A q \in Procs : q # p => has'[q] = has[q]
<1>0. /\ spc[p] = x
      /\ gen' = IF x \in linked THEN gen ELSE [gen EXCEPT ![x] = gen[x] + 1]
      /\ has' = [has EXCEPT ![p][x] = gen'[x]]
      /\ \A q \in Procs : q # p => spc'[q] = spc[q]
      /\ spc'[p] = IF x = "sem_r" THEN "sem_w" ELSE IF x = "sem_w" THEN "shm"
                   ELSE IF named THEN "wait" ELSE "init_r"
      /\ runs' = runs
  BY DEF Opens
<1>t. SemTypes /\ MaxRuns \in Nat BY SemAssumption DEF SemInv
<1>1. \A z \in Names : gen[z] \in Gens /\ gen[z] \in Nat BY <1>t DEF SemTypes, Gens
<1>2. \A q \in Procs : runs[q] \in 0 .. MaxRuns /\ runs[q] \in Nat BY <1>t DEF SemTypes
<1>3. \A q \in Procs, z \in Names : /\ ToOpen(q, z) \in 0 .. 1 /\ ToOpen(q, z)' \in 0 .. 1
                                    /\ q # p => ToOpen(q, z)' = ToOpen(q, z)
  <2> SUFFICES ASSUME NEW q \in Procs, NEW z \in Names
               PROVE  /\ ToOpen(q, z) \in 0 .. 1 /\ ToOpen(q, z)' \in 0 .. 1
                      /\ q # p => ToOpen(q, z)' = ToOpen(q, z)
    OBVIOUS
  <2>1. ToOpen(q, z) \in 0 .. 1 BY DEF ToOpen
  <2>2. ToOpen(q, z)' \in 0 .. 1 BY DEF ToOpen
  <2>3. q # p => ToOpen(q, z)' = ToOpen(q, z) BY Zenon, <1>0 DEF ToOpen
  <2> QED BY <2>1, <2>2, <2>3
<1>4. ToOpen(p, x) = 1 /\ ToOpen(p, x)' = 0
  BY <1>0 DEF ToOpen, Names, Sems
<1>5. \A z \in Names : ToOpen(p, z)' <= ToOpen(p, z)
  BY <1>0 DEF ToOpen, Names, Sems
<1>6. \A z \in Names :
        gen[z] + ToOpen("writer", z) + ToOpen("reader", z) <= runs["writer"] + runs["reader"]
  BY DEF SemInv, GensLeft
<1>7. gen[x] + 1 <= runs["writer"] + runs["reader"] BY <1>1, <1>2, <1>3, <1>4, <1>6, Two
<1>8. gen[x] + 1 \in Gens
  <2>1. gen[x] \in Nat /\ runs["writer"] \in 0 .. MaxRuns /\ runs["reader"] \in 0 .. MaxRuns
    BY <1>1, <1>2, Two
  <2> QED BY <1>t, <1>7, <2>1 DEF Gens
<1>9. /\ gen' \in [Names -> Gens] /\ \A z \in Names : z # x => gen'[z] = gen[z]
      /\ x \in linked => gen' = gen
      /\ x \notin linked => gen'[x] = gen[x] + 1
  <2>1. gen \in [Names -> Gens] BY <1>t DEF SemTypes
  <2>2. CASE x \in linked BY <1>0, <2>1, <2>2
  <2>3. CASE x \notin linked
    <3>1. gen' = [gen EXCEPT ![x] = gen[x] + 1] BY <1>0, <2>3
    <3> QED BY <1>8, <2>1, <2>3, <3>1
  <2> QED BY <2>2, <2>3
<1>10. /\ has' \in [Procs -> [Names -> Gens]] /\ has'[p][x] = gen'[x]
       /\ \A z \in Names : z # x => has'[p][z] = has[p][z]
       /\ \A q \in Procs : q # p => has'[q] = has[q]
  BY <1>0, <1>t, <1>9 DEF SemTypes
<1>11. GensLeft'
  <2> SUFFICES ASSUME NEW z \in Names
               PROVE  /\ gen'[z] + ToOpen("writer", z)' + ToOpen("reader", z)'
                           <= runs["writer"] + runs["reader"]
                      /\ \A q \in Procs : has'[q][z] <= gen'[z]
    BY <1>0 DEF GensLeft
  <2>1. gen[z] \in Nat /\ gen'[z] \in Nat /\ gen'[z] >= gen[z]
        /\ gen'[z] <= gen[z] + (IF z = x THEN 1 ELSE 0)
    BY <1>1, <1>9
  <2>2. gen[z] + ToOpen("writer", z) + ToOpen("reader", z) <= runs["writer"] + runs["reader"]
    BY <1>6
  <2>3. ToOpen(p, z)' + (IF z = x THEN 1 ELSE 0) <= ToOpen(p, z)
    BY <1>3, <1>4, <1>5
  <2>4. gen'[z] + ToOpen("writer", z)' + ToOpen("reader", z)' <= runs["writer"] + runs["reader"]
    <3>1. CASE p = "writer" BY <1>2, <1>3, <2>1, <2>2, <2>3, <3>1, Two
    <3>2. CASE p = "reader" BY <1>2, <1>3, <2>1, <2>2, <2>3, <3>2, Two
    <3> QED BY <3>1, <3>2, Two
  <2>5. ASSUME NEW q \in Procs PROVE has'[q][z] <= gen'[z]
    <3>1. has[q][z] <= gen[z] /\ has[q][z] \in Nat
      BY <1>t DEF SemInv, GensLeft, SemTypes, Gens
    <3>2. CASE q = p /\ z = x BY <1>10, <2>1, <3>2
    <3>3. CASE ~(q = p /\ z = x)
      <4>1. has'[q][z] = has[q][z] BY <1>10, <3>3
      <4> QED BY <2>1, <3>1, <4>1
    <3> QED BY <3>2, <3>3
  <2> QED BY <2>4, <2>5
<1> QED BY <1>9, <1>10, <1>11

LEMMA OpenInv == ASSUME SemInv, NEW p \in Procs, NEW sm \in Sems, sem_open(p, sm) PROVE SemInv'
<1>0. /\ spc[p] = sm
      /\ gen' = IF sm \in linked THEN gen ELSE [gen EXCEPT ![sm] = gen[sm] + 1]
      /\ linked' = linked \cup {sm}
      /\ val' = IF sm \in linked THEN val ELSE [val EXCEPT ![<<sm, gen'[sm]>>] = Initial(sm)]
      /\ has' = [has EXCEPT ![p][sm] = gen'[sm]]
      /\ spc' = [spc EXCEPT ![p] = After(Opening, sm, "wait")]
      /\ disturbed' = (disturbed \/ spc[Peer(p)] \in {"rm_sem_r", "rm_sem_w"})
      /\ UNCHANGED <<named, record, n, copy, written, received, runs, mixed, killed>>
  BY DEF sem_open
<1>t. SemTypes BY DEF SemInv
<1>1. named /\ sm \in Names /\ sm # "shm" /\ (sm = "sem_r" \/ sm = "sem_w")
  BY <1>0 DEF SemInv, SemPc, Sems, Names
<1>v. PICK v \in SemPcs : /\ v = After(Opening, sm, "wait")
                          /\ v = IF sm = "sem_r" THEN "sem_w" ELSE "shm"
  BY <1>1, Steps DEF SemPcs
<1>2. /\ spc' \in [Procs -> SemPcs] /\ spc'[p] = v /\ \A q \in Procs : q # p => spc'[q] = spc[q]
  BY Zenon, <1>0, <1>v, <1>t, Moved
<1>3. /\ gen' \in [Names -> Gens] /\ has' \in [Procs -> [Names -> Gens]] /\ GensLeft'
      /\ \A z \in Names : z # sm => gen'[z] = gen[z]
      /\ sm \in linked => gen' = gen
      /\ sm \notin linked => gen'[sm] = gen[sm] + 1
      /\ has'[p][sm] = gen'[sm] /\ \A z \in Names : z # sm => has'[p][z] = has[p][z]
      /\ \A q \in Procs : q # p => has'[q] = has[q]
  <2>1. spc'[p] = IF sm = "sem_r" THEN "sem_w" ELSE IF sm = "sem_w" THEN "shm"
                  ELSE IF named THEN "wait" ELSE "init_r"
    BY <1>1, <1>v, <1>2
  <2>2. Opens(p, sm) BY <1>0, <1>2, <2>1 DEF Opens
  <2> QED BY <1>1, <2>2, OpenGens
<1>4. PICK y \in Sems \X Gens : y = <<sm, gen'[sm]>> BY Zenon, <1>1, <1>3
<1>5. Initial(sm) \in 0 .. 1 /\ (sm = "sem_r" => Initial(sm) = 0) /\ (sm = "sem_w" => Initial(sm) = 1)
  BY DEF Initial
<1>6. /\ val' \in [Sems \X Gens -> Nat] /\ (sm \in linked => val' = val)
      /\ sm \notin linked => /\ val'[y] = Initial(sm)
                            /\ \A x \in Sems \X Gens : x # y => val'[x] = val[x]
  <2>1. CASE sm \in linked BY <1>0, <1>t, <2>1 DEF SemTypes
  <2>2. CASE sm \notin linked
    <3>1. val' = [val EXCEPT ![y] = Initial(sm)] /\ Initial(sm) \in Nat BY <1>0, <1>4, <1>5, <2>2
    <3> QED BY Zenon, <1>t, <2>2, <3>1, Set
  <2> QED BY <2>1, <2>2
<1>7. SemTypes'
  <2>1. linked' \subseteq Names /\ disturbed' \in BOOLEAN BY <1>0, <1>1, <1>t DEF SemTypes
  <2> QED BY <1>0, <1>t, <1>2, <1>3, <1>6, <2>1 DEF SemTypes
<1>8. SemPc' BY <1>0, <1>v, <1>2, Two DEF SemInv, SemPc
<1>9. RoundsLeft' BY <1>0, <1>1, <1>v, <1>2 DEF SemInv, RoundsLeft, Ready, Inside
<1>10. RecordsKnown' BY <1>0 DEF SemInv, RecordsKnown
<1>11. Calm'
  <2> SUFFICES ASSUME ~disturbed, spc[Peer(p)] \notin {"rm_sem_r", "rm_sem_w"}
               PROVE  (Present /\ Tokens /\ Handed)'
    BY Zenon, <1>0 DEF Calm
  <2>0. Present /\ Tokens /\ Handed BY DEF SemInv
  <2>p. /\ \A q \in Procs, x \in Names : spc[q] \in SemOpened(x) => x \in linked /\ has[q][x] = gen[x]
        /\ spc["reader"] \notin {"rm_sem_r", "rm_sem_w"}
    <3>1. \A q \in Procs : spc[q] \notin {"rm_sem_r", "rm_sem_w"} BY <1>0, <1>1, Two
    <3> QED BY <1>1, <2>0, <3>1, Two DEF Present
  <2>1. Present'
    <3> SUFFICES ASSUME NEW q \in Procs, NEW x \in Names, spc'[q] \in SemOpened(x)
                 PROVE  x \in linked' /\ has'[q][x] = gen'[x]
      <4>1. spc'["reader"] \notin {"rm_sem_r", "rm_sem_w"} BY <1>v, <1>2, <2>p, Two
      <4> QED BY <4>1 DEF Present
    <3>1. CASE q = p
      <4>1. x = sm \/ (x = "sem_r" /\ sm = "sem_w")
        BY <1>1, <1>v, <1>2, <3>1 DEF SemOpened, Ready, Inside, Names, Sems
      <4>2. CASE x = sm BY <1>0, <1>3, <3>1, <4>2
      <4>3. CASE x = "sem_r" /\ sm = "sem_w"
        <5>1. spc[q] \in SemOpened(x) BY <1>0, <3>1, <4>3 DEF SemOpened
        <5> QED BY <1>0, <1>3, <2>p, <3>1, <4>3, <5>1
      <4> QED BY <4>1, <4>2, <4>3
    <3>2. CASE q # p
      <4>1. x \in linked /\ has[q][x] = gen[x] BY <1>2, <2>p, <3>2
      <4> QED BY <1>0, <1>3, <3>2, <4>1
    <3> QED BY <3>1, <3>2
  <2>2. In("writer")' = In("writer") /\ In("reader")' = In("reader")
        /\ In("writer") \in 0 .. 1 /\ In("reader") \in 0 .. 1
    <3>1. In(p)' = 0 /\ In(p) = 0 BY <1>0, <1>1, <1>v, <1>2 DEF In, Inside
    <3>2. \A q \in Procs : q # p => In(q)' = In(q) BY <1>2 DEF In
    <3> QED BY <3>1, <3>2, Two DEF In
  <2>3. /\ Cur("sem_r") \in Sems \X Gens /\ Cur("sem_w") \in Sems \X Gens
        /\ val[Cur("sem_r")] \in Nat /\ val[Cur("sem_w")] \in Nat
    BY <1>t, Currents
  <2>4. sm \in linked => /\ Cur("sem_r")' = Cur("sem_r") /\ Cur("sem_w")' = Cur("sem_w")
    BY <1>0, <1>3 DEF Cur
  <2>5. sm = "sem_r" /\ sm \notin linked =>
          /\ Cur("sem_r")' = y /\ Cur("sem_w")' = Cur("sem_w") /\ Cur("sem_w") # y
    BY <1>0, <1>1, <1>3, <1>4 DEF Cur, Names, Sems
  <2>6. sm = "sem_w" /\ sm \notin linked =>
          /\ Cur("sem_w")' = y /\ Cur("sem_r")' = Cur("sem_r") /\ Cur("sem_r") # y
    BY <1>0, <1>1, <1>3, <1>4 DEF Cur, Names, Sems
  <2>7. sm = "sem_w" /\ sm \notin linked =>
          val[Cur("sem_r")] = 0 /\ In("writer") = 0 /\ In("reader") = 0
    <3> SUFFICES ASSUME sm = "sem_w", sm \notin linked
                 PROVE  val[Cur("sem_r")] = 0 /\ In("writer") = 0 /\ In("reader") = 0
      OBVIOUS
    <3>1. "sem_r" \in linked BY <1>0, <2>p DEF SemOpened, Names, Sems
    <3>2. val[Cur("sem_r")] = 0 BY <1>1, <2>0, <2>p, <3>1 DEF Tokens, NothingYet
    <3>3. \A q \in Procs : spc[q] \notin Inside
      <4>1. \A q \in Procs : spc[q] \in Inside => spc[q] \in SemOpened(sm)
        BY <1>1 DEF SemOpened, Ready
      <4> QED BY <1>1, <2>p, <4>1
    <3> QED BY <3>2, <3>3, Two DEF In
  <2>8. val'[Cur("sem_r")'] = (IF sm = "sem_r" /\ sm \notin linked THEN 0 ELSE val[Cur("sem_r")])
        /\ val'[Cur("sem_w")'] = (IF sm = "sem_w" /\ sm \notin linked THEN 1 ELSE val[Cur("sem_w")])
    <3>1. CASE sm \in linked BY <1>6, <2>4, <3>1
    <3>2. CASE sm \notin linked /\ sm = "sem_r" BY <1>5, <1>6, <2>3, <2>5, <3>2
    <3>3. CASE sm \notin linked /\ sm = "sem_w" BY <1>5, <1>6, <2>3, <2>6, <3>3
    <3> QED BY <1>1, <3>1, <3>2, <3>3
  <2>9. OneTurn' /\ ReaderTurn'
    <3>1. val[Cur("sem_r")] + val[Cur("sem_w")] + In("writer") + In("reader") <= 1
      BY <1>1, <2>0 DEF Tokens, OneTurn
    <3>2. /\ val'[Cur("sem_r")'] + val'[Cur("sem_w")'] + In("writer")' + In("reader")' <= 1
          /\ val'[Cur("sem_r")'] + In("reader")' <= 1
      BY <2>2, <2>3, <2>7, <2>8, <3>1
    <3> QED BY <3>2 DEF OneTurn, ReaderTurn
  <2>10. SmallValues'
    <3> SUFFICES ASSUME NEW x \in Sems \X Gens PROVE val'[x] <= 1 BY DEF SmallValues
    <3>1. val[x] <= 1 BY <1>1, <2>0 DEF Tokens, SmallValues
    <3>2. CASE sm \in linked BY <1>6, <3>1, <3>2
    <3>3. CASE sm \notin linked /\ x = y BY <1>5, <1>6, <3>3
    <3>4. CASE sm \notin linked /\ x # y BY <1>6, <3>1, <3>4
    <3> QED BY <3>2, <3>3, <3>4
  <2>11. NothingYet'
    <3>1. CASE sm \in linked
      <4>1. linked' = linked BY <1>0, <3>1
      <4> QED BY <1>0, <1>1, <2>0, <2>p, <2>8, <3>1, <4>1 DEF Tokens, NothingYet
    <3>2. CASE sm \notin linked /\ sm = "sem_r" BY <2>8, <3>2 DEF NothingYet
    <3>3. CASE sm \notin linked /\ sm = "sem_w" BY <2>7, <2>8, <3>3 DEF NothingYet
    <3> QED BY <1>1, <3>1, <3>2, <3>3
  <2>12. Unborn' /\ FirstRound' BY <1>0, <1>1 DEF Unborn, FirstRound
  <2>13. Handed'
    <3>1. "shm" \in Names /\ gen'["shm"] = gen["shm"] /\ has'["writer"]["shm"] = has["writer"]["shm"]
      BY <1>1, <1>3, Two DEF Names
    <3>2. Whole' <=> Whole BY <1>0, <3>1 DEF Whole
    <3>3. val'[Cur("sem_r")'] >= 1 => val[Cur("sem_r")] >= 1 BY <2>8
    <3>4. spc'[p] \notin {"first", "second", "post"} BY <1>v, <1>2
    <3>5. \A q \in Procs : spc'[q] \in {"first", "second", "post"} => spc'[q] = spc[q]
      BY <1>2, <3>4
    <3> QED BY <1>0, <2>0, <3>1, <3>2, <3>3, <3>5, Two DEF Handed
  <2> QED BY <2>1, <2>9, <2>10, <2>11, <2>12, <2>13 DEF Tokens
<1> QED BY <1>3, <1>7, <1>8, <1>9, <1>10, <1>11 DEF SemInv, Calm

\* The memory is opened.  What is new holds no turn, and no process works on it yet.
LEMMA ShmgetInv == ASSUME SemInv, NEW p \in Procs, shmget(p) PROVE SemInv'
<1> DEFINE new == "shm" \notin linked
<1>0. /\ spc[p] = "shm"
      /\ gen' = IF "shm" \in linked THEN gen ELSE [gen EXCEPT !["shm"] = gen["shm"] + 1]
      /\ linked' = linked \cup {"shm"}
      /\ has' = [has EXCEPT ![p]["shm"] = gen'["shm"]]
      /\ spc' = [spc EXCEPT ![p] = After(Opening, "shm", "wait")]
      /\ UNCHANGED <<named, val, record, n, copy, written, received, runs, mixed, disturbed,
                     killed>>
  BY DEF shmget
<1>t. SemTypes /\ "shm" \in Names BY DEF SemInv, Names
<1>v. PICK v \in SemPcs : v = After(Opening, "shm", "wait") /\ v = IF named THEN "wait" ELSE "init_r"
  BY Steps DEF SemPcs
<1>2. /\ spc' \in [Procs -> SemPcs] /\ spc'[p] = v /\ \A q \in Procs : q # p => spc'[q] = spc[q]
  BY Zenon, <1>0, <1>v, <1>t, Moved
<1>3. /\ gen' \in [Names -> Gens] /\ has' \in [Procs -> [Names -> Gens]] /\ GensLeft'
      /\ \A z \in Names : z # "shm" => gen'[z] = gen[z]
      /\ ~new => gen' = gen
      /\ new => gen'["shm"] = gen["shm"] + 1
      /\ has'[p]["shm"] = gen'["shm"] /\ \A z \in Names : z # "shm" => has'[p][z] = has[p][z]
      /\ \A q \in Procs : q # p => has'[q] = has[q]
  <2>1. Opens(p, "shm") BY <1>0, <1>v, <1>2 DEF Opens
  <2> QED BY <1>t, <2>1, OpenGens
<1>4. SemTypes'
  <2>1. linked' \subseteq Names BY <1>0, <1>t DEF SemTypes
  <2> QED BY <1>0, <1>t, <1>2, <1>3, <2>1 DEF SemTypes
<1>5. SemPc' BY <1>0, <1>v, <1>2, Two DEF SemInv, SemPc
<1>6. RoundsLeft'
  <2>1. n[p] = Rounds /\ Rounds >= 1 BY <1>0, SemAssumption DEF SemInv, RoundsLeft
  <2> QED BY <1>0, <1>2, <2>1 DEF SemInv, RoundsLeft
<1>7. RecordsKnown' BY <1>0 DEF SemInv, RecordsKnown
<1>8. Calm'
  <2> SUFFICES ASSUME ~disturbed PROVE (Present /\ Tokens /\ Handed)' BY <1>0 DEF Calm
  <2>0. Present /\ Tokens /\ Handed BY DEF SemInv
  <2>p. /\ \A q \in Procs, x \in Names :
             (named \/ (q = "reader" /\ x = "shm")) /\ spc[q] \in SemOpened(x)
               => x \in linked /\ has[q][x] = gen[x]
        /\ spc["reader"] \notin {"rm_sem_r", "rm_sem_w"}
    BY <1>0, <2>0, Two DEF Present
  <2>1. Present'
    <3> SUFFICES ASSUME NEW q \in Procs, NEW x \in Names,
                        named \/ (q = "reader" /\ x = "shm"), spc'[q] \in SemOpened(x)
                 PROVE  x \in linked' /\ has'[q][x] = gen'[x]
      <4>1. spc'["reader"] \notin {"rm_sem_r", "rm_sem_w"} BY <1>v, <1>2, <2>p, Two
      <4> QED BY <1>0, <4>1 DEF Present
    <3>1. CASE q = p /\ x = "shm" BY <1>0, <1>3, <3>1
    <3>2. CASE q = p /\ x # "shm"
      <4>1. spc[p] \in SemOpened(x) BY <1>0, <3>2 DEF SemOpened, Names, Sems
      <4>2. x \in linked /\ has[p][x] = gen[x] BY <2>p, <3>2, <4>1
      <4> QED BY <1>0, <1>3, <3>2, <4>2
    <3>3. CASE q # p
      <4>1. x \in linked /\ has[q][x] = gen[x] BY <1>2, <2>p, <3>3
      <4>2. gen'[x] = gen[x] BY <1>3, <4>1
      <4> QED BY <1>0, <1>3, <3>3, <4>1, <4>2
    <3> QED BY <3>1, <3>2, <3>3
  <2>2. In("writer")' = In("writer") /\ In("reader")' = In("reader")
        /\ In("writer") \in 0 .. 1 /\ In("reader") \in 0 .. 1
    <3>1. In(p)' = 0 /\ In(p) = 0 BY <1>0, <1>v, <1>2 DEF In, Inside
    <3>2. \A q \in Procs : q # p => In(q)' = In(q) BY <1>2 DEF In
    <3> QED BY <3>1, <3>2, Two DEF In
  <2>3. /\ Cur("sem_r") \in Sems \X Gens /\ Cur("sem_w") \in Sems \X Gens
        /\ val[Cur("sem_r")] \in Nat /\ val[Cur("sem_w")] \in Nat /\ gen["shm"] \in Nat
    BY <1>t, Currents DEF Gens
  <2>4. named \/ ~new => Cur("sem_r")' = Cur("sem_r") /\ Cur("sem_w")' = Cur("sem_w")
    <3>1. "sem_r" \in Names /\ "sem_w" \in Names BY DEF Names, Sems
    <3> QED BY <1>0, <1>3, <3>1 DEF Cur
  <2>5. new => spc["reader"] \notin Inside
    <3>1. spc["reader"] \in Inside => spc["reader"] \in SemOpened("shm") BY DEF SemOpened, Ready
    <3> QED BY <1>t, <2>p, <3>1, Two
  <2>6. new => val[Cur("sem_r")'] = 0
    <3>1. CASE ~named /\ new
      <4>1. gen'["shm"] > gen["shm"] /\ gen'["shm"] \in Gens BY <1>3, <1>t, <2>3, <3>1
      <4>2. val[<<"sem_r", gen'["shm"]>>] = 0 BY <2>0, <3>1, <4>1 DEF Tokens, Unborn, Sems
      <4> QED BY <1>0, <3>1, <4>2 DEF Cur
    <3>2. CASE named /\ new
      <4>1. "sem_r" \in linked BY <1>0, <2>p, <3>2 DEF SemOpened, Names, Sems
      <4>2. val[Cur("sem_r")] = 0 BY <2>0, <2>p, <3>2, <4>1 DEF Tokens, NothingYet
      <4> QED BY <2>4, <3>2, <4>2
    <3> QED BY <3>1, <3>2
  <2>7. ~named => spc'[p] = "init_r" BY <1>v, <1>2
  <2>8. p # "writer" => /\ has'["writer"]["shm"] = has["writer"]["shm"]
                        /\ spc'["writer"] = spc["writer"]
                        /\ new => has'["writer"]["shm"] # gen'["shm"]
    <3>1. has["writer"]["shm"] <= gen["shm"] /\ has["writer"]["shm"] \in Nat
      BY <1>t, Two DEF SemInv, GensLeft, SemTypes, Gens
    <3> QED BY <1>2, <1>3, <2>3, <3>1, Two
  <2>9. ~named /\ spc'["writer"] \in {"init_w"} \cup Ready => p # "writer"
    BY <2>7 DEF Ready, Inside
  <2>10. OneTurn' /\ ReaderTurn'
    <3>1. ReaderTurn'
      <4>1. CASE new BY <1>0, <2>2, <2>5, <2>6, <4>1 DEF ReaderTurn, In
      <4>2. CASE ~new BY <1>0, <2>0, <2>2, <2>4, <4>2 DEF Tokens, ReaderTurn
      <4> QED BY <4>1, <4>2
    <3>2. OneTurn'
      <4>1. CASE named BY <1>0, <2>0, <2>2, <2>4, <4>1 DEF Tokens, OneTurn
      <4>2. CASE ~named
        <5>1. OnCurrent' => ~new /\ OnCurrent BY <1>3, <2>8, <2>9, <4>2 DEF OnCurrent
        <5> QED BY <1>0, <2>0, <2>2, <2>4, <4>2, <5>1 DEF Tokens, OneTurn
      <4> QED BY <4>1, <4>2
    <3> QED BY <3>1, <3>2
  <2>11. NothingYet'
    <3>1. named => "sem_w" \in linked BY <1>0, <2>p DEF SemOpened, Names, Sems
    <3> QED BY <1>0, <3>1 DEF NothingYet
  <2>12. FirstRound'
    <3> SUFFICES ASSUME ~named, spc'["writer"] \in {"init_w"} \cup Ready, n["writer"] = Rounds,
                        has'["writer"]["shm"] = gen'["shm"]
                 PROVE  val[Cur("sem_r")'] = 0
      BY <1>0 DEF FirstRound
    <3>1. CASE new BY <2>6, <3>1
    <3>2. CASE ~new BY <1>3, <2>0, <2>4, <2>8, <2>9, <3>2 DEF Tokens, FirstRound
    <3> QED BY <3>1, <3>2
  <2>13. SmallValues' /\ Unborn'
    <3>1. gen'["shm"] \in Nat /\ gen'["shm"] >= gen["shm"] BY <1>3, <2>3
    <3>2. \A g \in Gens : g > gen'["shm"] => g > gen["shm"] BY <2>3, <3>1 DEF Gens
    <3> QED BY <1>0, <2>0, <3>2 DEF Tokens, SmallValues, Unborn
  <2>14. Handed'
    <3>1. spc'[p] \notin {"first", "second", "post"} BY <1>v, <1>2
    <3>2. \A q \in Procs : spc'[q] \in {"first", "second", "post"} => spc'[q] = spc[q] /\ q # p
      BY <1>2, <3>1
    <3>3. CASE new
      <4>1. ~(val'[Cur("sem_r")'] >= 1) BY <1>0, <2>6, <3>3
      <4>2. spc'["reader"] \notin {"first", "second"} BY <2>5, <3>2, <3>3, Two DEF Inside
      <4>3. has'["writer"]["shm"] = gen'["shm"] => spc'["writer"] \notin {"post", "second"}
        BY <2>8, <3>2, <3>3, Two
      <4> QED BY <1>0, <2>0, <4>1, <4>2, <4>3 DEF Handed
    <3>4. CASE ~new
      <4>1. Whole' <=> Whole BY <1>0, <1>3, <3>4 DEF Whole
      <4> QED BY <1>0, <1>3, <2>0, <2>4, <2>8, <3>2, <3>4, <4>1, Two DEF Handed
    <3> QED BY <3>3, <3>4
  <2> QED BY <2>1, <2>10, <2>11, <2>12, <2>13, <2>14 DEF Tokens
<1> QED BY <1>3, <1>4, <1>5, <1>6, <1>7, <1>8 DEF SemInv, Calm

\* A semaphore is initialised, while nobody uses it.
LEMMA InitializeInv ==
  ASSUME SemInv, NEW p \in Procs, NEW sm \in Sems, sem_init(p, sm)
  PROVE  SemInv'
<1> DEFINE y == SemOf(p, sm)
<1>0. /\ spc[p] = (IF sm = "sem_r" THEN "init_r" ELSE "init_w")
      /\ val' = [val EXCEPT ![y] = Initial(sm)]
      /\ spc' = [spc EXCEPT ![p] = After(Opening, spc[p], "wait")]
      /\ disturbed' = (disturbed \/ (has[Peer(p)]["shm"] = has[p]["shm"]
                                     /\ (spc[Peer(p)] \in Inside \/ n[Peer(p)] < Rounds)))
      /\ UNCHANGED <<named, gen, linked, record, n, has, copy, written, received, runs, mixed,
                     killed>>
  BY DEF sem_init
<1>t. SemTypes /\ "shm" \in Names BY DEF SemInv, Names
<1>1. ~named /\ (sm = "sem_r" \/ sm = "sem_w") BY <1>0 DEF SemInv, SemPc, Sems
<1>v. PICK v \in SemPcs : /\ v = After(Opening, spc[p], "wait")
                          /\ v = IF sm = "sem_r" THEN "init_w" ELSE "wait"
  BY <1>0, <1>1, Steps DEF SemPcs
<1>2. /\ spc' \in [Procs -> SemPcs] /\ spc'[p] = v /\ \A q \in Procs : q # p => spc'[q] = spc[q]
  BY Zenon, <1>0, <1>v, <1>t, Moved
<1>h. \A q \in Procs : has[q]["shm"] \in Gens /\ has[q]["shm"] \in Nat /\ has[q]["shm"] <= gen["shm"]
  BY <1>t DEF SemInv, GensLeft, SemTypes, Gens
<1>3. y \in Sems \X Gens /\ y = <<sm, has[p]["shm"]>> BY <1>1, <1>h DEF SemOf
<1> HIDE DEF y
<1>4. /\ Initial(sm) \in Nat /\ (sm = "sem_r" => Initial(sm) = 0) /\ (sm = "sem_w" => Initial(sm) = 1)
      /\ val' \in [Sems \X Gens -> Nat] /\ val'[y] = Initial(sm)
      /\ \A x \in Sems \X Gens : x # y => val'[x] = val[x]
  <2>1. Initial(sm) \in Nat /\ (sm = "sem_r" => Initial(sm) = 0) /\ (sm = "sem_w" => Initial(sm) = 1)
    BY DEF Initial
  <2> QED BY Zenon, <1>0, <1>t, <1>3, <2>1, Set
<1>5. SemTypes'
  <2>1. disturbed' \in BOOLEAN BY <1>0, <1>t DEF SemTypes
  <2> QED BY <1>0, <1>t, <1>2, <1>4, <2>1 DEF SemTypes
<1>6. SemPc' BY <1>0, <1>1, <1>v, <1>2, Two DEF SemInv, SemPc
<1>7. n[p] = Rounds /\ Rounds >= 1 /\ \A q \in Procs : n[q] \in 0 .. Rounds
  BY <1>0, <1>t, SemAssumption DEF SemInv, RoundsLeft, SemTypes
<1>8. RoundsLeft' BY <1>0, <1>2, <1>7 DEF SemInv, RoundsLeft
<1>9. GensLeft' BY <1>0, <1>v, <1>2, GensKept
<1>10. RecordsKnown' BY <1>0 DEF SemInv, RecordsKnown
<1>11. Calm'
  <2> SUFFICES ASSUME ~disturbed,
                      ~(has[Peer(p)]["shm"] = has[p]["shm"]
                          /\ (spc[Peer(p)] \in Inside \/ n[Peer(p)] < Rounds))
               PROVE  (Present /\ Tokens /\ Handed)'
    BY Zenon, <1>0 DEF Calm
  <2>0. Present /\ Tokens /\ Handed BY DEF SemInv
  <2>a. \A q \in Procs : q # p /\ has[q]["shm"] = has[p]["shm"] => spc[q] \notin Inside /\ n[q] = Rounds
    BY <1>7, Two
  <2>b. spc["reader"] \in {"init_r", "init_w"} \cup Inside
          => "shm" \in linked /\ has["reader"]["shm"] = gen["shm"]
    BY <1>t, <2>0, Two DEF Present, SemOpened, Ready
  <2>c. p = "reader" => has[p]["shm"] = gen["shm"] BY <1>0, <2>b
  <2>1. Present'
    <3> SUFFICES ASSUME spc'["reader"] \in SemOpened("shm")
                 PROVE  "shm" \in linked /\ has["reader"]["shm"] = gen["shm"]
      <4>1. spc'["reader"] \notin {"rm_sem_r", "rm_sem_w"} BY <1>1, <1>6, <1>0, Two DEF SemPc
      <4> QED BY <1>0, <1>1, <4>1 DEF Present
    <3>1. CASE p = "reader" BY <1>0, <2>b, <3>1
    <3>2. CASE p # "reader" BY <1>2, <1>t, <2>0, <3>2, Two DEF Present
    <3> QED BY <3>1, <3>2
  <2>2. In("writer")' = In("writer") /\ In("reader")' = In("reader")
        /\ In("writer") \in 0 .. 1 /\ In("reader") \in 0 .. 1 /\ In(p) = 0
    <3>1. In(p)' = 0 /\ In(p) = 0 BY <1>0, <1>v, <1>2 DEF In, Inside
    <3>2. \A q \in Procs : q # p => In(q)' = In(q) BY <1>2 DEF In
    <3> QED BY <3>1, <3>2, Two DEF In
  <2>3. /\ Cur("sem_r")' = Cur("sem_r") /\ Cur("sem_w")' = Cur("sem_w")
        /\ Cur("sem_r") = <<"sem_r", gen["shm"]>> /\ Cur("sem_w") = <<"sem_w", gen["shm"]>>
    BY <1>0, <1>1 DEF Cur
  <2>4. /\ Cur("sem_r") \in Sems \X Gens /\ Cur("sem_w") \in Sems \X Gens
        /\ val[Cur("sem_r")] \in Nat /\ val[Cur("sem_w")] \in Nat /\ gen["shm"] \in Nat
    BY <1>t, Currents DEF Gens
  <2>5. /\ has[p]["shm"] = gen["shm"] =>
             /\ sm = "sem_r" => y = Cur("sem_r") /\ y # Cur("sem_w")
             /\ sm = "sem_w" => y = Cur("sem_w") /\ y # Cur("sem_r")
        /\ has[p]["shm"] # gen["shm"] => y # Cur("sem_r") /\ y # Cur("sem_w")
    BY <1>3, <2>3
  <2>6. /\ val'[Cur("sem_r")] = IF sm = "sem_r" /\ has[p]["shm"] = gen["shm"]
                                THEN 0 ELSE val[Cur("sem_r")]
        /\ val'[Cur("sem_w")] = IF sm = "sem_w" /\ has[p]["shm"] = gen["shm"]
                                THEN 1 ELSE val[Cur("sem_w")]
    BY <1>1, <1>4, <2>4, <2>5
  <2>7. ReaderTurn' BY <2>0, <2>2, <2>3, <2>4, <2>6 DEF Tokens, ReaderTurn
  <2>8. \* The first initialisation of the other semaphore found the first one zero.
        sm = "sem_w" /\ has[p]["shm"] = gen["shm"] /\ OnCurrent' =>
          val[Cur("sem_r")] = 0 /\ In("writer") = 0 /\ In("reader") = 0
    <3> SUFFICES ASSUME sm = "sem_w", has[p]["shm"] = gen["shm"], OnCurrent'
                 PROVE  val[Cur("sem_r")] = 0 /\ In("writer") = 0 /\ In("reader") = 0
      OBVIOUS
    <3>0. has["writer"]["shm"] = gen["shm"] BY <1>0 DEF OnCurrent
    <3>1. CASE p = "writer"
      <4>1. val[Cur("sem_r")] = 0 BY <1>0, <1>1, <1>7, <2>0, <3>0, <3>1 DEF Tokens, FirstRound
      <4>2. spc["reader"] \notin Inside BY <2>a, <2>b, <3>0, <3>1, Two
      <4> QED BY <2>2, <3>1, <4>1, <4>2 DEF In
    <3>2. CASE p = "reader"
      <4>1. spc["writer"] \notin Inside /\ n["writer"] = Rounds BY <2>a, <3>0, <3>2, Two
      <4>2. spc["writer"] \in Ready BY <1>2, <3>2, Two DEF OnCurrent
      <4>3. val[Cur("sem_r")] = 0 BY <1>1, <2>0, <3>0, <4>1, <4>2 DEF Tokens, FirstRound
      <4> QED BY <2>2, <3>2, <4>1, <4>3 DEF In
    <3> QED BY <3>1, <3>2, Two
  <2>9. OneTurn'
    <3> SUFFICES ASSUME OnCurrent'
                 PROVE  val'[Cur("sem_r")] + val'[Cur("sem_w")] + In("writer") + In("reader") <= 1
      BY <1>0, <1>1, <2>2, <2>3 DEF OneTurn
    <3>1. CASE sm = "sem_w" /\ has[p]["shm"] = gen["shm"] BY <2>6, <2>8, <3>1
    <3>2. CASE ~(sm = "sem_w" /\ has[p]["shm"] = gen["shm"])
      <4>1. p # "writer"
        BY <1>0, <1>1, <1>v, <1>2, <3>2 DEF OnCurrent, Ready, Inside
      <4>2. OnCurrent BY <1>0, <1>2, <4>1, Two DEF OnCurrent
      <4> QED BY <1>1, <2>0, <2>2, <2>4, <2>6, <3>2, <4>2 DEF Tokens, OneTurn
    <3> QED BY <3>1, <3>2
  <2>10. FirstRound'
    <3> SUFFICES ASSUME spc'["writer"] \in {"init_w"} \cup Ready, n["writer"] = Rounds,
                        has["writer"]["shm"] = gen["shm"]
                 PROVE  val'[Cur("sem_r")] = 0
      BY <1>0, <2>3 DEF FirstRound
    <3>1. CASE sm = "sem_r" /\ has[p]["shm"] = gen["shm"] BY <2>6, <3>1
    <3>2. CASE ~(sm = "sem_r" /\ has[p]["shm"] = gen["shm"])
      <4>1. spc["writer"] \in {"init_w"} \cup Ready BY <1>0, <1>1, <1>2, <3>2, Two
      <4> QED BY <1>1, <2>0, <2>6, <3>2, <4>1 DEF Tokens, FirstRound
    <3> QED BY <3>1, <3>2
  <2>11. SmallValues' /\ NothingYet' BY <1>0, <1>1 DEF SmallValues, NothingYet
  <2>12. Unborn'
    <3> SUFFICES ASSUME NEW r \in Sems, NEW g \in Gens, g > gen["shm"] PROVE val'[<<r, g>>] = 0
      BY <1>0, <1>1 DEF Unborn
    <3>1. g # has[p]["shm"] /\ g \in Nat BY <1>h, <2>4 DEF Gens
    <3>2. <<r, g>> # y /\ <<r, g>> \in Sems \X Gens BY <1>3, <3>1
    <3>3. val[<<r, g>>] = 0 BY <1>1, <2>0 DEF Tokens, Unborn
    <3> QED BY <1>4, <3>2, <3>3
  <2>13. Handed'
    <3>1. Whole' <=> Whole BY <1>0 DEF Whole
    <3>2. spc'[p] \notin {"first", "second", "post"} BY <1>v, <1>2
    <3>3. \A q \in Procs : spc'[q] \in {"first", "second", "post"} => spc'[q] = spc[q]
      BY <1>2, <3>2
    <3>4. val'[Cur("sem_r")] >= 1 => val[Cur("sem_r")] >= 1 BY <2>6
    <3> QED BY <1>0, <2>0, <2>3, <3>1, <3>3, <3>4, Two DEF Handed
  <2> QED BY <2>1, <2>7, <2>9, <2>10, <2>11, <2>12, <2>13 DEF Tokens
<1> QED BY <1>5, <1>6, <1>8, <1>9, <1>10, <1>11 DEF SemInv, Calm

LEMMA SemNextInv == SemInv /\ [SemNext]_semVars => SemInv'
<1> SUFFICES ASSUME SemInv, [SemNext]_semVars PROVE SemInv' OBVIOUS
<1>1. ASSUME NEW p \in Procs, proc(p) PROVE SemInv'
  <2>1. CASE \E sm \in Sems : sem_open(p, sm) \/ sem_init(p, sm) BY <2>1, OpenInv, InitializeInv
  <2>2. CASE shmget(p) BY <2>2, ShmgetInv
  <2>3. CASE sem_wait(p) BY <2>3, WaitInv
  <2>4. CASE sem_post(p) BY <2>4, PostInv
  <2>5. CASE \E f \in {"name", "age"} : write(f) BY <2>5, WriteInv
  <2>6. CASE \E f \in {"name", "age"} : read(f) BY <2>6, ReadInv
  <2>7. CASE \E x \in Names : remove(x) BY <2>7, RemoveInv
  <2> QED BY <1>1, <2>1, <2>2, <2>3, <2>4, <2>5, <2>6, <2>7 DEF proc
<1>2. CASE SemNext
  <2>1. PICK p \in Procs : start(p) \/ proc(p) \/ kill_process(p) BY <1>2 DEF SemNext
  <2> QED BY <1>1, <2>1, StartInv, KillProcessInv
<1>3. CASE UNCHANGED semVars
  <2>1. /\ SemTypes' = SemTypes /\ SemPc' = SemPc /\ RoundsLeft' = RoundsLeft
        /\ GensLeft' = GensLeft /\ RecordsKnown' = RecordsKnown
    BY <1>3 DEF semVars, SemTypes, SemPc, RoundsLeft, GensLeft, ToOpen, RecordsKnown
  <2>2. Present' = Present BY <1>3 DEF semVars, Present
  <2>3. Tokens' = Tokens
    BY <1>3 DEF semVars, Tokens, OneTurn, OnCurrent, ReaderTurn, SmallValues, NothingYet,
                FirstRound, Unborn, Cur, In
  <2>4. Handed' = Handed BY <1>3 DEF semVars, Handed, Whole, Cur
  <2>5. disturbed' = disturbed BY <1>3 DEF semVars
  <2> QED BY <2>1, <2>2, <2>3, <2>4, <2>5 DEF SemInv
<1> QED BY <1>2, <1>3

\* The invariant gives what the runs check.
LEMMA SemInvSafe == SemInv => SemTypeOK /\ SemExclusive /\ RecordsWhole
<1> SUFFICES ASSUME SemInv PROVE SemTypeOK /\ SemExclusive /\ RecordsWhole OBVIOUS
<1>t. SemTypes BY DEF SemInv
<1>1. SemTypeOK
  <2>1. \A g \in Gens : record[g].name \in 0 .. written + 1 /\ record[g].age \in 0 .. written
    <3> SUFFICES ASSUME NEW g \in Gens
                 PROVE  record[g].name \in 0 .. written + 1 /\ record[g].age \in 0 .. written
      OBVIOUS
    <3>1. record[g].name \in Nat /\ record[g].age \in Nat /\ written \in Nat BY <1>t DEF SemTypes
    <3>2. record[g].name <= written + 1 /\ record[g].age <= written BY DEF SemInv, RecordsKnown
    <3> QED BY <3>1, <3>2
  <2>2. \A p \in Procs : /\ n[p] \in 0 .. Rounds /\ has[p] \in [Names -> Gens]
                         /\ runs[p] \in 0 .. MaxRuns
    BY <1>t DEF SemTypes
  <2>3. ~(disturbed \/ killed) /\ named => \A x \in Sems \X Gens : val[x] <= 1
    BY DEF SemInv, Tokens, SmallValues
  <2> QED BY <1>t, <2>1, <2>2, <2>3 DEF SemTypes, SemTypeOK
<1>2. SemExclusive
  <2> SUFFICES ASSUME \A p \in Procs : spc[p] \in Inside,
                      has["writer"]["shm"] = has["reader"]["shm"], ~disturbed
               PROVE  FALSE
    BY DEF SemExclusive
  <2>1. spc["writer"] \in Inside /\ spc["reader"] \in Inside BY Two
  <2>2. has["reader"]["shm"] = gen["shm"]
    BY <2>1, Two DEF SemInv, Present, SemOpened, Ready, Names
  <2>3. named \/ OnCurrent BY <2>1, <2>2 DEF OnCurrent, Ready
  <2>4. val[Cur("sem_r")] + val[Cur("sem_w")] + In("writer") + In("reader") <= 1
    BY <2>3 DEF SemInv, Tokens, OneTurn
  <2>5. In("writer") = 1 /\ In("reader") = 1 BY <2>1 DEF In
  <2>6. val[Cur("sem_r")] \in Nat /\ val[Cur("sem_w")] \in Nat BY <1>t, Currents
  <2> QED BY <2>4, <2>5, <2>6
<1>3. RecordsWhole BY <1>t DEF SemInv, Handed, RecordsWhole, SemTypes
<1> QED BY <1>1, <1>2, <1>3

\* However often the writer and the reader are run and killed, in either program,
\* they are never both at work on one piece of memory and the reader receives only
\* whole records, each newer than the last, unless semaphores were initialised in
\* use or the removal of the names was disturbed (shmWrite.cpp, shmRead.cpp).
THEOREM HandOffSafe == SemSpec => [](SemTypeOK /\ SemExclusive /\ RecordsWhole)
<1>1. SemSpec => []SemInv BY SemInitInv, SemNextInv, PTL DEF SemSpec
<1> QED BY <1>1, SemInvSafe, PTL

-----------------------------------------------------------------------------
(* A file split among child processes (SplitMdFile)                          *)

SplitSpec == SplitInit /\ [][SplitNext]_splitVars

SplitTypes ==
  /\ lines \in Files /\ lines \in Seq([ins : Instruments, letters : BOOLEAN])
  /\ next \in 1 .. Len(lines) + 1
  /\ pstep \in {"length", "text", "stop", "stoptext", "done", "killed"}
  /\ mapPipe \subseteq Instruments /\ stopped \subseteq mapPipe
  /\ pipe \in [Instruments -> Seq(Int)]
  /\ child \in [Instruments -> {"none", "forked", "length", "text", "ended", "garbage"}]
  /\ line \in [Instruments -> 0 .. Len(lines)] /\ dstFile \in [Instruments -> Seq(Nat)]
  /\ splitSlips \subseteq {"full", "early", "letters", "fails"}
  /\ \A i \in Instruments : Len(pipe[i]) <= Capacity /\ (child[i] = "none" <=> i \notin mapPipe)

\* Where the parent is in the file and among the children.
ParentAt ==
  /\ pstep \in {"length", "text"} => next <= Len(lines) /\ stopped = {}
  /\ pstep = "text" => Ins \in mapPipe
  /\ pstep \in {"stop", "stoptext", "done"} => next = Len(lines) + 1
  /\ pstep = "stoptext" => target \in stopped
  /\ pstep = "done" => \A i \in mapPipe : child[i] = "ended"

\* The lines of i among the first m.
Own(i, m) == {k \in 1 .. m : lines[k].ins = i}

\* A child is forked at the first line of its instrument that did not fail, and
\* writes only that.
FirstLines ==
  \A i \in Instruments :
    /\ i \notin mapPipe => /\ pipe[i] = <<>> /\ dstFile[i] = <<>>
                           /\ "fails" \notin splitSlips => Own(i, next - 1) = {}
    /\ i \in mapPipe => /\ line[i] \in Own(i, Len(lines))
                        /\ "fails" \notin splitSlips =>
                             \A k \in Own(i, Len(lines)) : line[i] <= k
    /\ \A k \in 1 .. Len(dstFile[i]) : dstFile[i][k] = line[i]

\* The parent has written a length to i and not yet the text; it has written the
\* stop message; the child has read a length and not yet the text.
Pending(i) ==
  IF (pstep = "text" /\ Ins = i) \/ (pstep = "stoptext" /\ target = i) THEN 1 ELSE 0
Told(i) == IF i \in stopped /\ Pending(i) = 0 THEN 1 ELSE 0
Expects(i) == IF child[i] = "text" THEN 1 ELSE 0
Due(i) == Cardinality(Own(i, next - 1)) + Told(i)

\* Lengths and texts take turns in a pipe q, every text written is in the file or in
\* the pipe, and the stop message is the last.  Of the u texts written the child has
\* handled d; x and p (0 or 1) say that it, and the parent, are between a length and a
\* text, and t that the parent has written the stop message.
Balance(d, c, x, u, p) == d + d + c + x = u + u + p
Stream(q, d, x, u, p, t) ==
  /\ Balance(d, Len(q), x, u, p)
  /\ \A k \in 1 .. Len(q) : /\ q[k] = ALength <=> (k + x) % 2 = 1
                            /\ q[k] = Stop => k = Len(q) /\ t = 1
  /\ t = 1 => q # <<>> /\ q[Len(q)] = Stop

Flows(i) ==
  /\ child[i] # "garbage"
  /\ child[i] = "ended" =>
       Told(i) = 1 /\ pipe[i] = <<>> /\ Len(dstFile[i]) = Cardinality(Own(i, next - 1))
  /\ child[i] # "ended" =>
       Stream(pipe[i], Len(dstFile[i]), Expects(i), Due(i), Pending(i), Told(i))

SplitInv ==
  /\ SplitTypes /\ ParentAt /\ FirstLines
  /\ splitSlips = {} => \A i \in Instruments : Flows(i)

-----------------------------------------------------------------------------
LEMMA Parity ==
  /\ \A a \in Nat : (a + 1) % 2 = 1 <=> a % 2 # 1
  /\ \A a, b, c \in Nat, e \in 0 .. 1 : a + a + b = c + c + e => (b % 2 = 1 <=> e = 1)
OBVIOUS

LEMMA OwnLines ==
  ASSUME NEW i, NEW m \in Nat
  PROVE  /\ IsFiniteSet(Own(i, m)) /\ Cardinality(Own(i, m)) \in Nat
         /\ lines[m + 1].ins = i =>
              /\ Own(i, m + 1) = Own(i, m) \cup {m + 1}
              /\ Cardinality(Own(i, m + 1)) = Cardinality(Own(i, m)) + 1
         /\ lines[m + 1].ins # i => Own(i, m + 1) = Own(i, m)
<1>1. Own(i, m) \subseteq 1 .. m BY DEF Own
<1>2. IsFiniteSet(1 .. m) BY FS_Interval
<1>3. IsFiniteSet(Own(i, m)) BY <1>1, <1>2, FS_Subset
<1>4. Cardinality(Own(i, m)) \in Nat BY <1>3, FS_CardinalityType
<1>5. \A k \in 1 .. m + 1 : k \in 1 .. m \/ k = m + 1 OBVIOUS
<1>6. m + 1 \in 1 .. m + 1 /\ m + 1 \notin 1 .. m /\ \A k \in 1 .. m : k \in 1 .. m + 1 OBVIOUS
<1>7. lines[m + 1].ins = i => Own(i, m + 1) = Own(i, m) \cup {m + 1} BY <1>5, <1>6 DEF Own
<1>8. lines[m + 1].ins # i => Own(i, m + 1) = Own(i, m) BY <1>5, <1>6 DEF Own
<1>9. m + 1 \notin Own(i, m) BY <1>1, <1>6
<1>10. Cardinality(Own(i, m) \cup {m + 1}) = Cardinality(Own(i, m)) + 1
  BY <1>3, <1>9, FS_AddElement
<1> QED BY <1>3, <1>4, <1>7, <1>8, <1>10

\* The numbers that Flows is about.
LEMMA FlowNumbers ==
  ASSUME SplitTypes, NEW i \in Instruments
  PROVE  /\ Len(pipe[i]) \in Nat /\ Len(dstFile[i]) \in Nat /\ pipe[i] \in Seq(Int)
         /\ Expects(i) \in 0 .. 1 /\ Pending(i) \in 0 .. 1 /\ Due(i) \in Nat /\ Told(i) \in 0 .. 1
         /\ Cardinality(Own(i, next - 1)) \in Nat /\ next - 1 \in Nat /\ Len(lines) \in Nat
<1>1. /\ pipe[i] \in Seq(Int) /\ dstFile[i] \in Seq(Nat) /\ Len(lines) \in Nat
      /\ next \in 1 .. Len(lines) + 1
  BY DEF SplitTypes
<1>2. Len(pipe[i]) \in Nat /\ Len(dstFile[i]) \in Nat /\ next - 1 \in Nat BY <1>1
<1>3. Cardinality(Own(i, next - 1)) \in Nat BY <1>2, OwnLines
<1>4. Expects(i) \in 0 .. 1 /\ Pending(i) \in 0 .. 1 /\ Told(i) \in 0 .. 1
  BY DEF Expects, Pending, Told
<1>5. Due(i) \in Nat BY <1>3, <1>4 DEF Due
<1> QED BY <1>1, <1>2, <1>3, <1>4, <1>5

\* A child that nothing happens to, or that is only forked.
LEMMA FlowsKept ==
  ASSUME NEW i \in Instruments, Flows(i), pipe'[i] = pipe[i],
         \/ child'[i] = child[i]
         \/ child[i] = "none" /\ child'[i] = "forked"
         \/ child[i] = "forked" /\ child'[i] = "length",
         dstFile'[i] = dstFile[i], Own(i, next - 1)' = Own(i, next - 1),
         Told(i)' = Told(i), Pending(i)' = Pending(i)
  PROVE  Flows(i)'
<1>1. Expects(i)' = Expects(i) BY DEF Expects
<1>2. Due(i)' = Due(i) BY DEF Due
<1> QED BY <1>1, <1>2 DEF Flows

\* How a message written, and one read, moves the two sides of the count in Stream.
LEMMA Counts ==
  ASSUME NEW d \in Nat, NEW c \in Nat, NEW x \in 0 .. 1, NEW u \in Nat, NEW p \in 0 .. 1,
         Balance(d, c, x, u, p)
  PROVE  /\ p = 0 => Balance(d, c + 1, x, u, 1)
         /\ p = 1 => Balance(d, c + 1, x, u + 1, 0)
         /\ x = 0 => Balance(d, c - 1, 1, u, p)
         /\ x = 1 => Balance(d + 1, c - 1, 0, u, p)
BY DEF Balance

LEMMA WhoseTurn ==
  ASSUME NEW d \in Nat, NEW c \in Nat, NEW x \in 0 .. 1, NEW u \in Nat, NEW p \in 0 .. 1,
         Balance(d, c, x, u, p)
  PROVE  (c + 1 + x) % 2 = 1 <=> p = 0
<1>1. PICK a \in Nat : a = c + x OBVIOUS
<1>2. d + d + a = u + u + p BY <1>1 DEF Balance
<1>3. a % 2 = 1 <=> p = 1 BY <1>1, <1>2, Parity
<1>4. (a + 1) % 2 = 1 <=> a % 2 # 1 BY Parity
<1>5. a + 1 = c + 1 + x BY <1>1
<1>6. p = 0 \/ p = 1 OBVIOUS
<1> QED BY <1>3, <1>4, <1>5, <1>6

\* A length is written, then the text.
LEMMA StreamPut ==
  ASSUME NEW q \in Seq(Int), NEW d \in Nat, NEW x \in 0 .. 1, NEW u \in Nat, NEW p \in 0 .. 1,
         Stream(q, d, x, u, p, 0), NEW e \in Int, e = ALength <=> p = 0
  PROVE  /\ p = 0 => Stream(Append(q, e), d, x, u, 1, 0)
         /\ p = 1 => Stream(Append(q, e), d, x, u + 1, 0, IF e = Stop THEN 1 ELSE 0)
<1>1. /\ Append(q, e) # <<>> /\ Len(q) \in Nat /\ Len(Append(q, e)) = Len(q) + 1
      /\ \A k \in 1 .. Len(q) : Append(q, e)[k] = q[k]
      /\ Append(q, e)[Len(q) + 1] = e
      /\ \A k \in 1 .. Len(q) + 1 : k \in 1 .. Len(q) \/ k = Len(q) + 1
  BY Appended
<1>2. /\ Balance(d, Len(q), x, u, p)
      /\ \A k \in 1 .. Len(q) : q[k] = ALength <=> (k + x) % 2 = 1
      /\ \A k \in 1 .. Len(q) : q[k] # Stop
  BY DEF Stream
<1>3. e = ALength <=> (Len(q) + 1 + x) % 2 = 1
  <2>1. PICK c \in Nat : c = Len(q) BY <1>1
  <2>2. Balance(d, c, x, u, p) BY <1>2, <2>1
  <2>3. (c + 1 + x) % 2 = 1 <=> p = 0 BY Zenon, <2>2, WhoseTurn
  <2> QED BY <2>1, <2>3
<1>4. \A k \in 1 .. Len(q) + 1 : Append(q, e)[k] = ALength <=> (k + x) % 2 = 1
  BY Zenon, <1>1, <1>2, <1>3
<1>5. \A k \in 1 .. Len(q) + 1 : Append(q, e)[k] = Stop => k = Len(q) + 1 /\ e = Stop
  BY Zenon, <1>1, <1>2
<1>6. /\ p = 0 => Balance(d, Len(q) + 1, x, u, 1)
      /\ p = 1 => Balance(d, Len(q) + 1, x, u + 1, 0)
  BY <1>1, <1>2, Counts
<1>7. p = 0 => e # Stop BY DEF ALength, Stop
<1>8. ASSUME p = 0 PROVE Stream(Append(q, e), d, x, u, 1, 0)
  BY <1>1, <1>4, <1>5, <1>6, <1>7, <1>8 DEF Stream
<1>9. ASSUME p = 1 PROVE Stream(Append(q, e), d, x, u + 1, 0, IF e = Stop THEN 1 ELSE 0)
  BY <1>1, <1>4, <1>5, <1>6, <1>9 DEF Stream
<1> QED BY <1>8, <1>9

\* The child reads a length, then the text.
LEMMA StreamTake ==
  ASSUME NEW q \in Seq(Int), NEW d \in Nat, NEW x \in 0 .. 1, NEW u \in Nat, NEW p \in 0 .. 1,
         NEW t \in 0 .. 1, Stream(q, d, x, u, p, t), q # <<>>
  PROVE  /\ x = 0 => Head(q) = ALength /\ Stream(Tail(q), d, 1, u, p, t)
         /\ x = 1 /\ Head(q) # Stop => Head(q) # ALength /\ Stream(Tail(q), d + 1, 0, u, p, t)
         /\ x = 1 /\ Head(q) = Stop => t = 1 /\ Tail(q) = <<>> /\ (p = 0 => d + 1 = u)
<1>1. PICK w \in Seq(Int), h \in Int, c \in Nat :
        /\ w = Tail(q) /\ h = Head(q) /\ c = Len(q) /\ c >= 1 /\ Len(w) = c - 1 /\ h = q[1]
        /\ \A k \in 1 .. c - 1 : w[k] = q[k + 1] /\ k + 1 \in 1 .. c
  <2>1. /\ Tail(q) \in Seq(Int) /\ Len(q) \in Nat /\ Len(q) >= 1 /\ Len(Tail(q)) = Len(q) - 1
        /\ Head(q) = q[1] /\ q[1] \in Int
        /\ \A k \in 1 .. Len(q) - 1 : Tail(q)[k] = q[k + 1] /\ k + 1 \in 1 .. Len(q)
    BY Tailed
  <2> QED BY <2>1, Zenon
<1>2. /\ Balance(d, c, x, u, p)
      /\ \A k \in 1 .. c : q[k] = ALength <=> (k + x) % 2 = 1
      /\ \A k \in 1 .. c : q[k] = Stop => k = c /\ t = 1
      /\ t = 1 => q[c] = Stop
  BY <1>1, Zenon DEF Stream
<1>3. h = ALength <=> x = 0
  <2>1. (1 + 0) % 2 = 1 /\ (1 + 1) % 2 # 1 OBVIOUS
  <2>2. 1 \in 1 .. c BY <1>1
  <2>3. q[1] = ALength <=> (1 + x) % 2 = 1 BY <1>2, <2>2, Zenon
  <2>4. x = 0 \/ x = 1 OBVIOUS
  <2> QED BY <1>1, <2>1, <2>3, <2>4, Zenon
<1>4. ASSUME h # Stop
      PROVE  /\ \A k \in 1 .. c - 1 : w[k] = Stop => k = c - 1 /\ t = 1
             /\ t = 1 => w # <<>> /\ w[c - 1] = Stop
  <2>1. ASSUME NEW k \in 1 .. c - 1, w[k] = Stop PROVE k = c - 1 /\ t = 1
    <3>1. k + 1 = c /\ t = 1 BY <1>1, <1>2, <2>1, Zenon
    <3> QED BY <3>1
  <2>2. ASSUME t = 1 PROVE w # <<>> /\ w[c - 1] = Stop
    <3>1. q[c] = Stop /\ c # 1 BY <1>1, <1>2, <1>4, <2>2, Zenon
    <3>2. c - 1 \in 1 .. c - 1 /\ (c - 1) + 1 = c /\ Len(w) # 0 BY <1>1, <3>1
    <3>3. w[c - 1] = q[c] BY <1>1, <3>2, Zenon
    <3>4. w # <<>> BY <3>2
    <3> QED BY <3>1, <3>3, <3>4, Zenon
  <2> QED BY <2>1, <2>2, Zenon
<1>5. \A k \in 1 .. c - 1 : w[k] = ALength <=> (k + 1 + x) % 2 = 1 BY <1>1, <1>2, Zenon
<1>6. ASSUME x = 0 PROVE h = ALength /\ Stream(w, d, 1, u, p, t)
  <2>1. h # Stop BY <1>3, <1>6 DEF ALength, Stop
  <2>2. Balance(d, c - 1, 1, u, p) BY Zenon, <1>2, <1>6, Counts
  <2>3. \A k \in 1 .. c - 1 : k + 1 + x = k + 1 BY <1>6
  <2>4. \A k \in 1 .. c - 1 : w[k] = ALength <=> (k + 1) % 2 = 1 BY <1>5, <2>3, Zenon
  <2> QED BY <1>1, <1>3, <1>4, <1>6, <2>1, <2>2, <2>4, Zenon DEF Stream
<1>7. ASSUME x = 1, h # Stop PROVE h # ALength /\ Stream(w, d + 1, 0, u, p, t)
  <2>1. Balance(d + 1, c - 1, 0, u, p) BY Zenon, <1>2, <1>7, Counts
  <2>2. \A k \in 1 .. c - 1 : (k + 1 + x) % 2 = (k + 0) % 2 BY <1>7
  <2>3. \A k \in 1 .. c - 1 : w[k] = ALength <=> (k + 0) % 2 = 1 BY <1>5, <2>2, Zenon
  <2>4. Stream(w, d + 1, 0, u, p, t) BY <1>1, <1>4, <1>7, <2>1, <2>3, Zenon DEF Stream
  <2> QED BY <1>3, <1>7, <2>4
<1>8. ASSUME x = 1, h = Stop PROVE t = 1 /\ w = <<>> /\ (p = 0 => d + 1 = u)
  <2>1. 1 \in 1 .. c BY <1>1
  <2>2. 1 = c /\ t = 1 BY <1>1, <1>2, <1>8, <2>1, Zenon
  <2>3. Len(w) = 0 BY <1>1, <2>2
  <2>4. w = <<>> BY <2>3
  <2>5. Balance(d, 1, 1, u, p) BY <1>2, <1>8, <2>2, Zenon
  <2>6. p = 0 => d + 1 = u BY <2>5 DEF Balance
  <2> QED BY <2>2, <2>4, <2>6
<1> QED BY <1>1, <1>6, <1>7, <1>8, Zenon

\* A length, or the text after it, is written to the pipe of i.
LEMMA FlowsPut ==
  ASSUME SplitTypes, NEW i \in Instruments, Flows(i), Told(i) = 0, NEW msg \in Int,
         msg = ALength <=> Pending(i) = 0,
         pipe'[i] = Append(pipe[i], msg), child'[i] = child[i], dstFile'[i] = dstFile[i],
         Pending(i) = 0 => Pending(i)' = 1 /\ Due(i)' = Due(i) /\ Told(i)' = 0,
         Pending(i) = 1 => /\ Pending(i)' = 0 /\ Due(i)' = Due(i) + 1
                           /\ Told(i)' = IF msg = Stop THEN 1 ELSE 0
  PROVE  Flows(i)'
<1>1. child[i] # "garbage" /\ child[i] # "ended" BY DEF Flows
<1>2. Expects(i)' = Expects(i) BY DEF Expects
<1>3. Stream(pipe[i], Len(dstFile[i]), Expects(i), Due(i), Pending(i), 0) BY <1>1 DEF Flows
<1>4. PICK q \in Seq(Int), d \in Nat, x \in 0 .. 1, u \in Nat, p \in 0 .. 1 :
        q = pipe[i] /\ d = Len(dstFile[i]) /\ x = Expects(i) /\ u = Due(i) /\ p = Pending(i)
  BY Zenon, FlowNumbers
<1>5. Stream(q, d, x, u, p, 0) BY <1>3, <1>4
<1>6. /\ p = 0 => Stream(Append(q, msg), d, x, u, 1, 0)
      /\ p = 1 => Stream(Append(q, msg), d, x, u + 1, 0, IF msg = Stop THEN 1 ELSE 0)
  BY <1>4, <1>5, StreamPut
<1>7. Stream(pipe[i], Len(dstFile[i]), Expects(i), Due(i), Pending(i), Told(i))'
  <2>1. CASE p = 0 BY <1>2, <1>4, <1>6, <2>1
  <2>2. CASE p = 1 BY <1>2, <1>4, <1>6, <2>2
  <2> QED BY <1>4, <2>1, <2>2
<1> QED BY <1>1, <1>7 DEF Flows

\* What fixwrite leaves of the pipes.
LEMMA Written ==
  ASSUME SplitTypes, NEW i \in mapPipe, NEW msg \in Int, NEW then, fixwrite(i, msg, then)
  PROVE  /\ pipe' \in [Instruments -> Seq(Int)]
         /\ \A j \in Instruments : Len(pipe'[j]) <= Capacity
         /\ \A j \in Instruments \ {i} : pipe'[j] = pipe[j]
         /\ pstep' = then \/ (pstep' = "killed" /\ child[i] = "ended")
         /\ splitSlips \subseteq splitSlips' /\ splitSlips' \subseteq {"full", "early", "letters", "fails"}
         /\ splitSlips' = {} /\ child[i] # "ended" =>
              pstep' = then /\ pipe'[i] = Append(pipe[i], msg)
<1>1. i \in Instruments /\ pipe[i] \in Seq(Int) /\ Capacity \in Nat
  BY SplitAssumption DEF SplitTypes
<1>2. CASE child[i] = "ended" BY Zenon, <1>1, <1>2 DEF fixwrite, SplitTypes
<1>3. CASE child[i] # "ended" /\ Len(pipe[i]) < Capacity
  <2>1. /\ pstep' = then /\ splitSlips' = splitSlips
        /\ pipe' = [pipe EXCEPT ![i] = Append(pipe[i], msg)]
    BY <1>3 DEF fixwrite
  <2>2. Append(pipe[i], msg) \in Seq(Int) /\ Len(Append(pipe[i], msg)) = Len(pipe[i]) + 1
    BY <1>1
  <2>3. Len(Append(pipe[i], msg)) <= Capacity BY <1>1, <1>3, <2>2
  <2> QED BY <1>1, <2>1, <2>2, <2>3 DEF SplitTypes
<1>4. CASE child[i] # "ended" /\ ~(Len(pipe[i]) < Capacity)
  BY Zenon, <1>1, <1>4 DEF fixwrite, SplitTypes
<1> QED BY <1>2, <1>3, <1>4

LEMMA SplitInitInv == SplitInit => SplitInv
<1> SUFFICES ASSUME SplitInit PROVE SplitInv OBVIOUS
<1>1. /\ lines \in Files /\ lines \in Seq([ins : Instruments, letters : BOOLEAN])
      /\ Len(lines) \in Nat /\ (lines = <<>> => Len(lines) = 0)
      /\ (lines # <<>> => Len(lines) >= 1) /\ Capacity \in Nat
  <2>1. lines \in Files /\ lines \in Seq([ins : Instruments, letters : BOOLEAN]) /\ Capacity \in Nat
    BY Zenon, SplitAssumption DEF SplitInit
  <2> QED BY <2>1
<1>2. \A i \in Instruments : /\ pipe[i] = <<>> /\ dstFile[i] = <<>> /\ child[i] = "none"
                             /\ Len(pipe[i]) = 0 /\ Len(dstFile[i]) = 0
  BY DEF SplitInit
<1>3. SplitTypes BY <1>1, <1>2 DEF SplitInit, SplitTypes
<1>4. ParentAt BY <1>1 DEF SplitInit, ParentAt
<1>5. \A i \in Instruments : Own(i, next - 1) = {} BY DEF SplitInit, Own
<1>6. FirstLines BY <1>2, <1>5 DEF SplitInit, FirstLines
<1>7. ASSUME NEW i \in Instruments PROVE Flows(i)
  <2>1. Pending(i) = 0 /\ Told(i) = 0 /\ Expects(i) = 0
    BY <1>2 DEF SplitInit, Pending, Told, Expects
  <2>2. Due(i) = 0 BY <1>5, <2>1, FS_EmptySet DEF Due
  <2>3. Stream(<<>>, 0, 0, 0, 0, 0) BY DEF Stream, Balance
  <2> QED BY <1>2, <2>1, <2>2, <2>3 DEF Flows
<1> QED BY <1>3, <1>4, <1>6, <1>7 DEF SplitInv

\* The invariant after a step, from its parts.
LEMMA ForkInv == SplitInv /\ fork => SplitInv'
<1> SUFFICES ASSUME SplitInv, fork PROVE SplitInv' OBVIOUS
<1>1. /\ pstep = "length" /\ next <= Len(lines) /\ Ins \notin mapPipe /\ stopped = {}
      /\ mapPipe' = mapPipe \cup {Ins} /\ line' = [line EXCEPT ![Ins] = next]
      /\ UNCHANGED <<lines, next, pstep, stopped, target, pipe, dstFile>>
  BY DEF fork, SplitInv, ParentAt
<1>c. PICK c \in {"forked", "ended"} :
        /\ child' = [child EXCEPT ![Ins] = c]
        /\ c = "forked" => splitSlips' = splitSlips
        /\ c = "ended" => splitSlips' = splitSlips \cup {"fails"}
  BY DEF fork
<1>2. SplitTypes /\ FirstLines /\ Len(lines) \in Nat /\ next \in 1 .. Len(lines)
  BY <1>1 DEF SplitInv, SplitTypes
<1>3. Ins \in Instruments
  <2>1. PICK R : R = [ins : Instruments, letters : BOOLEAN] BY Zenon
  <2>2. lines \in Seq(R) BY <2>1, <1>2 DEF SplitTypes
  <2>3. lines[next] \in R BY <1>2, <2>2
  <2> QED BY <2>1, <2>3 DEF Ins
<1>s. splitSlips \subseteq splitSlips' /\ splitSlips' \subseteq {"full", "early", "letters", "fails"}
  BY <1>c, <1>2 DEF SplitTypes
<1>4. SplitTypes'
  <2>1. /\ mapPipe' \subseteq Instruments /\ stopped' \subseteq mapPipe'
        /\ line' \in [Instruments -> 0 .. Len(lines)]
    BY <1>1, <1>2, <1>3 DEF SplitTypes
  <2>2. /\ child' \in [Instruments -> {"none", "forked", "length", "text", "ended", "garbage"}]
        /\ \A i \in Instruments : child'[i] = "none" <=> i \notin mapPipe'
    BY Zenon, <1>1, <1>c, <1>2, <1>3 DEF SplitTypes
  <2> QED BY Zenon, <1>1, <1>2, <1>s, <2>1, <2>2 DEF SplitTypes
<1>5. ParentAt' BY <1>1 DEF SplitInv, ParentAt, Ins
<1>6. FirstLines'
  <2> SUFFICES ASSUME NEW i \in Instruments
               PROVE  /\ i \notin mapPipe' =>
                           /\ pipe[i] = <<>> /\ dstFile[i] = <<>>
                           /\ "fails" \notin splitSlips' => Own(i, next - 1) = {}
                      /\ i \in mapPipe' => /\ line'[i] \in Own(i, Len(lines))
                                           /\ "fails" \notin splitSlips' =>
                                                \A k \in Own(i, Len(lines)) : line'[i] <= k
                      /\ \A k \in 1 .. Len(dstFile[i]) : dstFile[i][k] = line'[i]
    BY <1>1 DEF FirstLines, Own
  <2>1. CASE i # Ins
    <3>1. line'[i] = line[i] /\ (i \in mapPipe' <=> i \in mapPipe)
      BY <1>1, <1>2, <2>1 DEF SplitTypes
    <3> QED BY <1>2, <1>s, <3>1 DEF FirstLines
  <2>2. CASE i = Ins
    <3>1. line'[i] = next /\ i \in mapPipe' BY <1>1, <1>2, <2>2 DEF SplitTypes
    <3>2. /\ pipe[i] = <<>> /\ dstFile[i] = <<>>
          /\ "fails" \notin splitSlips' => Own(i, next - 1) = {}
      BY <1>1, <1>2, <1>s, <2>2 DEF FirstLines
    <3>3. next \in Own(i, Len(lines)) BY <1>2, <2>2 DEF Own, Ins
    <3>4. ASSUME "fails" \notin splitSlips', NEW k \in Own(i, Len(lines)) PROVE next <= k
      <4>1. k \in 1 .. Len(lines) /\ k \notin Own(i, next - 1) BY <3>2, <3>4 DEF Own
      <4>2. k \in Nat /\ k >= 1 /\ ~(k \in 1 .. next - 1) BY <1>2, <4>1 DEF Own
      <4> QED BY <1>2, <4>2
    <3>5. Len(dstFile[i]) = 0 BY <3>2
    <3> QED BY <3>1, <3>3, <3>4, <3>5
  <2> QED BY <2>1, <2>2
<1>7. ASSUME splitSlips' = {}, NEW i \in Instruments PROVE Flows(i)'
  <2>0. splitSlips = {} /\ c = "forked" BY <1>c, <1>7
  <2>1. Flows(i) BY <2>0 DEF SplitInv
  <2>2. Pending(i)' = Pending(i) /\ Told(i)' = Told(i) BY <1>1 DEF Pending, Told, Ins
  <2>3. Own(i, next - 1)' = Own(i, next - 1) BY <1>1 DEF Own
  <2>4. child'[i] = child[i] \/ (child[i] = "none" /\ child'[i] = "forked")
    BY <1>1, <1>c, <1>2, <2>0 DEF SplitTypes
  <2> QED BY <1>1, <2>1, <2>2, <2>3, <2>4, FlowsKept
<1> QED BY <1>4, <1>5, <1>6, <1>7 DEF SplitInv

LEMMA PipeFailsInv == SplitInv /\ pipe_fails => SplitInv'
<1> SUFFICES ASSUME SplitInv, pipe_fails PROVE SplitInv' OBVIOUS
<1>1. /\ pstep = "length" /\ next <= Len(lines) /\ stopped = {} /\ next' = next + 1
      /\ pstep' = IF next = Len(lines) THEN "stop" ELSE "length"
      /\ splitSlips' = splitSlips \cup {"fails"}
      /\ UNCHANGED <<lines, mapPipe, stopped, target, pipe, child, line, dstFile>>
  BY DEF pipe_fails, SplitInv, ParentAt
<1>2. SplitTypes /\ FirstLines /\ Len(lines) \in Nat /\ next \in 1 .. Len(lines)
  BY <1>1 DEF SplitInv, SplitTypes
<1>3. SplitTypes'
  <2>1. next' \in 1 .. Len(lines) + 1 BY <1>1, <1>2
  <2>2. pstep' \in {"stop", "length"} BY <1>1
  <2> QED BY Zenon, <1>1, <1>2, <2>1, <2>2 DEF SplitTypes
<1>4. ParentAt' BY <1>1, <1>2 DEF ParentAt
<1>5. FirstLines' BY <1>1, <1>2 DEF FirstLines, Own
<1> QED BY <1>1, <1>3, <1>4, <1>5 DEF SplitInv

LEMMA WriteLengthInv == SplitInv /\ write_length => SplitInv'
<1> SUFFICES ASSUME SplitInv, write_length PROVE SplitInv' OBVIOUS
<1>1. /\ pstep = "length" /\ next <= Len(lines) /\ Ins \in mapPipe /\ stopped = {}
      /\ fixwrite(Ins, ALength, "text")
      /\ UNCHANGED <<lines, next, mapPipe, stopped, target, child, line, dstFile>>
  BY DEF write_length, SplitInv, ParentAt
<1>2. SplitTypes /\ FirstLines BY DEF SplitInv
<1>3. ALength \in Int BY DEF ALength
<1>4. PICK w \in mapPipe : w = Ins BY <1>1
<1>5. /\ pipe' \in [Instruments -> Seq(Int)]
      /\ \A j \in Instruments : Len(pipe'[j]) <= Capacity
      /\ \A j \in Instruments \ {w} : pipe'[j] = pipe[j]
      /\ pstep' = "text" \/ (pstep' = "killed" /\ child[w] = "ended")
      /\ splitSlips \subseteq splitSlips' /\ splitSlips' \subseteq {"full", "early", "letters", "fails"}
      /\ splitSlips' = {} /\ child[w] # "ended" =>
           pstep' = "text" /\ pipe'[w] = Append(pipe[w], ALength)
  BY <1>1, <1>2, <1>3, <1>4, Written
<1>6. SplitTypes' BY Zenon, <1>1, <1>2, <1>5 DEF SplitTypes
<1>7. ParentAt' BY <1>1, <1>5 DEF ParentAt, Ins
<1>8. FirstLines' BY <1>1, <1>2, <1>4, <1>5 DEF FirstLines, Own
<1>9. ASSUME splitSlips' = {}, NEW i \in Instruments PROVE Flows(i)'
  <2>1. splitSlips = {} BY <1>5, <1>9
  <2>2. Flows(i) /\ Flows(w) /\ w \in Instruments BY <1>2, <2>1 DEF SplitInv, SplitTypes
  <2>3. child[w] # "ended" BY <1>1, <2>2 DEF Flows, Told
  <2>4. pstep' = "text" /\ pipe'[w] = Append(pipe[w], ALength) BY <1>5, <1>9, <2>3
  <2>5. Own(i, next - 1)' = Own(i, next - 1) BY <1>1 DEF Own
  <2>6. Told(i) = 0 /\ Told(i)' = 0 BY <1>1 DEF Told
  <2>7. Pending(i) = 0 BY <1>1 DEF Pending
  <2>8. CASE i # w
    <3>1. Pending(i)' = 0 BY <1>1, <1>4, <2>4, <2>8 DEF Pending, Ins
    <3> QED BY <1>1, <1>5, <2>2, <2>5, <2>6, <2>7, <2>8, <3>1, FlowsKept
  <2>9. CASE i = w
    <3>1. Pending(i)' = 1 BY <1>1, <1>4, <2>4, <2>9 DEF Pending, Ins
    <3>2. Due(i)' = Due(i) BY <2>5, <2>6 DEF Due
    <3> QED BY <1>1, <1>2, <1>3, <2>2, <2>4, <2>6, <2>7, <2>9, <3>1, <3>2, FlowsPut
  <2> QED BY <2>8, <2>9
<1> QED BY <1>6, <1>7, <1>8, <1>9 DEF SplitInv

LEMMA WriteTextInv == SplitInv /\ write_text => SplitInv'
<1> SUFFICES ASSUME SplitInv, write_text PROVE SplitInv' OBVIOUS
<1> DEFINE Then == IF next = Len(lines) THEN "stop" ELSE "length"
<1>1. /\ pstep = "text" /\ next <= Len(lines) /\ Ins \in mapPipe /\ stopped = {}
      /\ next' = next + 1 /\ fixwrite(Ins, next, Then)
      /\ UNCHANGED <<lines, mapPipe, stopped, target, child, line, dstFile>>
  BY DEF write_text, SplitInv, ParentAt
<1>2. SplitTypes /\ FirstLines /\ Len(lines) \in Nat /\ next \in 1 .. Len(lines)
  <2>1. SplitTypes /\ FirstLines BY DEF SplitInv
  <2>2. Len(lines) \in Nat /\ next \in 1 .. Len(lines) + 1 BY <2>1, FlowNumbers DEF SplitTypes
  <2> QED BY <1>1, <2>1, <2>2
<1>3. next \in Int /\ next # ALength /\ next # Stop /\ next - 1 \in Nat /\ (next - 1) + 1 = next
      /\ next' - 1 = next /\ next' \in 1 .. Len(lines) + 1
  BY <1>1, <1>2 DEF ALength, Stop
<1>4. PICK w \in mapPipe, then \in {"stop", "length"}, e \in Int : w = Ins /\ then = Then /\ e = next
  BY <1>1, <1>3
<1>5. /\ pipe' \in [Instruments -> Seq(Int)]
      /\ \A j \in Instruments : Len(pipe'[j]) <= Capacity
      /\ \A j \in Instruments \ {w} : pipe'[j] = pipe[j]
      /\ pstep' = then \/ (pstep' = "killed" /\ child[w] = "ended")
      /\ splitSlips \subseteq splitSlips' /\ splitSlips' \subseteq {"full", "early", "letters", "fails"}
      /\ splitSlips' = {} /\ child[w] # "ended" =>
           pstep' = then /\ pipe'[w] = Append(pipe[w], e)
  <2>1. fixwrite(w, e, then) BY <1>1, <1>4
  <2> QED BY <1>2, <2>1, Written
<1>6. SplitTypes' BY Zenon, <1>1, <1>2, <1>3, <1>5 DEF SplitTypes
<1>7. ParentAt' BY <1>1, <1>2, <1>3, <1>4, <1>5 DEF ParentAt
<1>8. \A i : /\ i = w => /\ Own(i, next) = Own(i, next - 1) \cup {next}
                         /\ Cardinality(Own(i, next)) = Cardinality(Own(i, next - 1)) + 1
             /\ i # w => Own(i, next) = Own(i, next - 1)
  <2>1. PICK m \in Nat : m = next - 1 /\ m + 1 = next BY <1>3
  <2>2. lines[m + 1].ins = w BY <1>4, <2>1 DEF Ins
  <2>3. \A i : /\ i = w => /\ Own(i, m + 1) = Own(i, m) \cup {m + 1}
                           /\ Cardinality(Own(i, m + 1)) = Cardinality(Own(i, m)) + 1
               /\ i # w => Own(i, m + 1) = Own(i, m)
    BY Zenon, <2>2, OwnLines
  <2> QED BY <2>1, <2>3
<1>9. \A i : Own(i, next - 1)' = Own(i, next) BY <1>1, <1>3 DEF Own
<1>10. FirstLines'
  <2>1. \A i : Own(i, Len(lines))' = Own(i, Len(lines)) BY <1>1 DEF Own
  <2>2. \A i \in Instruments : i \notin mapPipe => i # w /\ pipe'[i] = pipe[i] BY <1>5
  <2>3. "fails" \notin splitSlips' => "fails" \notin splitSlips BY <1>5
  <2>4. FirstLines BY <1>2
  <2> QED BY <1>1, <1>8, <1>9, <2>1, <2>2, <2>3, <2>4 DEF FirstLines
<1>11. ASSUME splitSlips' = {}, NEW i \in Instruments PROVE Flows(i)'
  <2>1. splitSlips = {} BY <1>5, <1>11
  <2>2. Flows(i) /\ Flows(w) /\ w \in Instruments BY <1>2, <2>1 DEF SplitInv, SplitTypes
  <2>3. child[w] # "ended" BY <1>1, <2>2 DEF Flows, Told
  <2>4. pstep' = then /\ pipe'[w] = Append(pipe[w], e) BY <1>5, <1>11, <2>3
  <2>5. Told(i) = 0 /\ Told(i)' = 0 BY <1>1 DEF Told
  <2>6. Pending(i)' = 0 BY <1>4, <2>4 DEF Pending
  <2>7. CASE i # w
    <3>1. Pending(i) = 0 BY <1>1, <1>4, <2>7 DEF Pending
    <3> QED BY <1>1, <1>5, <1>8, <1>9, <2>2, <2>5, <2>6, <2>7, <3>1, FlowsKept
  <2>8. CASE i = w
    <3>1. Pending(i) = 1 BY <1>1, <1>4, <2>8 DEF Pending
    <3>2. Due(i)' = Due(i) + 1
      <4>1. Cardinality(Own(i, next - 1)) \in Nat BY <1>2, FlowNumbers
      <4> QED BY <1>8, <1>9, <2>5, <2>8, <4>1 DEF Due
    <3>3. e # ALength /\ e # Stop BY <1>3, <1>4
    <3>4. child'[i] = child[i] /\ dstFile'[i] = dstFile[i] BY <1>1
    <3>5. pipe'[i] = Append(pipe[i], e) BY <2>4, <2>8
    <3>6. Told(i)' = IF e = Stop THEN 1 ELSE 0 BY <2>5, <3>3
    <3>7. e = ALength <=> Pending(i) = 0 BY <3>1, <3>3
    <3> QED BY <1>2, <2>2, <2>5, <2>6, <3>1, <3>2, <3>4, <3>5, <3>6, <3>7, FlowsPut
  <2> QED BY <2>7, <2>8
<1> QED BY <1>6, <1>7, <1>10, <1>11 DEF SplitInv

LEMMA WriteStopInv ==
  ASSUME NEW w \in Instruments, SplitInv, write_stop(w)
  PROVE  SplitInv'
<1>1. /\ pstep = "stop" /\ next = Len(lines) + 1 /\ w \in mapPipe /\ w \notin stopped
      /\ stopped' = stopped \cup {w} /\ target' = w /\ fixwrite(w, ALength, "stoptext")
      /\ UNCHANGED <<lines, next, mapPipe, child, line, dstFile>>
  BY DEF write_stop, SplitInv, ParentAt
<1>2. SplitTypes /\ FirstLines BY DEF SplitInv
<1>3. ALength \in Int BY DEF ALength
<1>4. /\ pipe' \in [Instruments -> Seq(Int)]
      /\ \A j \in Instruments : Len(pipe'[j]) <= Capacity
      /\ \A j \in Instruments \ {w} : pipe'[j] = pipe[j]
      /\ pstep' = "stoptext" \/ (pstep' = "killed" /\ child[w] = "ended")
      /\ splitSlips \subseteq splitSlips' /\ splitSlips' \subseteq {"full", "early", "letters", "fails"}
      /\ splitSlips' = {} /\ child[w] # "ended" =>
           pstep' = "stoptext" /\ pipe'[w] = Append(pipe[w], ALength)
  BY Zenon, <1>1, <1>2, <1>3, Written
<1>5. SplitTypes' BY Zenon, <1>1, <1>2, <1>4 DEF SplitTypes
<1>6. ParentAt' BY <1>1, <1>4 DEF ParentAt
<1>7. FirstLines' BY <1>1, <1>2, <1>4 DEF FirstLines, Own
<1>8. ASSUME splitSlips' = {}, NEW i \in Instruments PROVE Flows(i)'
  <2>1. splitSlips = {} BY <1>4, <1>8
  <2>2. Flows(i) /\ Flows(w) BY <1>2, <2>1 DEF SplitInv
  <2>3. child[w] # "ended" BY <1>1, <2>2 DEF Flows, Told
  <2>4. pstep' = "stoptext" /\ pipe'[w] = Append(pipe[w], ALength) BY <1>4, <1>8, <2>3
  <2>5. Own(i, next - 1)' = Own(i, next - 1) BY <1>1 DEF Own
  <2>6. Pending(i) = 0 BY <1>1 DEF Pending
  <2>7. CASE i # w
    <3>1. Pending(i)' = 0 BY <1>1, <2>4, <2>7 DEF Pending
    <3>2. Told(i)' = Told(i) BY <1>1, <2>6, <2>7, <3>1 DEF Told
    <3> QED BY <1>1, <1>4, <2>2, <2>5, <2>6, <2>7, <3>1, <3>2, FlowsKept
  <2>8. CASE i = w
    <3>1. Pending(i)' = 1 BY <1>1, <2>4, <2>8 DEF Pending
    <3>2. Told(i) = 0 /\ Told(i)' = 0 BY <1>1, <2>8, <3>1 DEF Told
    <3>3. Due(i)' = Due(i) BY <2>5, <3>2 DEF Due
    <3> QED BY <1>1, <1>2, <1>3, <2>2, <2>4, <2>6, <2>8, <3>1, <3>2, <3>3, FlowsPut
  <2> QED BY <2>7, <2>8
<1> QED BY <1>5, <1>6, <1>7, <1>8 DEF SplitInv

LEMMA WriteStopTextInv == SplitInv /\ write_stoptext => SplitInv'
<1> SUFFICES ASSUME SplitInv, write_stoptext PROVE SplitInv' OBVIOUS
<1>1. PICK w \in mapPipe : w = target /\ w \in stopped
  BY DEF write_stoptext, SplitInv, SplitTypes, ParentAt
<1>2. /\ pstep = "stoptext" /\ next = Len(lines) + 1 /\ fixwrite(w, Stop, "stop")
      /\ UNCHANGED <<lines, next, mapPipe, stopped, target, child, line, dstFile>>
  BY <1>1 DEF write_stoptext, SplitInv, ParentAt
<1>3. SplitTypes /\ FirstLines BY DEF SplitInv
<1>4. Stop \in Int /\ Stop # ALength BY DEF Stop, ALength
<1>5. /\ pipe' \in [Instruments -> Seq(Int)]
      /\ \A j \in Instruments : Len(pipe'[j]) <= Capacity
      /\ \A j \in Instruments \ {w} : pipe'[j] = pipe[j]
      /\ pstep' = "stop" \/ (pstep' = "killed" /\ child[w] = "ended")
      /\ splitSlips \subseteq splitSlips' /\ splitSlips' \subseteq {"full", "early", "letters", "fails"}
      /\ splitSlips' = {} /\ child[w] # "ended" =>
           pstep' = "stop" /\ pipe'[w] = Append(pipe[w], Stop)
  BY <1>2, <1>3, <1>4, Written
<1>6. SplitTypes' BY <1>2, <1>3, <1>5 DEF SplitTypes
<1>7. ParentAt' BY <1>2, <1>5 DEF ParentAt
<1>8. FirstLines' BY <1>2, <1>3, <1>5 DEF FirstLines, Own
<1>9. ASSUME splitSlips' = {}, NEW i \in Instruments PROVE Flows(i)'
  <2>1. splitSlips = {} BY <1>5, <1>9
  <2>2. Flows(i) /\ Flows(w) /\ w \in Instruments BY <1>3, <2>1 DEF SplitInv, SplitTypes
  <2>3. child[w] # "ended"
    <3>1. Pending(w) = 1 BY <1>1, <1>2 DEF Pending
    <3>2. Told(w) # 1 BY <3>1 DEF Told
    <3> QED BY <2>2, <3>2 DEF Flows
  <2>4. pstep' = "stop" /\ pipe'[w] = Append(pipe[w], Stop) BY <1>5, <1>9, <2>3
  <2>5. Own(i, next - 1)' = Own(i, next - 1) BY <1>2 DEF Own
  <2>6. Pending(i)' = 0 BY <2>4 DEF Pending
  <2>7. CASE i # w
    <3>1. Pending(i) = 0 BY <1>1, <1>2, <2>7 DEF Pending
    <3>2. Told(i)' = Told(i) BY <1>2, <2>6, <3>1 DEF Told
    <3> QED BY <1>2, <1>5, <2>2, <2>5, <2>6, <2>7, <3>1, <3>2, FlowsKept
  <2>8. CASE i = w
    <3>1. Pending(i) = 1 BY <1>1, <1>2, <2>8 DEF Pending
    <3>2. Told(i) = 0 BY <3>1 DEF Told
    <3>3. Told(i)' = 1 BY <1>1, <1>2, <2>6, <2>8 DEF Told
    <3>4. Due(i)' = Due(i) + 1
      <4>1. Cardinality(Own(i, next - 1)) \in Nat BY <1>3, FlowNumbers
      <4> QED BY <2>5, <3>2, <3>3, <4>1 DEF Due
    <3> QED BY <1>2, <1>3, <1>4, <2>2, <2>4, <2>6, <2>8, <3>1, <3>2, <3>3, <3>4, FlowsPut
  <2> QED BY <2>7, <2>8
<1> QED BY <1>6, <1>7, <1>8, <1>9 DEF SplitInv

LEMMA WaitAllInv == SplitInv /\ wait_all => SplitInv'
<1> SUFFICES ASSUME SplitInv, wait_all PROVE SplitInv' OBVIOUS
<1>1. /\ pstep = "stop" /\ next = Len(lines) + 1 /\ pstep' = "done"
      /\ \A i \in mapPipe : child[i] = "ended"
      /\ UNCHANGED <<lines, next, mapPipe, stopped, target, pipe, child, line, dstFile, splitSlips>>
  BY DEF wait_all, SplitInv, ParentAt
<1>2. SplitTypes' BY <1>1 DEF SplitInv, SplitTypes
<1>3. ParentAt' BY <1>1 DEF ParentAt
<1>4. FirstLines' BY <1>1 DEF SplitInv, FirstLines, Own
<1>5. ASSUME splitSlips' = {}, NEW i \in Instruments PROVE Flows(i)'
  <2>1. Pending(i) = 0 /\ Pending(i)' = 0 BY <1>1 DEF Pending
  <2>2. Told(i)' = Told(i) BY <1>1, <2>1 DEF Told
  <2>3. Own(i, next - 1)' = Own(i, next - 1) BY <1>1 DEF Own
  <2>4. Flows(i) BY <1>1, <1>5 DEF SplitInv
  <2> QED BY <1>1, <2>1, <2>2, <2>3, <2>4, FlowsKept
<1> QED BY <1>2, <1>3, <1>4, <1>5 DEF SplitInv

\* Child i leaves q in its pipe and f in its file, and goes on at c.
Reads(i, q, c, f) ==
  /\ child[i] \in {"forked", "length", "text"} /\ q \in Seq(Int) /\ Len(q) <= Len(pipe[i])
  /\ c \in {"length", "text", "ended", "garbage"}
  /\ f \in Seq(Nat) /\ \A k \in 1 .. Len(f) : f[k] = line[i]
  /\ pipe' = [pipe EXCEPT ![i] = q] /\ child' = [child EXCEPT ![i] = c]
  /\ dstFile' = [dstFile EXCEPT ![i] = f]
  /\ splitSlips \subseteq splitSlips' /\ splitSlips' \subseteq {"full", "early", "letters", "fails"}
  /\ UNCHANGED <<lines, next, pstep, mapPipe, stopped, target, line>>

\* It leaves all of the parent and the other children alone.
LEMMA ReaderKeeps ==
  ASSUME SplitInv, NEW i \in Instruments, NEW q, NEW c, NEW f, Reads(i, q, c, f)
  PROVE  /\ pipe'[i] = q /\ child'[i] = c /\ dstFile'[i] = f
         /\ SplitTypes' /\ ParentAt' /\ FirstLines'
         /\ \A j \in Instruments : /\ Told(j)' = Told(j) /\ Pending(j)' = Pending(j)
                                   /\ Due(j)' = Due(j) /\ Own(j, next - 1)' = Own(j, next - 1)
         /\ splitSlips = {} => \A j \in Instruments \ {i} : Flows(j)'
<1>0. /\ child[i] \in {"forked", "length", "text"} /\ q \in Seq(Int) /\ Len(q) <= Len(pipe[i])
      /\ c \in {"length", "text", "ended", "garbage"}
      /\ f \in Seq(Nat) /\ \A k \in 1 .. Len(f) : f[k] = line[i]
      /\ pipe' = [pipe EXCEPT ![i] = q] /\ child' = [child EXCEPT ![i] = c]
      /\ dstFile' = [dstFile EXCEPT ![i] = f]
      /\ splitSlips \subseteq splitSlips' /\ splitSlips' \subseteq {"full", "early", "letters", "fails"}
      /\ UNCHANGED <<lines, next, pstep, mapPipe, stopped, target, line>>
  BY Zenon DEF Reads
<1>1. SplitTypes /\ ParentAt /\ FirstLines BY DEF SplitInv
<1>2. i \in mapPipe /\ Len(q) <= Capacity /\ pstep # "done"
  <2>1. i \in mapPipe /\ Len(pipe[i]) \in Nat /\ Capacity \in Nat /\ Len(pipe[i]) <= Capacity
    BY Zenon, <1>0, <1>1, FlowNumbers, SplitAssumption DEF SplitTypes
  <2>2. Len(q) \in Nat BY <1>0
  <2>3. pstep # "done" BY <1>0, <1>1, <2>1 DEF ParentAt
  <2> QED BY <1>0, <2>1, <2>2, <2>3
<1>3. /\ pipe'[i] = q /\ child'[i] = c /\ dstFile'[i] = f
      /\ \A j \in Instruments \ {i} :
           pipe'[j] = pipe[j] /\ child'[j] = child[j] /\ dstFile'[j] = dstFile[j]
  BY <1>0, <1>1 DEF SplitTypes
<1>4. SplitTypes'
  <2>1. /\ pipe' \in [Instruments -> Seq(Int)] /\ dstFile' \in [Instruments -> Seq(Nat)]
        /\ child' \in [Instruments -> {"none", "forked", "length", "text", "ended", "garbage"}]
    BY <1>0, <1>1 DEF SplitTypes
  <2>2. \A j \in Instruments : /\ Len(pipe'[j]) <= Capacity
                               /\ child'[j] = "none" <=> j \notin mapPipe'
    BY <1>0, <1>1, <1>2, <1>3 DEF SplitTypes
  <2> QED BY <1>0, <1>1, <2>1, <2>2 DEF SplitTypes
<1>5. ParentAt' BY <1>0, <1>1, <1>2 DEF ParentAt, Ins
<1>6. \A j, m : Own(j, m)' = Own(j, m) BY <1>0 DEF Own
<1>7. FirstLines'
  <2> SUFFICES ASSUME NEW j \in Instruments
               PROVE  /\ j \notin mapPipe =>
                           /\ pipe'[j] = <<>> /\ dstFile'[j] = <<>>
                           /\ "fails" \notin splitSlips' => Own(j, next - 1) = {}
                      /\ j \in mapPipe => /\ line[j] \in Own(j, Len(lines))
                                          /\ "fails" \notin splitSlips' =>
                                               \A k \in Own(j, Len(lines)) : line[j] <= k
                      /\ \A k \in 1 .. Len(dstFile'[j]) : dstFile'[j][k] = line[j]
    <3>1. mapPipe' = mapPipe /\ lines' = lines /\ next' = next /\ line' = line BY <1>0
    <3> QED BY <3>1 DEF FirstLines, Own
  <2>1. CASE j = i BY <1>0, <1>1, <1>2, <1>3, <2>1 DEF FirstLines
  <2>2. CASE j # i BY <1>0, <1>1, <1>3, <2>2 DEF FirstLines
  <2> QED BY <2>1, <2>2
<1>8. ASSUME NEW j \in Instruments
      PROVE  /\ Told(j)' = Told(j) /\ Pending(j)' = Pending(j)
             /\ Due(j)' = Due(j) /\ Own(j, next - 1)' = Own(j, next - 1)
  <2>1. Pending(j)' = Pending(j) BY <1>0 DEF Pending, Ins
  <2>2. Told(j)' = Told(j) BY <1>0, <2>1 DEF Told
  <2>3. Own(j, next - 1)' = Own(j, next - 1) BY <1>0 DEF Own
  <2> QED BY <2>1, <2>2, <2>3 DEF Due
<1>9. ASSUME splitSlips = {}, NEW j \in Instruments \ {i} PROVE Flows(j)'
  <2>1. Flows(j) BY <1>9 DEF SplitInv
  <2> QED BY <1>3, <1>8, <2>1, FlowsKept
<1> QED BY <1>3, <1>4, <1>5, <1>7, <1>8, <1>9

\* What a child finds in its pipe.
LEMMA FlowsTake ==
  ASSUME SplitTypes, NEW i \in Instruments, Flows(i), child[i] \in {"length", "text"},
         pipe[i] # <<>>, NEW d, NEW u, d = Len(dstFile[i]), u = Due(i)
  PROVE  /\ child[i] = "length" =>
              Head(pipe[i]) = ALength /\ Stream(Tail(pipe[i]), d, 1, u, Pending(i), Told(i))
         /\ child[i] = "text" /\ Head(pipe[i]) # Stop =>
              /\ Head(pipe[i]) # ALength
              /\ Stream(Tail(pipe[i]), d + 1, 0, u, Pending(i), Told(i))
         /\ child[i] = "text" /\ Head(pipe[i]) = Stop =>
              Told(i) = 1 /\ Tail(pipe[i]) = <<>> /\ d = Cardinality(Own(i, next - 1))
<1>1. Stream(pipe[i], d, Expects(i), u, Pending(i), Told(i)) BY DEF Flows
<1>2. PICK q \in Seq(Int), x \in 0 .. 1, p \in 0 .. 1, t \in 0 .. 1, own \in Nat :
        /\ q = pipe[i] /\ x = Expects(i) /\ p = Pending(i) /\ t = Told(i)
        /\ own = Cardinality(Own(i, next - 1)) /\ d \in Nat /\ u \in Nat
  BY FlowNumbers
<1>3. Stream(q, d, x, u, p, t) /\ q # <<>> /\ d \in Nat /\ u \in Nat BY <1>1, <1>2
<1>4. /\ x = 0 => Head(q) = ALength /\ Stream(Tail(q), d, 1, u, p, t)
      /\ x = 1 /\ Head(q) # Stop => Head(q) # ALength /\ Stream(Tail(q), d + 1, 0, u, p, t)
      /\ x = 1 /\ Head(q) = Stop => t = 1 /\ Tail(q) = <<>> /\ (p = 0 => d + 1 = u)
  BY <1>3, StreamTake
<1>5. /\ child[i] = "length" => x = 0
      /\ child[i] = "text" => x = 1
  BY <1>2 DEF Expects
<1>6. t = 1 => p = 0 /\ u = own + 1 BY <1>2 DEF Told, Due
<1>7. ASSUME x = 1, Head(q) = Stop PROVE d = own
  <2>1. d + 1 = u /\ u = own + 1 BY <1>4, <1>6, <1>7
  <2> QED BY <1>2, <2>1
<1> QED BY <1>2, <1>4, <1>5, <1>7

LEMMA ReadLengthInv ==
  ASSUME NEW i \in Instruments, SplitInv, read_length(i)
  PROVE  SplitInv'
<1>1. /\ child[i] = "length" /\ pipe[i] # <<>> /\ SplitTypes /\ FirstLines
      /\ pipe' = [pipe EXCEPT ![i] = Tail(pipe[i])]
      /\ child' = [child EXCEPT ![i] = IF Head(pipe[i]) = ALength THEN "text" ELSE "garbage"]
      /\ UNCHANGED <<lines, next, pstep, mapPipe, stopped, target, line, dstFile, splitSlips>>
  BY DEF read_length, SplitInv
<1>2. PICK q \in Seq(Int) : q = Tail(pipe[i]) /\ Len(q) <= Len(pipe[i])
  <2>1. PICK w \in Seq(Int) : w = pipe[i] BY <1>1 DEF SplitTypes
  <2>2. w # <<>> BY <1>1, <2>1
  <2>3. Tail(w) \in Seq(Int) /\ Len(Tail(w)) = Len(w) - 1 /\ Len(w) \in Nat BY <2>2, Tailed
  <2>4. PICK q \in Seq(Int) : q = Tail(w) BY Zenon, <2>3
  <2>5. Len(q) \in Nat /\ Len(q) = Len(w) - 1 BY <2>3, <2>4
  <2>6. Len(q) <= Len(w) BY <2>3, <2>5
  <2> QED BY Zenon, <2>1, <2>4, <2>6
<1>3. PICK c \in {"text", "garbage"} : c = IF Head(pipe[i]) = ALength THEN "text" ELSE "garbage"
  OBVIOUS
<1>4. PICK f \in Seq(Nat) : f = dstFile[i] BY <1>1 DEF SplitTypes
<1>5. \A k \in 1 .. Len(f) : f[k] = line[i] BY <1>1, <1>4 DEF FirstLines
<1>6. /\ pipe' = [pipe EXCEPT ![i] = q] /\ child' = [child EXCEPT ![i] = c]
      /\ dstFile' = [dstFile EXCEPT ![i] = f]
  BY <1>1, <1>2, <1>3, <1>4 DEF SplitTypes
<1>7. splitSlips' = splitSlips /\ splitSlips' \subseteq {"full", "early", "letters", "fails"}
  BY <1>1 DEF SplitTypes
<1>8. /\ pipe'[i] = q /\ child'[i] = c /\ dstFile'[i] = f
      /\ SplitTypes' /\ ParentAt' /\ FirstLines'
      /\ Told(i)' = Told(i) /\ Pending(i)' = Pending(i) /\ Due(i)' = Due(i)
      /\ splitSlips = {} => \A j \in Instruments \ {i} : Flows(j)'
  <2>1. Reads(i, q, c, f) BY Zenon, <1>1, <1>2, <1>3, <1>4, <1>5, <1>6, <1>7 DEF Reads
  <2> QED BY Zenon, <2>1, ReaderKeeps
<1>9. ASSUME splitSlips' = {} PROVE Flows(i)'
  <2>1. Flows(i) BY <1>7, <1>9 DEF SplitInv
  <2>2. /\ Head(pipe[i]) = ALength
        /\ Stream(Tail(pipe[i]), Len(dstFile[i]), 1, Due(i), Pending(i), Told(i))
    BY Zenon, <1>1, <2>1, FlowsTake
  <2>3. child'[i] = "text" /\ Expects(i)' = 1 BY <1>3, <1>8, <2>2 DEF Expects
  <2> QED BY <1>2, <1>4, <1>8, <2>2, <2>3 DEF Flows
<1> QED BY <1>7, <1>8, <1>9 DEF SplitInv

LEMMA ReadTextInv ==
  ASSUME NEW i \in Instruments, SplitInv, read_text(i)
  PROVE  SplitInv'
<1>1. /\ child[i] = "text" /\ pipe[i] # <<>> /\ SplitTypes /\ FirstLines
      /\ pipe' = [pipe EXCEPT ![i] = Tail(pipe[i])]
      /\ UNCHANGED <<lines, next, pstep, mapPipe, stopped, target, line>>
  BY DEF read_text, SplitInv
<1>2. PICK q \in Seq(Int) : q = Tail(pipe[i]) /\ Len(q) <= Len(pipe[i])
  <2>1. PICK w \in Seq(Int) : w = pipe[i] BY <1>1 DEF SplitTypes
  <2>2. w # <<>> BY <1>1, <2>1
  <2>3. Tail(w) \in Seq(Int) /\ Len(Tail(w)) = Len(w) - 1 /\ Len(w) \in Nat BY <2>2, Tailed
  <2>4. PICK q \in Seq(Int) : q = Tail(w) BY Zenon, <2>3
  <2>5. Len(q) \in Nat /\ Len(q) = Len(w) - 1 BY <2>3, <2>4
  <2>6. Len(q) <= Len(w) BY <2>3, <2>5
  <2> QED BY Zenon, <2>1, <2>4, <2>6
<1>3. PICK text : text = Head(pipe[i]) OBVIOUS
<1>4. PICK g \in Seq(Nat) : g = dstFile[i] BY <1>1 DEF SplitTypes
<1>5. \A k \in 1 .. Len(g) : g[k] = line[i] BY <1>1, <1>4 DEF FirstLines
<1>6. line[i] \in Nat BY <1>1 DEF SplitTypes
<1>7. CASE text = ALength
  <2>1. child' = [child EXCEPT ![i] = "garbage"] /\ UNCHANGED <<dstFile, splitSlips>>
    BY Zenon, <1>3, <1>7 DEF read_text
  <2>2. pipe' = [pipe EXCEPT ![i] = q] /\ dstFile' = [dstFile EXCEPT ![i] = g]
    BY <1>1, <1>2, <1>4, <2>1 DEF SplitTypes
  <2>3. SplitTypes' /\ ParentAt' /\ FirstLines'
    <3>1. splitSlips \subseteq splitSlips' /\ splitSlips' \subseteq {"full", "early", "letters", "fails"}
      BY <1>1, <2>1 DEF SplitTypes
    <3>2. Reads(i, q, "garbage", g) BY Zenon, <1>1, <1>2, <1>5, <2>1, <2>2, <3>1 DEF Reads
    <3> QED BY <3>2, ReaderKeeps
  <2>4. splitSlips # {}
    <3> SUFFICES ASSUME splitSlips = {} PROVE FALSE OBVIOUS
    <3>1. Flows(i) BY DEF SplitInv
    <3>2. text # Stop BY <1>7 DEF ALength, Stop
    <3> QED BY Zenon, <1>1, <1>3, <1>7, <3>1, <3>2, FlowsTake
  <2> QED BY <2>1, <2>3, <2>4 DEF SplitInv
<1>8. CASE text # ALength /\ HasEnd(text)
  <2>1. /\ child' = [child EXCEPT ![i] = "ended"] /\ UNCHANGED dstFile
        /\ splitSlips' = IF text = Stop THEN splitSlips ELSE splitSlips \cup {"letters"}
    BY Zenon, <1>3, <1>8 DEF read_text
  <2>2. pipe' = [pipe EXCEPT ![i] = q] /\ dstFile' = [dstFile EXCEPT ![i] = g]
    BY <1>1, <1>2, <1>4, <2>1 DEF SplitTypes
  <2>3. splitSlips \subseteq splitSlips' /\ splitSlips' \subseteq {"full", "early", "letters", "fails"}
    BY Zenon, <1>1, <2>1 DEF SplitTypes
  <2>4. /\ pipe'[i] = q /\ child'[i] = "ended" /\ dstFile'[i] = g
        /\ SplitTypes' /\ ParentAt' /\ FirstLines'
        /\ Told(i)' = Told(i) /\ Own(i, next - 1)' = Own(i, next - 1)
        /\ splitSlips = {} => \A j \in Instruments \ {i} : Flows(j)'
    <3>1. Reads(i, q, "ended", g) BY Zenon, <1>1, <1>2, <1>5, <2>1, <2>2, <2>3 DEF Reads
    <3> QED BY <3>1, ReaderKeeps
  <2>5. ASSUME splitSlips' = {} PROVE splitSlips = {} /\ Flows(i)'
    <3>1. splitSlips = {} /\ text = Stop BY Zenon, <2>1, <2>5
    <3>2. Flows(i) BY <3>1 DEF SplitInv
    <3>3. Told(i) = 1 /\ q = <<>> /\ Len(dstFile[i]) = Cardinality(Own(i, next - 1))
      BY Zenon, <1>1, <1>2, <1>3, <3>1, <3>2, FlowsTake
    <3> QED BY <1>4, <2>4, <3>1, <3>3 DEF Flows
  <2> QED BY <2>4, <2>5 DEF SplitInv
<1>9. CASE text # ALength /\ ~HasEnd(text)
  <2>1. /\ child' = [child EXCEPT ![i] = "length"] /\ UNCHANGED splitSlips
        /\ dstFile' = [dstFile EXCEPT ![i] = Append(dstFile[i], line[i])]
    BY Zenon, <1>3, <1>9 DEF read_text
  <2>2. PICK f \in Seq(Nat) : f = Append(g, line[i])
    <3>1. PICK l \in Nat : l = line[i] BY <1>6
    <3>2. Append(g, l) \in Seq(Nat) OBVIOUS
    <3> QED BY Zenon, <3>1, <3>2
  <2>3. Len(f) = Len(g) + 1 /\ \A k \in 1 .. Len(f) : f[k] = line[i]
    <3>1. /\ Len(g) \in Nat /\ Len(Append(g, line[i])) = Len(g) + 1
          /\ \A k \in 1 .. Len(g) : Append(g, line[i])[k] = g[k]
          /\ Append(g, line[i])[Len(g) + 1] = line[i]
          /\ \A k \in 1 .. Len(g) + 1 : k \in 1 .. Len(g) \/ k = Len(g) + 1
      BY <1>6, Appended
    <3> QED BY <1>5, <2>2, <3>1
  <2>4. pipe' = [pipe EXCEPT ![i] = q] /\ dstFile' = [dstFile EXCEPT ![i] = f]
    BY <1>1, <1>2, <1>4, <2>1, <2>2
  <2>5. /\ pipe'[i] = q /\ child'[i] = "length" /\ dstFile'[i] = f
        /\ SplitTypes' /\ ParentAt' /\ FirstLines'
        /\ Told(i)' = Told(i) /\ Pending(i)' = Pending(i) /\ Due(i)' = Due(i)
        /\ splitSlips = {} => \A j \in Instruments \ {i} : Flows(j)'
    <3>1. splitSlips \subseteq splitSlips' /\ splitSlips' \subseteq {"full", "early", "letters", "fails"}
      BY <1>1, <2>1 DEF SplitTypes
    <3>2. Reads(i, q, "length", f) BY Zenon, <1>1, <1>2, <2>1, <2>3, <2>4, <3>1 DEF Reads
    <3> QED BY Zenon, <3>2, ReaderKeeps
  <2>6. ASSUME splitSlips = {} PROVE Flows(i)'
    <3>1. Flows(i) /\ text # Stop BY <1>9, <2>6 DEF SplitInv, HasEnd
    <3>2. Stream(Tail(pipe[i]), Len(dstFile[i]) + 1, 0, Due(i), Pending(i), Told(i))
      BY Zenon, <1>1, <1>3, <3>1, FlowsTake
    <3>3. Expects(i)' = 0 BY <2>5 DEF Expects
    <3> QED BY Zenon, <1>2, <1>4, <2>3, <2>5, <3>2, <3>3 DEF Flows
  <2> QED BY <2>1, <2>5, <2>6 DEF SplitInv
<1> QED BY <1>7, <1>8, <1>9

LEMMA OpenDstFileInv ==
  ASSUME NEW i \in Instruments, SplitInv, open_dstFile(i)
  PROVE  SplitInv'
<1>1. /\ child[i] = "forked" /\ SplitTypes /\ FirstLines
      /\ UNCHANGED <<lines, next, pstep, mapPipe, stopped, target, pipe, line, dstFile>>
  BY DEF open_dstFile, SplitInv
<1>2. PICK c \in {"length", "ended"} :
        /\ child' = [child EXCEPT ![i] = c]
        /\ c = "length" => splitSlips' = splitSlips
        /\ c = "ended" => splitSlips' = splitSlips \cup {"fails"}
  BY DEF open_dstFile
<1>3. PICK q \in Seq(Int), g \in Seq(Nat) : q = pipe[i] /\ g = dstFile[i] BY <1>1 DEF SplitTypes
<1>4. \A k \in 1 .. Len(g) : g[k] = line[i] BY <1>1, <1>3 DEF FirstLines
<1>5. pipe' = [pipe EXCEPT ![i] = q] /\ dstFile' = [dstFile EXCEPT ![i] = g]
  BY <1>1, <1>3 DEF SplitTypes
<1>6. splitSlips \subseteq splitSlips' /\ splitSlips' \subseteq {"full", "early", "letters", "fails"}
  BY <1>1, <1>2 DEF SplitTypes
<1>7. Len(q) <= Len(pipe[i])
  <2>1. Len(q) \in Nat OBVIOUS
  <2> QED BY <1>3, <2>1
<1>8. Reads(i, q, c, g) BY Zenon, <1>1, <1>2, <1>3, <1>4, <1>5, <1>6, <1>7 DEF Reads
<1>9. /\ pipe'[i] = q /\ child'[i] = c /\ dstFile'[i] = g
      /\ SplitTypes' /\ ParentAt' /\ FirstLines'
      /\ Told(i)' = Told(i) /\ Pending(i)' = Pending(i) /\ Own(i, next - 1)' = Own(i, next - 1)
      /\ splitSlips = {} => \A j \in Instruments \ {i} : Flows(j)'
  BY Zenon, <1>8, ReaderKeeps
<1>10. ASSUME splitSlips' = {} PROVE splitSlips = {} /\ Flows(i)'
  <2>1. splitSlips = {} /\ c = "length" BY <1>2, <1>10
  <2>2. Flows(i) BY <2>1 DEF SplitInv
  <2> QED BY <1>1, <1>3, <1>9, <2>1, <2>2, FlowsKept
<1> QED BY <1>9, <1>10 DEF SplitInv

LEMMA ReadTextEarlyInv ==
  ASSUME NEW i \in Instruments, SplitInv, read_text_early(i)
  PROVE  SplitInv'
<1>1. /\ child[i] = "text" /\ SplitTypes /\ FirstLines
      /\ child' = [child EXCEPT ![i] = "length"] /\ splitSlips' = splitSlips \cup {"early"}
      /\ UNCHANGED <<lines, next, pstep, mapPipe, stopped, target, pipe, line, dstFile>>
  BY DEF read_text_early, SplitInv
<1>2. PICK q \in Seq(Int), g \in Seq(Nat) : q = pipe[i] /\ g = dstFile[i] BY <1>1 DEF SplitTypes
<1>3. \A k \in 1 .. Len(g) : g[k] = line[i] BY <1>1, <1>2 DEF FirstLines
<1>4. pipe' = [pipe EXCEPT ![i] = q] /\ dstFile' = [dstFile EXCEPT ![i] = g]
  BY <1>1, <1>2 DEF SplitTypes
<1>5. splitSlips \subseteq splitSlips' /\ splitSlips' \subseteq {"full", "early", "letters", "fails"}
  BY <1>1 DEF SplitTypes
<1>6. Len(q) <= Len(pipe[i])
  <2>1. Len(q) \in Nat OBVIOUS
  <2> QED BY <1>2, <2>1
<1>7. Reads(i, q, "length", g) BY Zenon, <1>1, <1>2, <1>3, <1>4, <1>5, <1>6 DEF Reads
<1>8. SplitTypes' /\ ParentAt' /\ FirstLines' BY <1>7, ReaderKeeps
<1> QED BY <1>1, <1>8 DEF SplitInv

LEMMA SplitNextInv == SplitInv /\ [SplitNext]_splitVars => SplitInv'
<1> SUFFICES ASSUME SplitInv, [SplitNext]_splitVars PROVE SplitInv' OBVIOUS
<1>1. CASE fork BY <1>1, ForkInv
<1>f. CASE pipe_fails BY <1>f, PipeFailsInv
<1>2. CASE write_length BY <1>2, WriteLengthInv
<1>3. CASE write_text BY <1>3, WriteTextInv
<1>4. ASSUME NEW i \in Instruments, write_stop(i) PROVE SplitInv' BY <1>4, WriteStopInv
<1>5. CASE write_stoptext BY <1>5, WriteStopTextInv
<1>6. CASE wait_all BY <1>6, WaitAllInv
<1>7. ASSUME NEW i \in Instruments, reader(i) PROVE SplitInv'
  <2>1. CASE open_dstFile(i) BY <2>1, OpenDstFileInv
  <2>2. CASE read_length(i) BY <2>2, ReadLengthInv
  <2>3. CASE read_text(i) BY <2>3, ReadTextInv
  <2>4. CASE read_text_early(i) BY <2>4, ReadTextEarlyInv
  <2> QED BY <1>7, <2>1, <2>2, <2>3, <2>4 DEF reader
<1>8. CASE UNCHANGED splitVars
  <2>1. /\ SplitTypes' <=> SplitTypes
        /\ ParentAt' <=> ParentAt
        /\ FirstLines' <=> FirstLines
        /\ \A i \in Instruments : Flows(i)' <=> Flows(i)
    BY <1>8 DEF splitVars, SplitTypes, ParentAt, FirstLines, Flows, Stream, Told, Pending, Due,
                Expects, Own, Ins
  <2> QED BY <1>8, <2>1 DEF SplitInv, splitVars
<1> QED BY <1>1, <1>f, <1>2, <1>3, <1>4, <1>5, <1>6, <1>7, <1>8 DEF SplitNext, parent

\* The length-and-text protocol of splitMdFile keeps its step: as long as no call to
\* pipe, fork or open failed, no write met
\* a full pipe, no text came late and no line held a letter of "end", no child ever
\* takes a text for a length, and when the parent has waited for all of them each file
\* has as many lines as the input has of its instrument, every one a copy of the first.
THEOREM FilesRight == SplitSpec => [](SplitTypeOK /\ FilesCounted)
<1>1. SplitInv => SplitTypeOK BY DEF SplitInv, SplitTypes, SplitTypeOK
<1>2. SplitInv => FilesCounted
  <2> SUFFICES ASSUME SplitInv, splitSlips = {} PROVE FilesCounted BY DEF FilesCounted
  <2>1. \A i \in Instruments : child[i] # "garbage" BY DEF SplitInv, Flows
  <2>2. ASSUME pstep = "done", NEW i \in mapPipe
        PROVE  /\ dstFile[i] = [k \in 1 .. Cardinality(Own(i, Len(lines))) |-> line[i]]
               /\ line[i] \in Own(i, Len(lines))
               /\ \A k \in Own(i, Len(lines)) : line[i] <= k
    <3>1. /\ i \in Instruments /\ child[i] = "ended" /\ Flows(i) /\ next - 1 = Len(lines)
          /\ dstFile[i] \in Seq(Nat)
      BY <2>2 DEF SplitInv, SplitTypes, ParentAt
    <3>2. Len(dstFile[i]) = Cardinality(Own(i, Len(lines))) BY <3>1 DEF Flows
    <3>3. /\ line[i] \in Own(i, Len(lines)) /\ \A k \in Own(i, Len(lines)) : line[i] <= k
          /\ \A k \in 1 .. Len(dstFile[i]) : dstFile[i][k] = line[i]
      BY Zenon, <3>1 DEF SplitInv, FirstLines
    <3>4. PICK g \in Seq(Nat) : g = dstFile[i] BY <3>1
    <3>5. g = [k \in 1 .. Len(g) |-> line[i]]
      <4>1. g = [k \in 1 .. Len(g) |-> g[k]] OBVIOUS
      <4> QED BY Zenon, <3>3, <3>4, <4>1
    <3> QED BY Zenon, <3>2, <3>3, <3>4, <3>5
  <2> QED BY Zenon, <2>1, <2>2 DEF FilesCounted, Own
<1> QED BY <1>1, <1>2, SplitInitInv, SplitNextInv, PTL DEF SplitSpec

-----------------------------------------------------------------------------
(* Two processes that count (IpcCounters)                                     *)

CounterSpec == CounterInit /\ [][CounterNext]_counterVars

CounterTypes ==
  /\ kind \in {"mutex", "file", "none"}
  /\ kpc \in [Pair -> {"atomic", "lock", "load", "store", "unlock", "end", "done", "dead"}]
  /\ turns \in [Pair -> 0 .. Turns] /\ atomics \in [Pair -> 0 .. Turns]
  /\ reg \in [Pair -> Nat] /\ num \in Nat /\ a_int \in Nat
  /\ holder \in Pair \cup {"free"} /\ destroyed \in BOOLEAN

\* A process has turns left exactly until it has stored its last one.
TurnsLeft ==
  \A p \in Pair :
    /\ kpc[p] \in {"atomic", "lock", "load", "store"} => turns[p] >= 1
    /\ kpc[p] \in {"end", "done"} => turns[p] = 0
    /\ kpc[p] = "atomic" => atomics[p] >= 1
    /\ kind = "none" /\ kpc[p] \notin {"atomic", "dead"} => atomics[p] = 0

Critical(p) == kpc[p] \in {"load", "store", "unlock"}

\* Who is between lock and unlock has the lock, until one process has ended and
\* destroyed it; then the other one is alone.
Locked ==
  kind # "none" =>
    /\ ~destroyed => \A p \in Pair : Critical(p) => holder = p
    /\ destroyed => \E p \in Pair : kpc[p] = "done"

\* What a process has loaded under the lock is still the value.
Fresh == kind # "none" => \A p \in Pair : kpc[p] = "store" => reg[p] = num

Total == num = Added("parent") + Added("child")

\* Without a lock: no value is above the number of stores, a process that loads
\* after its first store loads one at least, and the last store of all stores two.
Unlocked ==
  kind = "none" =>
    /\ num <= Added("parent") + Added("child")
    /\ \A p \in Pair :
         /\ reg[p] <= Added("parent") + Added("child")
         /\ turns[p] < Turns => num >= 1
         /\ kpc[p] = "store" /\ turns[p] < Turns => reg[p] >= 1
    /\ (\A p \in Pair : turns[p] = 0) => num >= 2
    /\ a_int = (Turns - atomics["parent"]) + (Turns - atomics["child"])

CounterInv ==
  /\ CounterTypes /\ TurnsLeft /\ Locked /\ Fresh
  /\ kind # "none" => Total
  /\ Unlocked

(* A step of a process that leaves the turns alone leaves the counts alone.   *)
LEMMA AddedKept ==
  ASSUME UNCHANGED <<kind, turns>>
  PROVE  \A p \in Pair : Added(p)' = Added(p)
  BY DEF Added, Step

(* The counts are numbers, and a turn adds the step of its process.           *)
LEMMA AddedTypes ==
  ASSUME CounterTypes
  PROVE  /\ \A p \in Pair : Step(p) \in {1, 2} /\ Added(p) \in Nat
         /\ kind = "none" => \A p \in Pair : Step(p) = 1
<1>1. \A p \in Pair : Step(p) \in {1, 2} /\ (kind = "none" => Step(p) = 1)
  BY DEF Step
<1>2. ASSUME NEW p \in Pair PROVE Added(p) \in Nat
  <2>1. Step(p) \in {1, 2} /\ Turns \in Nat /\ turns[p] \in 0 .. Turns
    BY <1>1, TurnsAssumption DEF CounterTypes
  <2>2. Added(p) = Step(p) * (Turns - turns[p])
    BY DEF Added
  <2> HIDE DEF Added
  <2>3. CASE Step(p) = 1
    BY <2>1, <2>2, <2>3
  <2>4. CASE Step(p) = 2
    BY <2>1, <2>2, <2>4
  <2>5. QED
    BY <2>1, <2>3, <2>4
<1>3. QED
  BY <1>1, <1>2

(* The two counts, in either order.                                           *)
LEMMA BothAdded ==
  ASSUME CounterTypes, NEW p \in Pair
  PROVE  /\ Other(p) \in Pair /\ Other(p) # p /\ Pair = {p, Other(p)}
         /\ Added("parent") + Added("child") = Added(p) + Added(Other(p))
<1>1. Other(p) \in Pair /\ Other(p) # p /\ Pair = {p, Other(p)}
  BY DEF Pair, Other
<1>2. Added("parent") \in Nat /\ Added("child") \in Nat
  BY AddedTypes DEF Pair
<1>3. CASE p = "parent"
  <2>1. Other(p) = "child"
    BY <1>3 DEF Other
  <2>2. QED
    BY <1>1, <1>3, <2>1
<1>4. CASE p = "child"
  <2>1. Other(p) = "parent"
    BY <1>4 DEF Other
  <2>2. QED
    BY <1>1, <1>2, <1>4, <2>1
<1>5. QED
  BY <1>1, <1>3, <1>4 DEF Pair

LEMMA CounterInitOK == CounterInit => CounterInv
<1> SUFFICES ASSUME CounterInit PROVE CounterInv
  OBVIOUS
<1>1. Turns \in Nat /\ Turns >= 2
  BY TurnsAssumption
<1>2. CounterTypes
  <2>1. destroyed \in BOOLEAN
    BY Zenon DEF CounterInit
  <2>2. QED
    BY <1>1, <2>1 DEF CounterInit, CounterTypes
<1>3. TurnsLeft
  BY <1>1 DEF CounterInit, TurnsLeft
<1>4. Locked /\ Fresh
  BY DEF CounterInit, Locked, Fresh, Critical
<1>5. \A p \in Pair : turns[p] = Turns /\ atomics[p] = Turns /\ reg[p] = 0
  BY DEF CounterInit
<1>6. Added("parent") = 0 /\ Added("child") = 0
  <2>1. ASSUME NEW p \in Pair PROVE Added(p) = 0
    <3>1. Added(p) = Step(p) * (Turns - Turns) /\ Step(p) \in {1, 2}
      BY <1>5, AddedTypes, <1>2 DEF Added
    <3>2. QED
      BY <1>1, <3>1
  <2>2. QED
    BY <2>1 DEF Pair
<1>7. num = 0 /\ a_int = 0
  BY DEF CounterInit
<1>8. Total
  BY <1>6, <1>7 DEF Total
<1>9. Unlocked
  <2>1. "parent" \in Pair /\ "child" \in Pair
    BY DEF Pair
  <2>2. a_int = (Turns - atomics["parent"]) + (Turns - atomics["child"])
    BY <1>1, <1>5, <1>7, <2>1
  <2>3. \A p \in Pair : turns[p] # 0 /\ ~(turns[p] < Turns)
    BY <1>1, <1>5
  <2>4. QED
    BY <1>5, <1>6, <1>7, <2>1, <2>2, <2>3 DEF Unlocked
<1>10. QED
  BY <1>2, <1>3, <1>4, <1>8, <1>9 DEF CounterInv

\* A step that only moves a process, with whoever holds the lock.
Moves(p, pcs) ==
  /\ UNCHANGED <<kind, turns, num>> /\ destroyed' \in BOOLEAN
  /\ \E pc \in pcs : kpc' = [kpc EXCEPT ![p] = pc]

(* The counts of steps that neither load nor store.                           *)
LEMMA CountsKept ==
  ASSUME CounterInv, NEW p \in Pair,
         Moves(p, {"atomic", "lock", "load", "unlock", "end", "done", "dead"}), reg' = reg,
         kind = "none" =>
           a_int' = (Turns - atomics'["parent"]) + (Turns - atomics'["child"])
  PROVE  Fresh' /\ (kind' # "none" => Total') /\ Unlocked'
<1>1. \A q \in Pair : Added(q)' = Added(q)
  BY AddedKept DEF Moves
<1>2. Added("parent")' = Added("parent") /\ Added("child")' = Added("child")
  BY <1>1 DEF Pair
<1>3. \A q \in Pair : kpc'[q] = "store" => kpc[q] = "store"
  BY DEF CounterInv, CounterTypes, Moves
<1>4. kind' = kind /\ num' = num /\ turns' = turns
  BY DEF Moves
<1>5. Fresh'
  BY <1>3, <1>4 DEF CounterInv, Fresh
<1>6. kind' # "none" => Total'
  BY <1>2, <1>4 DEF CounterInv, Total
<1>7. Unlocked'
  BY <1>2, <1>3, <1>4 DEF CounterInv, Unlocked
<1>8. QED
  BY <1>5, <1>6, <1>7

(* An atomic increment is counted.                                            *)
LEMMA AtomicStep ==
  ASSUME CounterInv, NEW p \in Pair, atomic(p)
  PROVE  CounterInv'
<1>1. /\ kpc[p] = "atomic" /\ a_int' = a_int + 1
      /\ atomics' = [atomics EXCEPT ![p] = atomics[p] - 1]
      /\ kpc' = [kpc EXCEPT ![p] = IF atomics[p] = 1 THEN "lock" ELSE "atomic"]
      /\ UNCHANGED <<kind, turns, reg, num, holder, destroyed>>
  BY DEF atomic
<1>2. atomics[p] \in 1 .. Turns /\ Turns \in Nat
  BY <1>1, TurnsAssumption DEF CounterInv, CounterTypes, TurnsLeft
<1>3. CounterTypes'
  <2>1. atomics' \in [Pair -> 0 .. Turns] /\ a_int' \in Nat
    BY <1>1, <1>2 DEF CounterInv, CounterTypes
  <2>2. QED
    BY <1>1, <2>1 DEF CounterInv, CounterTypes
<1>4. TurnsLeft'
  <2> SUFFICES ASSUME NEW q \in Pair
               PROVE  /\ kpc'[q] \in {"atomic", "lock", "load", "store"} => turns'[q] >= 1
                      /\ kpc'[q] \in {"end", "done"} => turns'[q] = 0
                      /\ kpc'[q] = "atomic" => atomics'[q] >= 1
                      /\ kind' = "none" /\ kpc'[q] \notin {"atomic", "dead"} => atomics'[q] = 0
    BY DEF TurnsLeft
  <2>1. CASE q = p
    <3>1. atomics'[p] = atomics[p] - 1 /\ turns'[p] >= 1
      BY <1>1, <1>2 DEF CounterInv, CounterTypes, TurnsLeft
    <3>2. \/ atomics[p] = 1 /\ kpc'[p] = "lock"
          \/ atomics[p] # 1 /\ kpc'[p] = "atomic"
      BY <1>1 DEF CounterInv, CounterTypes
    <3>3. QED
      BY <1>2, <2>1, <3>1, <3>2
  <2>2. CASE q # p
    <3>1. kpc'[q] = kpc[q] /\ atomics'[q] = atomics[q]
      BY <1>1, <2>2 DEF CounterInv, CounterTypes
    <3>2. QED
      BY <1>1, <3>1 DEF CounterInv, TurnsLeft
  <2>3. QED
    BY <2>1, <2>2
<1>5. Locked'
  BY <1>1 DEF CounterInv, CounterTypes, Locked, Critical
<1>6. kind = "none" => a_int' = (Turns - atomics'["parent"]) + (Turns - atomics'["child"])
  <2>1. ASSUME kind = "none"
        PROVE  a_int = (Turns - atomics["parent"]) + (Turns - atomics["child"])
    BY <2>1 DEF CounterInv, Unlocked
  <2>2. atomics["parent"] \in Nat /\ atomics["child"] \in Nat
    BY TurnsAssumption DEF CounterInv, CounterTypes, Pair
  <2>3. \/ atomics'["parent"] = atomics["parent"] - 1 /\ atomics'["child"] = atomics["child"]
        \/ atomics'["parent"] = atomics["parent"] /\ atomics'["child"] = atomics["child"] - 1
    BY <1>1 DEF CounterInv, CounterTypes, Pair
  <2>4. QED
    BY <1>1, <1>2, <2>1, <2>2, <2>3
<1>7. Fresh' /\ (kind' # "none" => Total') /\ Unlocked'
  <2>1. Moves(p, {"atomic", "lock", "load", "unlock", "end", "done", "dead"}) /\ reg' = reg
    BY Zenon, <1>1 DEF Moves, CounterInv, CounterTypes
  <2>2. QED
    BY <1>6, <2>1, CountsKept
<1>8. QED
  BY <1>3, <1>4, <1>5, <1>7 DEF CounterInv

(* A lock, an unlock, an end or a kill keeps the processes apart.             *)
LEMMA MoveStep ==
  ASSUME CounterInv, NEW p \in Pair,
         lock(p) \/ unlock(p) \/ end_process(p) \/ kill_counter(p)
  PROVE  CounterInv'
<1>1. UNCHANGED <<kind, turns, atomics, reg, num, a_int>>
  BY DEF lock, unlock, end_process, kill_counter
<1>2. \/ kpc[p] = "lock" /\ kpc' = [kpc EXCEPT ![p] = "load"]
      \/ /\ kpc[p] = "unlock"
         /\ kpc' = [kpc EXCEPT ![p] = IF turns[p] = 0 THEN "end" ELSE "lock"]
      \/ kpc[p] = "end" /\ kpc' = [kpc EXCEPT ![p] = "done"]
      \/ kpc[p] \notin {"done", "dead"} /\ kpc' = [kpc EXCEPT ![p] = "dead"]
  BY DEF lock, unlock, end_process, kill_counter
<1>3. CounterTypes'
  <2>1. holder' \in Pair \cup {"free"}
    BY DEF CounterInv, CounterTypes, lock, unlock, end_process, kill_counter
  <2>2. destroyed' \in BOOLEAN
    BY Zenon DEF CounterInv, CounterTypes, lock, unlock, end_process, kill_counter
  <2>3. QED
    BY <1>1, <1>2, <2>1, <2>2 DEF CounterInv, CounterTypes
<1>4. TurnsLeft'
  <2>1. turns[p] \in Nat
    BY TurnsAssumption DEF CounterInv, CounterTypes
  <2>2. \A q \in Pair : q # p => kpc'[q] = kpc[q]
    BY <1>2 DEF CounterInv, CounterTypes
  <2>3. /\ kpc'[p] \in {"atomic", "lock", "load", "store"} => turns[p] >= 1
        /\ kpc'[p] \in {"end", "done"} => turns[p] = 0
        /\ kpc'[p] # "atomic"
        /\ kpc'[p] = "dead" \/ kpc[p] \in {"lock", "unlock", "end"}
    BY <1>2, <2>1 DEF CounterInv, CounterTypes, TurnsLeft
  <2>4. QED
    BY <1>1, <2>2, <2>3 DEF CounterInv, TurnsLeft
<1>5. Locked'
  <2> SUFFICES ASSUME kind # "none"
               PROVE  /\ ~destroyed' => \A q \in Pair : Critical(q)' => holder' = q
                      /\ destroyed' => \E q \in Pair : kpc'[q] = "done"
    BY <1>1 DEF Locked
  <2>1. /\ ~destroyed => \A q \in Pair : Critical(q) => holder = q
        /\ destroyed => \E q \in Pair : kpc[q] = "done"
    BY DEF CounterInv, Locked
  <2>2. \A q \in Pair : q # p => kpc'[q] = kpc[q]
    BY <1>2 DEF CounterInv, CounterTypes
  <2>3. kpc[p] # "done"
    BY <1>2
  <2>4. CASE lock(p)
    <3>1. destroyed' = destroyed /\ (~destroyed => holder = "free" /\ holder' = p)
      BY <2>4 DEF lock
    <3>2. p # "free" /\ \A q \in Pair : q # "free"
      BY DEF Pair
    <3>3. QED
      BY <2>1, <2>2, <2>3, <3>1, <3>2 DEF Critical
  <2>5. CASE unlock(p)
    <3>1. /\ destroyed' = destroyed /\ holder' = (IF holder = p THEN "free" ELSE holder)
          /\ ~Critical(p)'
      BY <2>5 DEF unlock, Critical, CounterInv, CounterTypes
    <3>2. QED
      BY <2>1, <2>2, <2>3, <3>1 DEF Critical
  <2>6. CASE end_process(p)
    <3>1. holder' = holder /\ kpc'[p] = "done" /\ (destroyed => destroyed')
      BY <2>6 DEF end_process, CounterInv, CounterTypes
    <3>2. QED
      BY <2>1, <2>2, <3>1 DEF Critical
  <2>7. CASE kill_counter(p)
    <3>1. /\ destroyed' = destroyed /\ kpc'[p] = "dead"
          /\ holder' = holder \/ (holder = p /\ holder' = "free")
      BY <2>7 DEF kill_counter, CounterInv, CounterTypes
    <3>2. QED
      BY <2>1, <2>2, <2>3, <3>1 DEF Critical
  <2>8. QED
    BY <2>4, <2>5, <2>6, <2>7
<1>6. Fresh' /\ (kind' # "none" => Total') /\ Unlocked'
  <2>1. Moves(p, {"atomic", "lock", "load", "unlock", "end", "done", "dead"})
    BY <1>1, <1>2, <1>3 DEF Moves, CounterTypes
  <2>2. kind = "none" => a_int' = (Turns - atomics'["parent"]) + (Turns - atomics'["child"])
    BY <1>1 DEF CounterInv, Unlocked
  <2>3. QED
    BY <1>1, <2>1, <2>2, CountsKept
<1>7. QED
  BY <1>3, <1>4, <1>5, <1>6 DEF CounterInv

(* Under a lock at most one process is between lock and unlock.               *)
LEMMA Alone ==
  ASSUME CounterInv, kind # "none", NEW p \in Pair, Critical(p)
  PROVE  \A q \in Pair \ {p} : ~Critical(q)
<1>1. CASE ~destroyed
  BY <1>1 DEF CounterInv, Locked
<1>2. CASE destroyed
  <2>1. PICK q \in Pair : kpc[q] = "done"
    BY <1>2 DEF CounterInv, Locked
  <2>2. q # p
    BY <2>1 DEF Critical
  <2>3. Pair = {p, q}
    BY <2>2 DEF Pair
  <2>4. QED
    BY <2>1, <2>3 DEF Critical
<1>3. QED
  BY <1>1, <1>2

(* A load.                                                                    *)
LEMMA LoadStep ==
  ASSUME CounterInv, NEW p \in Pair, load(p)
  PROVE  CounterInv'
<1>1. /\ kpc[p] = "load" /\ reg' = [reg EXCEPT ![p] = num]
      /\ kpc' = [kpc EXCEPT ![p] = "store"]
      /\ UNCHANGED <<kind, turns, atomics, num, a_int, holder, destroyed>>
  BY DEF load
<1>2. /\ kpc'[p] = "store" /\ reg'[p] = num
      /\ \A q \in Pair : q # p => kpc'[q] = kpc[q] /\ reg'[q] = reg[q]
  BY <1>1 DEF CounterInv, CounterTypes
<1>3. CounterTypes'
  BY <1>1 DEF CounterInv, CounterTypes
<1>4. TurnsLeft' /\ Locked' /\ Fresh'
  BY <1>1, <1>2 DEF CounterInv, TurnsLeft, Locked, Critical, Fresh
<1>5. Added("parent")' = Added("parent") /\ Added("child")' = Added("child")
  BY <1>1, AddedKept DEF Pair
<1>6. (kind' # "none" => Total') /\ Unlocked'
  BY <1>1, <1>2, <1>5 DEF CounterInv, Total, Unlocked
<1>7. QED
  BY <1>3, <1>4, <1>6 DEF CounterInv

(* A store adds to what was loaded: under a lock to the present value, and    *)
(* without one to some value that is no larger than the stores so far.        *)
LEMMA StoreStep ==
  ASSUME CounterInv, NEW p \in Pair, store(p)
  PROVE  CounterInv'
<1> DEFINE q == Other(p)
           sum == Added("parent") + Added("child")
           sumN == Added("parent")' + Added("child")'
<1>1. /\ kpc[p] = "store" /\ num' = reg[p] + Step(p) /\ reg' = [reg EXCEPT ![p] = 0]
      /\ kpc' = [kpc EXCEPT ![p] = "unlock"] /\ turns' = [turns EXCEPT ![p] = turns[p] - 1]
      /\ UNCHANGED <<kind, atomics, a_int, holder, destroyed>>
  BY DEF store
<1>2. /\ turns[p] \in 1 .. Turns /\ Turns \in Nat /\ Turns >= 2 /\ reg[p] \in Nat
      /\ num \in Nat
  BY <1>1, TurnsAssumption DEF CounterInv, CounterTypes, TurnsLeft
<1>3. /\ kpc'[p] = "unlock" /\ reg'[p] = 0 /\ turns'[p] = turns[p] - 1
      /\ \A r \in Pair : r # p => kpc'[r] = kpc[r] /\ reg'[r] = reg[r] /\ turns'[r] = turns[r]
  BY <1>1 DEF CounterInv, CounterTypes
<1>4. Step(p) \in {1, 2} /\ (kind = "none" => Step(p) = 1)
  BY AddedTypes DEF CounterInv
<1>5. CounterTypes'
  <2>1. turns' \in [Pair -> 0 .. Turns]
    BY <1>1, <1>2 DEF CounterInv, CounterTypes
  <2>2. reg' \in [Pair -> Nat] /\ num' \in Nat
    BY <1>1, <1>2, <1>4 DEF CounterInv, CounterTypes
  <2>3. QED
    BY <1>1, <2>1, <2>2 DEF CounterInv, CounterTypes
<1>6. TurnsLeft'
  <2>1. kind = "none" => atomics[p] = 0
    BY <1>1 DEF CounterInv, TurnsLeft
  <2>2. QED
    BY <1>1, <1>3, <2>1 DEF CounterInv, TurnsLeft
<1>7. Locked'
  BY <1>1, <1>3 DEF CounterInv, Locked, Critical
<1>8. q \in Pair /\ q # p /\ Pair = {p, q} /\ sum = Added(p) + Added(q)
  BY BothAdded DEF CounterInv
<1>9. sumN = Added(p)' + Added(q)'
  <2>1. /\ Added("parent")' \in Nat /\ Added("child")' \in Nat
    <3>1. \A r \in Pair : Step(r)' \in {1, 2} /\ turns'[r] \in 0 .. Turns
      BY <1>5 DEF CounterTypes, Step
    <3>2. ASSUME NEW r \in Pair PROVE Added(r)' \in Nat
      <4>1. Added(r)' = Step(r)' * (Turns - turns'[r])
        BY DEF Added
      <4>2. Step(r)' \in {1, 2} /\ turns'[r] \in 0 .. Turns
        BY <3>1
      <4>3. CASE Step(r)' = 1
        BY <1>2, <4>1, <4>2, <4>3
      <4>4. CASE Step(r)' = 2
        BY <1>2, <4>1, <4>2, <4>4
      <4>5. QED
        BY <4>2, <4>3, <4>4
    <3>3. QED
      BY <3>2 DEF Pair
  <2>2. (p = "parent" /\ q = "child") \/ (p = "child" /\ q = "parent")
    BY DEF Other, Pair
  <2>3. QED
    BY <2>1, <2>2
<1>10. Added(p)' = Added(p) + Step(p) /\ Added(q)' = Added(q)
  <2>1. Step(p)' = Step(p) /\ Step(q)' = Step(q)
    BY <1>1 DEF Step
  <2>2. Added(p)' = Step(p) * (Turns - (turns[p] - 1)) /\ Added(p) = Step(p) * (Turns - turns[p])
    BY <1>3, <2>1 DEF Added
  <2>3. Added(q)' = Added(q)
    BY <1>3, <1>8, <2>1 DEF Added
  <2>4. CASE Step(p) = 1
    BY <1>2, <2>2, <2>3, <2>4
  <2>5. CASE Step(p) = 2
    BY <1>2, <2>2, <2>3, <2>5
  <2>6. QED
    BY <1>4, <2>4, <2>5
<1>11. Added(p) \in Nat /\ Added(q) \in Nat
  BY <1>8, AddedTypes DEF CounterInv
<1>12. sumN = sum + Step(p) /\ sum \in Nat
  BY <1>4, <1>8, <1>9, <1>10, <1>11
<1> HIDE DEF q
<1>13. Fresh' /\ (kind' # "none" => Total')
  <2>1. ASSUME kind # "none" PROVE Fresh' /\ Total'
    <3>1. reg[p] = num /\ num = sum
      BY <1>1, <2>1 DEF CounterInv, Fresh, Total
    <3>2. Total'
      BY <1>1, <1>12, <3>1 DEF Total
    <3>3. kpc[q] # "store"
      BY <1>1, <1>8, <2>1, Alone DEF Critical
    <3>4. \A r \in Pair : kpc'[r] # "store"
      BY <1>3, <1>8, <3>3
    <3>5. QED
      BY <3>2, <3>4 DEF Fresh
  <2>2. QED
    BY <1>1, <2>1 DEF Fresh
<1>14. Unlocked'
  <2> SUFFICES ASSUME kind = "none" PROVE Unlocked'
    BY <1>1 DEF Unlocked
  <2>1. /\ num <= sum /\ reg[p] <= sum /\ reg[q] <= sum
        /\ (turns[p] < Turns => reg[p] >= 1)
        /\ (kpc[q] = "store" /\ turns[q] < Turns => reg[q] >= 1)
        /\ a_int = (Turns - atomics["parent"]) + (Turns - atomics["child"])
    BY <1>1, <1>8 DEF CounterInv, Unlocked
  <2>2. Step(p) = 1 /\ num' = reg[p] + 1 /\ sumN = sum + 1
    BY <1>1, <1>4, <1>12
  <2>3. reg[q] \in Nat
    BY <1>8 DEF CounterInv, CounterTypes
  <2>4. num' <= sumN /\ num' >= 1 /\ reg'[p] <= sumN /\ reg'[q] <= sumN
    <3>1. reg'[q] = reg[q]
      BY <1>3, <1>8
    <3> HIDE DEF sum, sumN
    <3>2. QED
      BY <1>2, <1>3, <1>12, <2>1, <2>2, <2>3, <3>1
  <2>5. turns'[p] = 0 => num' >= 2
    <3>1. turns'[p] = 0 => turns[p] < Turns
      BY <1>2, <1>3
    <3>2. QED
      BY <1>2, <2>1, <2>2, <3>1
  <2>6. \A r \in Pair : r = p \/ r = q
    BY <1>8
  <2>7. \A r \in Pair :
           /\ reg'[r] <= sumN
           /\ turns'[r] < Turns => num' >= 1
           /\ kpc'[r] = "store" /\ turns'[r] < Turns => reg'[r] >= 1
    BY <1>3, <1>8, <2>1, <2>4, <2>6
  <2>8. QED
    BY <1>1, <2>1, <2>4, <2>5, <2>7 DEF Unlocked
<1>15. QED
  BY <1>5, <1>6, <1>7, <1>13, <1>14 DEF CounterInv

(* Two processes that count in shared memory: under the mutex or the file     *)
(* lock no increment is lost, whoever is killed and although the first one to *)
(* end destroys the mutex; without a lock the plain counter ends between 2    *)
(* and all, and the atomic one at all.  (ShareMutexFunc and FileLockFunc of   *)
(* ipc_lock_trivial.cpp, main of ipc_atomic_trivial.cpp)                      *)
THEOREM CountersRight == CounterSpec => []NoLostIncrement
<1>1. CounterInit => CounterInv
  BY CounterInitOK
<1>2. CounterInv /\ [CounterNext]_counterVars => CounterInv'
  <2> SUFFICES ASSUME CounterInv, [CounterNext]_counterVars PROVE CounterInv'
    OBVIOUS
  <2>1. CASE UNCHANGED counterVars
    BY <2>1 DEF counterVars, CounterInv, CounterTypes, TurnsLeft, Locked, Critical, Fresh, Total,
                Unlocked, Added, Step
  <2>2. ASSUME NEW p \in Pair, counter(p) \/ kill_counter(p) PROVE CounterInv'
    BY <2>2, AtomicStep, MoveStep, LoadStep, StoreStep DEF counter
  <2>3. QED
    BY <2>1, <2>2 DEF CounterNext
<1>3. CounterInv => NoLostIncrement
  <2> SUFFICES ASSUME CounterInv PROVE NoLostIncrement
    OBVIOUS
  <2>1. kind # "none" => num = Added("parent") + Added("child")
    BY DEF CounterInv, Total
  <2>2. ASSUME kind = "none", \A p \in Pair : kpc[p] = "done"
        PROVE  num \in 2 .. 2 * Turns /\ a_int = 2 * Turns
    <3>1. \A p \in Pair : turns[p] = 0 /\ atomics[p] = 0 /\ Step(p) = 1
      BY <2>2, AddedTypes DEF CounterInv, TurnsLeft
    <3>2. "parent" \in Pair /\ "child" \in Pair /\ Turns \in Nat
      BY TurnsAssumption DEF Pair
    <3>3. Added("parent") = Turns /\ Added("child") = Turns
      BY <3>1, <3>2 DEF Added
    <3>4. /\ num <= Added("parent") + Added("child") /\ num >= 2 /\ num \in Nat
          /\ a_int = (Turns - atomics["parent"]) + (Turns - atomics["child"])
      BY <2>2, <3>1 DEF CounterInv, CounterTypes, Unlocked
    <3>5. QED
      BY <3>1, <3>2, <3>3, <3>4
  <2>3. QED
    BY <2>1, <2>2 DEF NoLostIncrement
<1>4. QED
  BY <1>1, <1>2, <1>3, PTL DEF CounterSpec

-----------------------------------------------------------------------------
(* Operations on the database (SQLiteAccess)                                  *)

DbSpec == DbInit /\ [][DbNext]_dbVars

DbTypes ==
  /\ dpc \in {"idle", "open", "compile", "begin", "rows", "end", "close",
              "statement", "database"}
  /\ op \in Operations /\ objVec \in Vectors /\ row \in 1 .. Len(objVec) + 1
  /\ res \in {"ok", "error"} /\ m_pDb \in {"none", "open", "freed"}
  /\ pstmt \in {"null", "compiled"}
  /\ file \subseteq RowKeys /\ view \subseteq RowKeys /\ before \subseteq RowKeys
  /\ inTrans \in BOOLEAN
  /\ slips \subseteq {"compile", "commit", "step", "kill"}
  /\ closedTwice \in BOOLEAN /\ ops \in 0 .. MaxOps

\* The first elements of objVec, and those of the rows stepped so far.
FirstKeys(m) == {objVec[k] : k \in 1 .. m}
AllKeys == FirstKeys(Len(objVec))
Deletes == {"Delete", "DelBySql"}

\* The connection and the statement, from the open to the two closes.
Handles ==
  /\ dpc = "open" => m_pDb = "none" /\ pstmt = "null"
  /\ dpc = "compile" => m_pDb = "open" /\ pstmt = "null"
  /\ dpc \in {"begin", "rows", "end"} => m_pDb = "open" /\ pstmt = "compiled"
  /\ dpc = "close" => m_pDb = "open" /\ (pstmt = "null" => "compile" \in slips)
  /\ dpc = "statement" => \/ m_pDb = "open" /\ pstmt = "compiled"
                          \/ m_pDb = "freed" /\ pstmt = "null" /\ "compile" \in slips
  /\ dpc = "database" => /\ m_pDb \in {"open", "freed"} /\ pstmt = "null"
                         /\ m_pDb = "freed" => "compile" \in slips
  /\ dpc # "idle" => ~closedTwice
  /\ dpc = "idle" => pstmt = "null"
  /\ ConnectionFreed

\* A transaction is open only from begin on, and only what it hides is not in
\* the file.
Transaction ==
  /\ dpc \in {"idle", "open", "compile", "begin"} => ~inTrans
  /\ dpc \in {"rows", "end"} => (inTrans <=> op \in Transactional)
  /\ dpc = "begin" => op \in Transactional
  /\ ~inTrans => view = file

\* The file has what was there before, without all or none of what is deleted,
\* or with the first rows that are inserted.
FileWhole ==
  /\ op \in Deletes => file \in {before, before \ AllKeys}
  /\ op = "Insert" => \E m \in 0 .. Len(objVec) : file = before \cup FirstKeys(m)

\* Before the first row nothing has happened.
NotBegun ==
  dpc \in {"open", "compile", "begin"} =>
    /\ file = before /\ row = 1 /\ slips = {}
    /\ op # "Query" => objVec # <<>>
    /\ res = IF op = "DelBySql" THEN "error" ELSE "ok"

\* Between the rows the connection sees the work of the rows so far.
BetweenRows ==
  dpc = "rows" =>
    /\ slips = {} /\ (op # "Query" => row <= Len(objVec))
    /\ op = "Delete" => res = "ok" /\ file = before /\ view = before \ FirstKeys(row - 1)
    /\ op = "DelBySql" => res = "error" /\ file = before /\ view = before /\ row = 1
    /\ op = "Insert" => res = "ok" /\ file = before \cup FirstKeys(row - 1)

\* After them, a result of success means all of them.
AfterRows ==
  dpc = "end" =>
    /\ op \in Deletes => /\ slips = {} /\ file = before
                         /\ res = "ok" => view = before \ AllKeys
    /\ op = "Insert" => slips = {} /\ (res = "ok" => file = before \cup AllKeys)

\* What the result says of the file once the transaction has ended.
ResultTrue ==
  dpc \in {"idle", "close", "statement", "database"} =>
    /\ op \in Deletes /\ res = "ok" /\ slips = {} => file = before \ AllKeys
    /\ op \in Deletes /\ res = "error" /\ "kill" \notin slips => file = before
    /\ op = "Insert" /\ res = "ok" /\ slips = {} => file = before \cup AllKeys

DbInv ==
  /\ DbTypes /\ Handles /\ Transaction /\ FileWhole
  /\ NotBegun /\ BetweenRows /\ AfterRows /\ ResultTrue

(* A vector is a sequence of keys.                                            *)
LEMMA VectorKeys ==
  ASSUME NEW v \in Vectors
  PROVE  /\ v \in Seq(RowKeys) /\ Len(v) \in Nat
         /\ \A k \in 1 .. Len(v) : v[k] \in RowKeys
         /\ v # <<>> => Len(v) >= 1
         /\ Range(v) = {v[k] : k \in 1 .. Len(v)}
         /\ \A m \in 0 .. Len(v) : Range(SubSeq(v, 1, m)) = {v[k] : k \in 1 .. m}
<1>1. v \in Seq(RowKeys)
  BY DbAssumption
<1>2. Len(v) \in Nat /\ DOMAIN v = 1 .. Len(v)
  BY <1>1, LenProperties
<1>3. \A k \in 1 .. Len(v) : v[k] \in RowKeys
  BY <1>1, ElementOfSeq
<1>4. v # <<>> => Len(v) >= 1
  <2>1. v # <<>> => Len(v) # 0
    BY <1>1, EmptySeq
  <2>2. QED
    BY <1>2, <2>1
<1>5. Range(v) = {v[k] : k \in 1 .. Len(v)}
  BY <1>2 DEF Range
<1>6. ASSUME NEW m \in 0 .. Len(v) PROVE Range(SubSeq(v, 1, m)) = {v[k] : k \in 1 .. m}
  <2>1. /\ SubSeq(v, 1, m) \in Seq(RowKeys) /\ Len(SubSeq(v, 1, m)) = m
        /\ \A k \in 1 .. m : SubSeq(v, 1, m)[k] = v[k]
    <3>1. SubSeq(v, 1, m) = [k \in 1 .. m |-> v[k]]
      BY <1>1, <1>2
    <3>2. m \in Nat /\ \A k \in 1 .. m : v[k] \in RowKeys
      BY <1>2, <1>3
    <3>3. [k \in 1 .. m |-> v[k]] \in Seq(RowKeys) /\ Len([k \in 1 .. m |-> v[k]]) = m
      BY <3>2, SeqDef
    <3>4. QED
      BY <3>1, <3>3
  <2>2. DOMAIN SubSeq(v, 1, m) = 1 .. m
    BY <2>1, LenProperties
  <2>3. QED
    BY Zenon, <2>1, <2>2 DEF Range
<1>7. QED
  BY <1>1, <1>2, <1>3, <1>4, <1>5, <1>6

LEMMA DbInitOK == DbInit => DbInv
<1> SUFFICES ASSUME DbInit PROVE DbInv
  OBVIOUS
<1>1. Len(objVec) = 0
  BY EmptySeq DEF DbInit
<1>2. DbTypes
  <2>1. /\ inTrans \in BOOLEAN /\ closedTwice \in BOOLEAN
    BY Zenon DEF DbInit
  <2>2. row \in 1 .. Len(objVec) + 1 /\ ops \in 0 .. MaxOps
    BY <1>1, DbAssumption DEF DbInit
  <2>3. QED
    BY <2>1, <2>2, DbAssumption DEF DbInit, DbTypes, Operations, Transactional
<1>3. Handles
  BY DEF DbInit, Handles, ConnectionFreed
<1>4. Transaction
  BY DEF DbInit, Transaction
<1>5. FileWhole /\ NotBegun /\ BetweenRows /\ AfterRows /\ ResultTrue
  BY DEF DbInit, FileWhole, NotBegun, BetweenRows, AfterRows, ResultTrue, Deletes
<1>6. QED
  BY <1>2, <1>3, <1>4, <1>5 DEF DbInv

(* A call begins with the file as it is.                                      *)
LEMMA CallStep ==
  ASSUME DbInv, NEW o \in Operations, NEW v \in Vectors, call(o, v)
  PROVE  DbInv'
<1>1. /\ dpc = "idle" /\ ops < MaxOps
      /\ op' = o /\ objVec' = v /\ row' = 1 /\ ops' = ops + 1
      /\ dpc' = IF v = <<>> /\ o # "Query" THEN "idle" ELSE "open"
      /\ res' = IF o = "DelBySql" /\ v # <<>> THEN "error" ELSE "ok"
      /\ before' = file /\ slips' = {}
      /\ m_pDb' = "none" /\ pstmt' = "null" /\ closedTwice' = FALSE
      /\ UNCHANGED <<file, view, inTrans>>
  BY DEF call
<1>2. Len(v) \in Nat
  BY VectorKeys
<1>3. DbTypes'
  <2>1. row' \in 1 .. Len(objVec') + 1
    BY <1>1, <1>2
  <2>2. ops' \in 0 .. MaxOps
    BY <1>1, DbAssumption DEF DbInv, DbTypes
  <2>3. closedTwice' \in BOOLEAN /\ inTrans' \in BOOLEAN
    BY Zenon, <1>1 DEF DbInv, DbTypes
  <2>4. QED
    BY <1>1, <2>1, <2>2, <2>3 DEF DbInv, DbTypes
<1>4. Handles'
  BY <1>1 DEF Handles, ConnectionFreed
<1>5. Transaction'
  BY <1>1 DEF DbInv, Transaction
<1>6. FileWhole'
  <2>1. FirstKeys(0)' = {}
    BY DEF FirstKeys
  <2>2. 0 \in 0 .. Len(objVec')
    BY <1>1, <1>2
  <2>3. file' = before' \cup FirstKeys(0)'
    BY <1>1, <2>1
  <2>4. QED
    BY <1>1, <2>2, <2>3 DEF FileWhole
<1>7. NotBegun' /\ BetweenRows' /\ AfterRows'
  BY <1>1 DEF NotBegun, BetweenRows, AfterRows
<1>8. ResultTrue'
  <2> SUFFICES ASSUME v = <<>> PROVE file' = before' \ AllKeys' /\ file' = before' \cup AllKeys'
    BY <1>1 DEF ResultTrue
  <2>1. Len(objVec') = 0
    BY <1>1, EmptySeq
  <2>2. AllKeys' = {}
    BY <2>1 DEF AllKeys, FirstKeys
  <2>3. QED
    BY <1>1, <2>2
<1>9. QED
  BY <1>3, <1>4, <1>5, <1>6, <1>7, <1>8 DEF DbInv

(* open, compileStatement and beginTransaction do not touch the rows.         *)
LEMMA PrepareStep ==
  ASSUME DbInv, open \/ (\E valid \in BOOLEAN : compileStatement(valid)) \/ beginTransaction
  PROVE  DbInv'
<1>1. /\ UNCHANGED <<op, objVec, row, file, view, before, closedTwice, ops>>
      /\ dpc \in {"open", "compile", "begin"}
  BY DEF open, compileStatement, beginTransaction
<1>2. \/ dpc = "open" /\ dpc' = "compile" /\ m_pDb' = "open" /\ UNCHANGED <<res, pstmt, slips, inTrans>>
      \/ /\ dpc = "compile" /\ pstmt' = "compiled" /\ UNCHANGED <<res, slips, m_pDb, inTrans>>
         /\ dpc' = IF op \in Transactional THEN "begin" ELSE "rows"
      \/ /\ dpc = "compile" /\ pstmt' = "null" /\ res' = "error" /\ dpc' = "close"
         /\ slips' = slips \cup {"compile"} /\ UNCHANGED <<m_pDb, inTrans>>
      \/ dpc = "begin" /\ dpc' = "rows" /\ inTrans' = TRUE /\ UNCHANGED <<res, m_pDb, pstmt, slips>>
  BY DEF open, compileStatement, beginTransaction
<1>3. /\ file = before /\ view = file /\ row = 1 /\ slips = {} /\ ~inTrans
      /\ op # "Query" => objVec # <<>>
      /\ res = IF op = "DelBySql" THEN "error" ELSE "ok"
  BY <1>1 DEF DbInv, NotBegun, Transaction
<1>4. DbTypes'
  <2>1. inTrans' \in BOOLEAN
    BY Zenon, <1>2 DEF DbInv, DbTypes
  <2>2. QED
    BY Zenon, <1>1, <1>2, <2>1 DEF DbInv, DbTypes
<1>5. Handles'
  BY <1>1, <1>2 DEF DbInv, Handles, ConnectionFreed
<1>6. Transaction'
  BY <1>1, <1>2, <1>3 DEF DbInv, Transaction
<1>7. \A m : FirstKeys(m)' = FirstKeys(m)
  BY <1>1 DEF FirstKeys
<1>8. AllKeys' = AllKeys
  BY <1>1 DEF AllKeys, FirstKeys
<1>9. FileWhole'
  BY <1>1, <1>7, <1>8 DEF DbInv, FileWhole
<1>10. NotBegun' /\ AfterRows' /\ ResultTrue'
  BY <1>1, <1>2, <1>3 DEF NotBegun, AfterRows, ResultTrue, Deletes
<1>11. BetweenRows'
  <2>1. FirstKeys(row - 1)' = {}
    <3>1. row' - 1 = 0
      BY <1>1, <1>3
    <3>2. 1 .. (row' - 1) = {}
      BY <3>1
    <3>3. QED
      BY <3>2 DEF FirstKeys
  <2>2. op # "Query" => row <= Len(objVec)
    BY <1>3, VectorKeys DEF DbInv, DbTypes
  <2>3. QED
    BY <1>1, <1>2, <1>3, <2>1, <2>2 DEF BetweenRows
<1>12. QED
  BY <1>4, <1>5, <1>6, <1>9, <1>10, <1>11 DEF DbInv

(* One more row is one more key.                                              *)
LEMMA OneMoreKey ==
  ASSUME DbTypes, row <= Len(objVec)
  PROVE  /\ row \in 1 .. Len(objVec) /\ objVec[row] \in RowKeys
         /\ FirstKeys(row) = FirstKeys(row - 1) \cup {objVec[row]}
         /\ Range(objVec) = AllKeys
<1>1. Len(objVec) \in Nat /\ row \in 1 .. Len(objVec)
  BY VectorKeys DEF DbTypes
<1>2. \A k : k \in 1 .. row <=> (k \in 1 .. row - 1 \/ k = row)
  BY <1>1
<1>3. FirstKeys(row) = FirstKeys(row - 1) \cup {objVec[row]}
  BY <1>2 DEF FirstKeys
<1>4. Range(objVec) = AllKeys /\ objVec[row] \in RowKeys
  BY <1>1, VectorKeys DEF DbTypes, AllKeys, FirstKeys
<1>5. QED
  BY <1>1, <1>3, <1>4

(* A row that fails changes no row.                                           *)
LEMMA RowFails ==
  ASSUME DbInv, dpc = "rows", dpc' = "end",
         UNCHANGED <<view, file, row, op, objVec, m_pDb, pstmt, inTrans, before, closedTwice, ops>>,
         res' = IF op = "Query" THEN res ELSE "error",
         slips' = IF op = "Query" THEN slips \cup {"step"} ELSE slips
  PROVE  DbInv'
<1>1. DbTypes'
  BY DEF DbInv, DbTypes
<1>2. Handles' /\ Transaction'
  BY DEF DbInv, Handles, Transaction, ConnectionFreed
<1>3. \A m : FirstKeys(m)' = FirstKeys(m)
  BY DEF FirstKeys
<1>4. AllKeys' = AllKeys
  BY DEF AllKeys, FirstKeys
<1>5. FileWhole'
  BY <1>3, <1>4 DEF DbInv, FileWhole
<1>6. NotBegun' /\ BetweenRows' /\ ResultTrue'
  BY DEF NotBegun, BetweenRows, ResultTrue
<1>7. AfterRows'
  BY DEF DbInv, BetweenRows, AfterRows, Deletes
<1>8. QED
  BY <1>1, <1>2, <1>5, <1>6, <1>7 DEF DbInv

(* A row that is stepped.                                                     *)
LEMMA RowStepped ==
  ASSUME DbInv, dpc = "rows", row <= Len(objVec),
         UNCHANGED <<op, objVec, m_pDb, pstmt, inTrans, before, closedTwice, ops, slips>>,
         view' = Stepped, file' = IF inTrans THEN file ELSE Stepped,
         res' = IF op = "Query" THEN res ELSE "ok", row' = row + 1,
         dpc' = IF op = "DelBySql" \/ row = Len(objVec) THEN "end" ELSE "rows"
  PROVE  DbInv'
<1>1. /\ row \in 1 .. Len(objVec) /\ objVec[row] \in RowKeys /\ Len(objVec) \in Nat
      /\ FirstKeys(row) = FirstKeys(row - 1) \cup {objVec[row]}
      /\ Range(objVec) = AllKeys
  BY OneMoreKey, VectorKeys DEF DbInv, DbTypes
<1>2. /\ slips = {} /\ (inTrans <=> op \in Transactional) /\ (~inTrans => view = file)
      /\ op = "Delete" => res = "ok" /\ file = before /\ view = before \ FirstKeys(row - 1)
      /\ op = "DelBySql" => res = "error" /\ file = before /\ view = before /\ row = 1
      /\ op = "Insert" => res = "ok" /\ file = before \cup FirstKeys(row - 1)
  BY DEF DbInv, Transaction, BetweenRows
<1>3. /\ op = "Insert" => Stepped = view \cup {objVec[row]}
      /\ op = "Delete" => Stepped = view \ {objVec[row]}
      /\ op = "DelBySql" => Stepped = view \ Range(objVec)
      /\ op \in {"Query", "Update"} => Stepped = view
  BY DEF Stepped
<1>4. op \in {"Insert", "Delete", "DelBySql", "Query", "Update"}
  BY DEF DbInv, DbTypes, Operations, Transactional
<1>5. view' \subseteq RowKeys /\ file' \subseteq RowKeys
  BY <1>1, <1>3, <1>4 DEF DbInv, DbTypes
<1>6. DbTypes'
  <2>1. row' \in 1 .. Len(objVec') + 1
    BY <1>1
  <2>2. QED
    BY <1>5, <2>1 DEF DbInv, DbTypes
<1>7. Handles'
  BY DEF DbInv, Handles, ConnectionFreed
<1>8. Transaction'
  BY <1>2 DEF Transaction
<1>9. \A m : FirstKeys(m)' = FirstKeys(m)
  BY DEF FirstKeys
<1>10. AllKeys' = AllKeys
  BY DEF AllKeys, FirstKeys
<1>11. op = "Insert" => file' = before \cup FirstKeys(row)
  BY <1>1, <1>2, <1>3 DEF Transactional
<1>12. op = "Delete" => file' = before /\ view' = before \ FirstKeys(row)
  BY <1>1, <1>2, <1>3 DEF Transactional
<1>13. op = "DelBySql" => file' = before /\ view' = before \ AllKeys
  BY <1>1, <1>2, <1>3 DEF Transactional
<1>14. FileWhole'
  <2>1. row \in 0 .. Len(objVec)
    BY <1>1
  <2>2. QED
    BY <1>9, <1>10, <1>11, <1>12, <1>13, <2>1 DEF FileWhole, Deletes
<1>15. NotBegun' /\ ResultTrue'
  BY DEF NotBegun, ResultTrue
<1>16. BetweenRows'
  <2>1. row' - 1 = row
    BY <1>1
  <2>2. row # Len(objVec) => row' <= Len(objVec')
    BY <1>1
  <2>3. FirstKeys(row - 1)' = FirstKeys(row)
    BY <2>1 DEF FirstKeys
  <2>4. QED
    BY <1>2, <1>11, <1>12, <2>2, <2>3 DEF BetweenRows
<1>17. AfterRows'
  <2>1. row = Len(objVec) => FirstKeys(row) = AllKeys
    BY DEF AllKeys
  <2>2. QED
    BY <1>2, <1>10, <1>11, <1>12, <1>13, <2>1 DEF AfterRows, Deletes
<1>18. QED
  BY <1>6, <1>7, <1>8, <1>14, <1>15, <1>16, <1>17 DEF DbInv

(* A row is stepped, or a query ends.                                         *)
LEMMA RowStep ==
  ASSUME DbInv, (\E locked \in BOOLEAN : step_row(locked)) \/ no_rows
  PROVE  DbInv'
<1>1. ASSUME NEW locked \in BOOLEAN, step_row(locked) PROVE DbInv'
  <2>1. CASE locked \/ Violates
    BY <1>1, <2>1, RowFails DEF step_row
  <2>2. CASE ~(locked \/ Violates)
    BY <1>1, <2>2, RowStepped DEF step_row
  <2>3. QED
    BY <2>1, <2>2
<1>2. ASSUME no_rows PROVE DbInv'
  <2>1. /\ dpc = "rows" /\ objVec = <<>> /\ dpc' = "end"
        /\ UNCHANGED <<op, objVec, row, res, m_pDb, pstmt, file, view, inTrans, before,
                       slips, closedTwice, ops>>
    BY <1>2 DEF no_rows
  <2>2. op = "Query"
    <3>1. Len(objVec) = 0 /\ row \in 1 .. Len(objVec) + 1
      BY <2>1, EmptySeq DEF DbInv, DbTypes
    <3>2. ~(row <= Len(objVec))
      BY <3>1
    <3>3. QED
      BY <2>1, <3>2 DEF DbInv, BetweenRows
  <2>3. DbTypes' /\ Handles' /\ Transaction'
    BY <2>1 DEF DbInv, DbTypes, Handles, Transaction, ConnectionFreed
  <2>4. FileWhole' /\ NotBegun' /\ BetweenRows' /\ AfterRows' /\ ResultTrue'
    BY <2>1, <2>2 DEF FileWhole, NotBegun, BetweenRows, AfterRows, ResultTrue, Deletes
  <2>5. QED
    BY <2>3, <2>4 DEF DbInv
<1>3. QED
  BY <1>1, <1>2

(* The transaction ends: rolled back after an error, otherwise committed, or  *)
(* left open by a commit that fails.                                          *)
LEMMA EndStep ==
  ASSUME DbInv, NEW locked \in BOOLEAN, end_transaction(locked)
  PROVE  DbInv'
<1>1. /\ dpc = "end" /\ dpc' = "close"
      /\ UNCHANGED <<op, objVec, row, res, m_pDb, pstmt, before, closedTwice, ops>>
  BY DEF end_transaction
<1>2. \/ ~inTrans /\ UNCHANGED <<file, view, inTrans, slips>>
      \/ inTrans /\ res = "error" /\ view' = file /\ inTrans' = FALSE /\ UNCHANGED <<file, slips>>
      \/ inTrans /\ res = "ok" /\ file' = view /\ inTrans' = FALSE /\ UNCHANGED <<view, slips>>
      \/ /\ inTrans /\ res = "ok" /\ slips' = slips \cup {"commit"}
         /\ UNCHANGED <<file, view, inTrans>>
  <2>1. res \in {"ok", "error"}
    BY DEF DbInv, DbTypes
  <2>2. QED
    BY Zenon, <2>1 DEF end_transaction
<1>3. /\ inTrans <=> op \in Transactional
      /\ ~inTrans => view = file
      /\ op \in Deletes => /\ slips = {} /\ file = before
                           /\ res = "ok" => view = before \ AllKeys
      /\ op = "Insert" => slips = {} /\ (res = "ok" => file = before \cup AllKeys)
  BY <1>1 DEF DbInv, Transaction, AfterRows
<1>4. DbTypes'
  <2>1. inTrans' \in BOOLEAN
    BY Zenon, <1>2 DEF DbInv, DbTypes
  <2>2. file' \subseteq RowKeys /\ view' \subseteq RowKeys
    BY <1>2 DEF DbInv, DbTypes
  <2>3. slips' \subseteq {"compile", "commit", "step", "kill"}
    BY Zenon, <1>2 DEF DbInv, DbTypes
  <2>4. QED
    BY <1>1, <2>1, <2>2, <2>3 DEF DbInv, DbTypes
<1>5. Handles'
  BY <1>1 DEF DbInv, Handles, ConnectionFreed
<1>6. Transaction'
  BY <1>1, <1>2, <1>3 DEF Transaction
<1>7. \A m : FirstKeys(m)' = FirstKeys(m)
  BY <1>1 DEF FirstKeys
<1>8. AllKeys' = AllKeys
  BY <1>1 DEF AllKeys, FirstKeys
<1>9. FileWhole'
  <2>1. op \in Deletes => file' \in {before, before \ AllKeys}
    BY <1>2, <1>3
  <2>2. op = "Insert" => file' = file
    BY <1>2, <1>3 DEF Transactional
  <2>3. QED
    BY <1>1, <1>7, <1>8, <2>1, <2>2 DEF DbInv, FileWhole
<1>10. NotBegun' /\ BetweenRows' /\ AfterRows'
  BY <1>1 DEF NotBegun, BetweenRows, AfterRows
<1>11. ResultTrue'
  <2>1. op \in Deletes => op \in Transactional
    BY DEF Deletes, Transactional
  <2>2. op \in Deletes /\ res = "ok" /\ slips' = {} => file' = before \ AllKeys
    BY <1>2, <1>3, <2>1
  <2>3. op \in Deletes /\ res = "error" => file' = before
    BY <1>2, <1>3
  <2>4. op = "Insert" /\ res = "ok" => file' = before \cup AllKeys
    BY <1>2, <1>3 DEF Transactional
  <2>5. QED
    BY <1>1, <1>8, <2>2, <2>3, <2>4 DEF ResultTrue
<1>12. QED
  BY <1>4, <1>5, <1>6, <1>9, <1>10, <1>11 DEF DbInv

(* The closes and the destructors leave the file and the result alone.        *)
LEMMA LeaveStep ==
  ASSUME DbInv, close \/ finalize \/ close_again
  PROVE  DbInv'
<1>1. /\ UNCHANGED <<op, objVec, row, res, file, before, slips, ops>>
      /\ \/ dpc = "close" /\ dpc' = "statement" /\ pstmt' = pstmt /\ sqlite3_close
         \/ /\ dpc = "statement" /\ dpc' = "database" /\ pstmt' = "null"
            /\ UNCHANGED <<m_pDb, view, inTrans, closedTwice>>
         \/ dpc = "database" /\ dpc' = "idle" /\ pstmt' = pstmt /\ sqlite3_close
  BY DEF close, finalize, close_again
<1>2. \/ UNCHANGED <<m_pDb, view, inTrans, closedTwice>> /\ dpc # "database"
      \/ /\ pstmt = "null" /\ m_pDb' = "freed" /\ view' = file /\ inTrans' = FALSE
         /\ closedTwice' = (closedTwice \/ m_pDb = "freed")
  BY <1>1 DEF sqlite3_close, DbInv, DbTypes, Handles
<1>3. DbTypes'
  <2>1. inTrans' \in BOOLEAN /\ closedTwice' \in BOOLEAN
    BY Zenon, <1>2 DEF DbInv, DbTypes
  <2>2. QED
    BY <1>1, <1>2, <2>1 DEF DbInv, DbTypes
<1>4. Handles'
  <2>1. CASE dpc = "close"
    <3>1. m_pDb = "open" /\ (pstmt = "null" => "compile" \in slips) /\ ~closedTwice
      BY <2>1 DEF DbInv, Handles
    <3>2. pstmt \in {"null", "compiled"}
      BY DEF DbInv, DbTypes
    <3>3. ~closedTwice'
      BY Zenon, <1>2, <3>1
    <3>4. \/ m_pDb' = "open" /\ pstmt' = "compiled"
          \/ m_pDb' = "freed" /\ pstmt' = "null" /\ "compile" \in slips'
      BY <1>1, <2>1, <3>1, <3>2 DEF sqlite3_close
    <3>5. QED
      BY <1>1, <2>1, <3>3, <3>4 DEF Handles, ConnectionFreed
  <2>2. CASE dpc = "statement"
    BY <1>1, <2>2 DEF DbInv, Handles, ConnectionFreed
  <2>3. CASE dpc = "database"
    <3>1. /\ m_pDb = "freed" => "compile" \in slips
          /\ pstmt = "null" /\ ~closedTwice
      BY <2>3 DEF DbInv, Handles
    <3>2. m_pDb' = "freed" /\ pstmt' = "null" /\ (closedTwice' => "compile" \in slips')
      BY Zenon, <1>1, <1>2, <2>3, <3>1
    <3>3. QED
      BY <1>1, <2>3, <3>2 DEF Handles, ConnectionFreed
  <2>4. QED
    BY <1>1, <2>1, <2>2, <2>3
<1>5. Transaction'
  BY <1>1, <1>2 DEF DbInv, Transaction
<1>6. \A m : FirstKeys(m)' = FirstKeys(m)
  BY <1>1 DEF FirstKeys
<1>7. AllKeys' = AllKeys
  BY <1>1 DEF AllKeys, FirstKeys
<1>8. FileWhole'
  BY <1>1, <1>6, <1>7 DEF DbInv, FileWhole
<1>9. NotBegun' /\ BetweenRows' /\ AfterRows'
  BY <1>1 DEF NotBegun, BetweenRows, AfterRows
<1>10. ResultTrue'
  BY <1>1, <1>7 DEF DbInv, ResultTrue
<1>11. QED
  BY <1>3, <1>4, <1>5, <1>8, <1>9, <1>10 DEF DbInv

(* Wherever the process is killed, the file is what it was committed to be.   *)
LEMMA KillStep ==
  ASSUME DbInv, kill
  PROVE  DbInv'
<1>1. /\ dpc' = "idle" /\ slips' = slips \cup {"kill"}
      /\ view' = file /\ inTrans' = FALSE
      /\ m_pDb' = "freed" /\ pstmt' = "null" /\ closedTwice' = FALSE
      /\ UNCHANGED <<op, objVec, row, res, file, before, ops>>
  BY DEF kill
<1>2. DbTypes'
  <2>1. inTrans' \in BOOLEAN /\ closedTwice' \in BOOLEAN
    BY Zenon, <1>1
  <2>2. QED
    BY <1>1, <2>1 DEF DbInv, DbTypes
<1>3. Handles' /\ Transaction'
  BY <1>1 DEF Handles, Transaction, ConnectionFreed
<1>4. \A m : FirstKeys(m)' = FirstKeys(m)
  BY <1>1 DEF FirstKeys
<1>5. AllKeys' = AllKeys
  BY <1>1 DEF AllKeys, FirstKeys
<1>6. FileWhole'
  BY <1>1, <1>4, <1>5 DEF DbInv, FileWhole
<1>7. NotBegun' /\ BetweenRows' /\ AfterRows' /\ ResultTrue'
  BY <1>1 DEF NotBegun, BetweenRows, AfterRows, ResultTrue
<1>8. QED
  BY <1>2, <1>3, <1>6, <1>7 DEF DbInv

(* Operations on the database, for every vector of rows, with another process *)
(* that locks the file and a kill at any step: a deletion is all or nothing   *)
(* and an insertion row by row, and the result says which, except after a     *)
(* failed commit; a connection is freed once, except after a statement that   *)
(* did not compile.  (dbopmacros.h, dboperatefunc.cpp, SQLiteDatabase.cpp)    *)
THEOREM OperationsWhole ==
  DbSpec => [](DbTypeOK /\ ConnectionFreed /\ DeleteAtomic /\ InsertPrefix)
<1>1. DbInit => DbInv
  BY DbInitOK
<1>2. DbInv /\ [DbNext]_dbVars => DbInv'
  <2> SUFFICES ASSUME DbInv, [DbNext]_dbVars PROVE DbInv'
    OBVIOUS
  <2>1. CASE UNCHANGED dbVars
    BY <2>1 DEF dbVars, DbInv, DbTypes, Handles, ConnectionFreed, Transaction, FileWhole, NotBegun,
                BetweenRows, AfterRows, ResultTrue, FirstKeys, AllKeys
  <2>2. ASSUME NEW o \in Operations, NEW v \in Vectors, call(o, v) PROVE DbInv'
    BY <2>2, CallStep
  <2>3. CASE open \/ (\E valid \in BOOLEAN : compileStatement(valid)) \/ beginTransaction
    BY <2>3, PrepareStep
  <2>4. CASE (\E locked \in BOOLEAN : step_row(locked)) \/ no_rows
    BY <2>4, RowStep
  <2>5. ASSUME NEW locked \in BOOLEAN, end_transaction(locked) PROVE DbInv'
    BY <2>5, EndStep
  <2>6. CASE close \/ finalize \/ close_again
    BY <2>6, LeaveStep
  <2>7. CASE kill
    BY <2>7, KillStep
  <2>8. QED
    BY <2>1, <2>2, <2>3, <2>4, <2>5, <2>6, <2>7 DEF DbNext
<1>3. DbInv => DbTypeOK /\ ConnectionFreed /\ DeleteAtomic /\ InsertPrefix
  <2> SUFFICES ASSUME DbInv
               PROVE  DbTypeOK /\ ConnectionFreed /\ DeleteAtomic /\ InsertPrefix
    OBVIOUS
  <2>1. objVec \in Vectors
    BY DEF DbInv, DbTypes
  <2>2. /\ Range(objVec) = AllKeys
        /\ \A m \in 0 .. Len(objVec) : Range(SubSeq(objVec, 1, m)) = FirstKeys(m)
    BY <2>1, VectorKeys DEF AllKeys, FirstKeys
  <2>3. pstmt = "compiled" => m_pDb = "open"
    BY DEF DbInv, DbTypes, Handles
  <2>4. DbTypeOK
    BY <2>3 DEF DbInv, DbTypes, DbTypeOK, Transaction
  <2>5. ConnectionFreed
    BY DEF DbInv, Handles
  <2>6. DeleteAtomic
    BY <2>2 DEF DbInv, FileWhole, ResultTrue, DeleteAtomic, Deletes
  <2>7. InsertPrefix
    BY <2>2 DEF DbInv, FileWhole, ResultTrue, InsertPrefix
  <2>8. QED
    BY <2>4, <2>5, <2>6, <2>7
<1>4. QED
  BY <1>1, <1>2, <1>3, PTL DEF DbSpec


-----------------------------------------------------------------------------
(* Induction over data: what the recursive functions of Exercises compute    *)

(* A set of natural numbers has a least element.                             *)
LEMMA LeastNat ==
  ASSUME NEW T \in SUBSET Nat, T # {}
  PROVE  \E k \in T : \A m \in T : k <= m
<1> DEFINE R == {ss \in Nat \X Nat : ss[1] < ss[2]}
<1>1. IsWellFoundedOn(R, Nat)
  BY NatLessThanWellFounded DEF OpToRel
<1>2. \A m, k \in Nat : m < k => <<m, k>> \in R
  OBVIOUS
<1> HIDE DEF R
<1>3. PICK k \in T : \A m \in T : ~(<<m, k>> \in R)
  BY <1>1, WFMin, Zenon
<1>4. ASSUME NEW m \in T PROVE k <= m
  <2>1. m \in Nat /\ k \in Nat /\ ~(m < k)
    BY Zenon, <1>2, <1>3
  <2> QED BY <2>1
<1>5. QED
  BY <1>4

\* T has x if it has everything smaller.
Inductive(D, size, T) ==
  \A x \in D : (\A y \in D : size[y] < size[x] => y \in T) => x \in T

(* Induction on the size: the facts about every argument follow from those   *)
(* about the smaller ones.                                                   *)
LEMMA BySize ==
  ASSUME NEW D, NEW size \in [D -> Nat], NEW T, Inductive(D, size, T)
  PROVE  D \subseteq T
<1> SUFFICES ASSUME NEW z \in D, z \notin T PROVE FALSE
  OBVIOUS
<1> DEFINE N == {size[x] : x \in D \ T}
<1>1. N \in SUBSET Nat /\ N # {}
  OBVIOUS
<1>2. PICK k \in N : \A m \in N : k <= m
  <2> HIDE DEF N
  <2> QED BY <1>1, LeastNat
<1>3. PICK x \in D \ T : size[x] = k
  OBVIOUS
<1>4. ASSUME NEW y \in D, size[y] < size[x], y \notin T PROVE FALSE
  <2>1. size[y] \in N
    BY <1>4
  <2>2. k <= size[y] /\ k \in Nat
    BY <2>1, <1>1, <1>2
  <2> QED BY <1>3, <1>4, <2>2
<1>5. QED
  BY <1>3, <1>4 DEF Inductive

\* H computes the value of a function at x from its values at smaller arguments.
Recurses(D, V, size, H) ==
  /\ V # {} /\ size \in [D -> Nat] /\ H \in [[D -> V] \X D -> V]
  /\ \A g, h \in [D -> V] : \A x \in D :
       (\A y \in D : size[y] < size[x] => g[y] = h[y]) => H[<<g, x>>] = H[<<h, x>>]

Solves(g, D, V, H) == g \in [D -> V] /\ \A x \in D : g[x] = H[<<g, x>>]

(* A recursion on smaller arguments has a solution.                          *)
LEMMA Recursion ==
  ASSUME NEW D, NEW V, NEW size, NEW H, Recurses(D, V, size, H)
  PROVE  \E g : Solves(g, D, V, H)
<1>0. /\ V # {} /\ size \in [D -> Nat] /\ H \in [[D -> V] \X D -> V]
      /\ \A g, h \in [D -> V] : \A x \in D :
           (\A y \in D : size[y] < size[x] => g[y] = h[y]) => H[<<g, x>>] = H[<<h, x>>]
  BY Zenon DEF Recurses
<1> USE <1>0
<1> DEFINE App(k) == {g \in [D -> V] : \A x \in D : size[x] < k => g[x] = H[<<g, x>>]}
<1>1. ASSUME NEW k \in Nat, NEW g \in App(k), NEW h \in App(k)
      PROVE  \A x \in D : size[x] < k => g[x] = h[x]
  <2> DEFINE T == {x \in D : size[x] < k => g[x] = h[x]}
  <2>1. ASSUME NEW x \in D, \A y \in D : size[y] < size[x] => y \in T PROVE x \in T
    <3> SUFFICES ASSUME size[x] < k PROVE g[x] = h[x]
      OBVIOUS
    <3>1. \A y \in D : size[y] < size[x] => g[y] = h[y]
      BY <2>1
    <3>2. H[<<g, x>>] = H[<<h, x>>]
      BY Zenon, <1>0, <3>1
    <3> QED BY <3>2
  <2>2. D \subseteq T
    <3> HIDE DEF T
    <3> QED BY <2>1, BySize DEF Inductive
  <2> QED BY <2>2
<1>2. \A k \in Nat : App(k) # {}
  <2> DEFINE T == {k \in Nat : App(k) # {}}
             id == [k \in Nat |-> k]
  <2>1. ASSUME NEW k \in Nat, \A m \in Nat : id[m] < id[k] => m \in T PROVE k \in T
    <3>1. CASE k = 0
      <4>1. PICK v \in V : TRUE
        OBVIOUS
      <4>2. [x \in D |-> v] \in App(0)
        OBVIOUS
      <4> QED BY <3>1, <4>2
    <3>2. CASE k # 0
      <4>1. k - 1 \in Nat
        BY <3>2
      <4>6. id[k - 1] < id[k]
        BY <4>1
      <4>2. PICK g \in App(k - 1) : TRUE
        BY Zenon, <2>1, <4>1, <4>6
      <4> DEFINE h == [x \in D |-> IF size[x] < k - 1 THEN g[x] ELSE H[<<g, x>>]]
      <4>3. h \in [D -> V] /\ g \in [D -> V]
        OBVIOUS
      <4>4. ASSUME NEW x \in D, size[x] < k PROVE h[x] = H[<<h, x>>]
        <5>1. \A y \in D : size[y] < size[x] => g[y] = h[y]
          BY <4>1, <4>4
        <5>2. H[<<g, x>>] = H[<<h, x>>]
          BY Zenon, <1>0, <4>3, <5>1
        <5>3. h[x] = H[<<g, x>>]
          OBVIOUS
        <5> QED BY Zenon, <5>2, <5>3
      <4>5. h \in App(k)
        BY Zenon, <4>3, <4>4
      <4> QED BY Zenon, <4>5
    <3> QED BY Zenon, <3>1, <3>2
  <2>2. Nat \subseteq T
    <3> id \in [Nat -> Nat]
      OBVIOUS
    <3> HIDE DEF T, id
    <3> QED BY Zenon, <2>1, BySize DEF Inductive
  <2> QED BY Zenon, <2>2
<1>3. ASSUME NEW x \in D PROVE \E g \in App(size[x] + 1) : TRUE
  <2>1. size[x] + 1 \in Nat
    OBVIOUS
  <2> HIDE DEF App
  <2> QED BY <1>2, <2>1
<1> DEFINE best == [x \in D |-> CHOOSE g \in App(size[x] + 1) : TRUE]
           f == [x \in D |-> best[x][x]]
<1>4. ASSUME NEW x \in D PROVE best[x] \in App(size[x] + 1)
  <2> HIDE DEF App
  <2> QED BY <1>3
<1>5. ASSUME NEW x \in D PROVE best[x] \in [D -> V] /\ best[x][x] = H[<<best[x], x>>]
  <2>1. size[x] < size[x] + 1
    OBVIOUS
  <2>2. best[x] \in App(size[x] + 1)
    BY Zenon, <1>4
  <2> HIDE DEF best
  <2> QED BY Zenon, <2>1, <2>2
<1> HIDE DEF best
<1>6. f \in [D -> V]
  BY Zenon, <1>5
<1>7. ASSUME NEW x \in D PROVE f[x] = H[<<f, x>>]
  <2>1. ASSUME NEW y \in D, size[y] < size[x] PROVE best[x][y] = f[y]
    <3>1. best[x] \in App(size[y] + 1)
      <4>1. best[x] \in App(size[x] + 1)
        BY Zenon, <1>4
      <4>2. \A z \in D : size[z] < size[y] + 1 => size[z] < size[x] + 1
        BY <2>1
      <4> QED BY Zenon, <4>1, <4>2
    <3>2. size[y] + 1 \in Nat /\ size[y] < size[y] + 1
      OBVIOUS
    <3>4. best[y] \in App(size[y] + 1)
      <4> HIDE DEF App
      <4> QED BY <1>4
    <3>3. best[x][y] = best[y][y]
      <4> HIDE DEF App
      <4> QED BY <1>1, <3>1, <3>2, <3>4
    <3> QED BY <3>3
  <2>2. f[x] = best[x][x]
    OBVIOUS
  <2> HIDE DEF f
  <2>3. H[<<best[x], x>>] = H[<<f, x>>]
    BY Zenon, <1>0, <1>5, <1>6, <2>1
  <2> QED BY Zenon, <1>5, <2>2, <2>3
<1>8. QED
  BY Zenon, <1>6, <1>7 DEF Solves

(* A function on pairs has the type of its values.                           *)
LEMMA OnPairs ==
  ASSUME NEW F, NEW D, NEW V, NEW H, H = [z \in F \X D |-> H[z]],
         \A g \in F, x \in D : H[<<g, x>>] \in V
  PROVE  H \in [F \X D -> V]
<1>1. ASSUME NEW z \in F \X D PROVE H[z] \in V
  <2>1. z[1] \in F /\ z[2] \in D /\ z = <<z[1], z[2]>>
    OBVIOUS
  <2>2. H[<<z[1], z[2]>>] \in V
    BY <2>1
  <2> QED BY <2>1, <2>2
<1> QED BY <1>1

-----------------------------------------------------------------------------
(* The prefix tree (Exercises)                                                *)

ExSpec == ExInit /\ [][ExNext]_exVars

\* The leaves are the codes inserted but the empty one, and every prefix of a code
\* inserted has a node.
TreeInv ==
  /\ inserted \subseteq Codes /\ leaves = inserted \ {<<>>}
  /\ \A code \in inserted : Prefixes1(code) \subseteq nodes

\* A code whose prefixes all have nodes is followed to its end.
LEMMA FollowedToTheEnd ==
  ASSUME NEW code \in Seq(Nat), Prefixes1(code) \subseteq nodes
  PROVE  tree_find(code) <=> code \in leaves
<1>1. Len(code) \in Nat OBVIOUS
<1>2. \A j \in 0 .. Len(code) : SubSeq(code, 1, j) \in nodes BY Zenon DEF Prefixes1
<1> DEFINE S == {k \in 0 .. Len(code) : \A j \in 0 .. k : SubSeq(code, 1, j) \in nodes}
<1>3. S = 0 .. Len(code)
  <2>1. \A k \in 0 .. Len(code) : \A j \in 0 .. k : j \in 0 .. Len(code) BY <1>1
  <2> QED BY <1>2, <2>1
<1>4. Max(S) = Len(code)
  <2>1. Len(code) \in S /\ \A y \in S : Len(code) >= y BY <1>1, <1>3
  <2>2. \A x \in S : x >= Len(code) => x = Len(code) BY <1>1, <1>3
  <2>3. Max(S) \in S /\ \A y \in S : Max(S) >= y BY <2>1 DEF Max
  <2> QED BY <2>1, <2>2, <2>3
<1> QED BY <1>4 DEF tree_find

\* However codes are inserted into the prefix tree, whatever prefixes of one another
\* they are: a code is found exactly if it was inserted and is not empty.
\* (StockPrefixTree::insert and find of stock_tree_trivial.cpp)
THEOREM CodesFound == ExSpec => []TreeRight
<1>1. ExInit => TreeInv BY DEF ExInit, TreeInv
<1>2. TreeInv /\ [ExNext]_exVars => TreeInv'
  <2> SUFFICES ASSUME TreeInv, [ExNext]_exVars PROVE TreeInv' OBVIOUS
  <2>1. ASSUME NEW c \in Codes, tree_insert(c) PROVE TreeInv'
    <3>1. /\ nodes' = nodes \cup Prefixes1(c) /\ inserted' = inserted \cup {c}
          /\ leaves' = IF c = <<>> THEN leaves ELSE leaves \cup {c}
      BY <2>1 DEF tree_insert
    <3>2. leaves' = inserted' \ {<<>>} BY <3>1 DEF TreeInv
    <3>3. \A code \in inserted' : Prefixes1(code)' \subseteq nodes' BY <3>1 DEF TreeInv, Prefixes1
    <3>4. inserted' \subseteq Codes BY <3>1 DEF TreeInv
    <3> QED BY <3>2, <3>3, <3>4 DEF TreeInv
  <2>2. CASE UNCHANGED <<inserted, leaves, nodes>> BY <2>2 DEF TreeInv, Prefixes1
  <2> QED BY Zenon, <2>1, <2>2 DEF ExNext, sort, unionVal, exVars
<1>3. TreeInv => TreeRight
  <2> SUFFICES ASSUME TreeInv, NEW c \in Codes
               PROVE  tree_find(c) <=> c \in inserted /\ c # <<>>
    BY DEF TreeRight
  <2>1. c \in Seq(Nat) BY CodesAssumption
  <2>2. CASE c \in leaves
    <3>1. c \in inserted /\ c # <<>> /\ Prefixes1(c) \subseteq nodes BY <2>2 DEF TreeInv
    <3> QED BY <2>1, <2>2, <3>1, FollowedToTheEnd
  <2>3. CASE c \notin leaves
    <3>1. ~(c \in inserted /\ c # <<>>) BY <2>3 DEF TreeInv
    <3>2. ~tree_find(c) BY <2>3 DEF tree_find
    <3> QED BY <3>1, <3>2
  <2> QED BY <2>2, <2>3
<1> QED BY <1>1, <1>2, <1>3, PTL DEF ExSpec

-----------------------------------------------------------------------------
(* The union-find set (Exercises)                                            *)

Fathers == [Elements -> Elements]

\* The fathers lead upwards: some rank falls along them.
Ranked(f, rank) == \A x \in Elements : f[x] # x => rank[f[x]] < rank[x]
Acyclic(f) == \E rank \in [Elements -> Nat] : Ranked(f, rank)

(* find ends: the recursion that computes a root has a value.                *)
LEMMA RootEquation ==
  ASSUME NEW f \in Fathers, Acyclic(f)
  PROVE  /\ \A x \in Elements : Root(f, x) \in Elements
         /\ \A x \in Elements : Root(f, x) = IF f[x] = x THEN x ELSE Root(f, f[x])
<1> DEFINE root == CHOOSE g : g = [x \in Elements |-> IF f[x] = x THEN x ELSE g[f[x]]]
           F == [Elements -> Elements]
           H == [z \in F \X Elements |-> IF f[z[2]] = z[2] THEN z[2] ELSE z[1][f[z[2]]]]
<1>1. PICK rank \in [Elements -> Nat] : Ranked(f, rank)
  BY DEF Acyclic
<1>2. H \in [F \X Elements -> Elements]
  BY DEF Fathers
<1>3. \A g \in F, x \in Elements : H[<<g, x>>] = IF f[x] = x THEN x ELSE g[f[x]]
  OBVIOUS
<1> HIDE DEF H
<1> SUFFICES ASSUME Elements # {}
             PROVE  /\ \A x \in Elements : Root(f, x) \in Elements
                    /\ \A x \in Elements : Root(f, x) = IF f[x] = x THEN x ELSE Root(f, f[x])
  OBVIOUS
<1>4. Recurses(Elements, Elements, rank, H)
  <2> SUFFICES ASSUME NEW g \in F, NEW h \in F, NEW x \in Elements,
                      \A y \in Elements : rank[y] < rank[x] => g[y] = h[y]
               PROVE  H[<<g, x>>] = H[<<h, x>>]
    BY Zenon, <1>2 DEF Recurses
  <2> QED BY <1>1, <1>3 DEF Ranked, Fathers
<1>5. PICK g : Solves(g, Elements, Elements, H)
  BY <1>4, Recursion
<1>6. g = [x \in Elements |-> IF f[x] = x THEN x ELSE g[f[x]]]
  <2>1. \A x \in Elements : g[x] = IF f[x] = x THEN x ELSE g[f[x]]
    BY Zenon, <1>3, <1>5 DEF Solves
  <2> QED BY <1>5, <2>1 DEF Solves
<1>7. root = [x \in Elements |-> IF f[x] = x THEN x ELSE root[f[x]]]
  BY <1>6
<1>8. \A x \in Elements : Root(f, x) = root[x]
  BY DEF Root
<1> HIDE DEF root
<1> DEFINE T == {x \in Elements : root[x] \in Elements}
<1>9. Inductive(Elements, rank, T)
  <2> SUFFICES ASSUME NEW x \in Elements, \A y \in Elements : rank[y] < rank[x] => y \in T
               PROVE  x \in T
    BY DEF Inductive
  <2> QED BY <1>1, <1>7 DEF Ranked, Fathers
<1>10. Elements \subseteq T
  <2> HIDE DEF T
  <2> QED BY <1>9, BySize
<1>11. QED
  BY <1>7, <1>8, <1>10 DEF Fathers

(* A root is its own father, and lies above every element it is the root of. *)
LEMMA RootFacts ==
  ASSUME NEW f \in Fathers, NEW rank \in [Elements -> Nat], Ranked(f, rank)
  PROVE  \A x \in Elements :
           /\ Root(f, x) \in Elements /\ f[Root(f, x)] = Root(f, x)
           /\ f[x] = x => Root(f, x) = x
           /\ f[x] # x => rank[Root(f, x)] < rank[x]
<1> DEFINE T == {x \in Elements : /\ f[Root(f, x)] = Root(f, x)
                                  /\ f[x] # x => rank[Root(f, x)] < rank[x]}
<1>1. /\ \A x \in Elements : Root(f, x) \in Elements
      /\ \A x \in Elements : Root(f, x) = IF f[x] = x THEN x ELSE Root(f, f[x])
  BY RootEquation DEF Acyclic
<1>2. Inductive(Elements, rank, T)
  <2> SUFFICES ASSUME NEW x \in Elements, \A y \in Elements : rank[y] < rank[x] => y \in T
               PROVE  x \in T
    BY DEF Inductive
  <2>1. CASE f[x] = x
    BY <1>1, <2>1
  <2>2. CASE f[x] # x
    <3>1. f[x] \in T /\ rank[f[x]] < rank[x] /\ f[x] \in Elements
      BY <2>2 DEF Ranked, Fathers
    <3>2. Root(f, x) = Root(f, f[x]) /\ Root(f, f[x]) \in Elements
      BY <1>1, <2>2, <3>1
    <3>3. f[f[x]] = f[x] => Root(f, f[x]) = f[x]
      BY <1>1, <3>1
    <3>4. rank[Root(f, f[x])] <= rank[f[x]]
      BY <3>1, <3>2, <3>3
    <3>5. rank[Root(f, x)] < rank[x]
      BY <3>1, <3>2, <3>4
    <3>6. f[Root(f, x)] = Root(f, x)
      BY <3>1, <3>2
    <3> QED BY <3>5, <3>6
  <2> QED BY <2>1, <2>2
<1>3. Elements \subseteq T
  <2> HIDE DEF T
  <2> QED BY <1>2, BySize
<1>4. QED
  BY <1>1, <1>3

(* The roots are the one function that follows the fathers.                  *)
LEMMA RootUnique ==
  ASSUME NEW f \in Fathers, Acyclic(f), NEW r \in Fathers,
         \A x \in Elements : r[x] = IF f[x] = x THEN x ELSE r[f[x]]
  PROVE  \A x \in Elements : Root(f, x) = r[x]
<1> DEFINE T == {x \in Elements : Root(f, x) = r[x]}
<1>1. PICK rank \in [Elements -> Nat] : Ranked(f, rank)
  BY DEF Acyclic
<1>2. \A x \in Elements : Root(f, x) = IF f[x] = x THEN x ELSE Root(f, f[x])
  BY RootEquation
<1>3. Inductive(Elements, rank, T)
  <2> SUFFICES ASSUME NEW x \in Elements, \A y \in Elements : rank[y] < rank[x] => y \in T
               PROVE  x \in T
    BY DEF Inductive
  <2> QED BY <1>1, <1>2 DEF Ranked, Fathers
<1>4. Elements \subseteq T
  <2> HIDE DEF T
  <2> QED BY <1>3, BySize
<1>5. QED
  BY <1>4

(* Giving some elements their root for a father changes no root.             *)
LEMMA Shortcuts ==
  ASSUME NEW f \in Fathers, Acyclic(f), NEW g \in Fathers,
         \A x \in Elements : g[x] \in {f[x], Root(f, x)}
  PROVE  Acyclic(g) /\ \A x \in Elements : Root(g, x) = Root(f, x)
<1> DEFINE r == [x \in Elements |-> Root(f, x)]
<1>1. PICK rank \in [Elements -> Nat] : Ranked(f, rank)
  BY DEF Acyclic
<1>2. \A x \in Elements : Root(f, x) = IF f[x] = x THEN x ELSE Root(f, f[x])
  BY RootEquation
<1>3. \A x \in Elements : /\ Root(f, x) \in Elements /\ f[Root(f, x)] = Root(f, x)
                          /\ f[x] # x => rank[Root(f, x)] < rank[x]
  BY <1>1, RootFacts
<1>4. \A x \in Elements : g[x] # x => f[x] # x
  BY <1>2
<1>5. \A x \in Elements : g[x] = x => f[x] = x
  BY <1>3
<1>6. Ranked(g, rank)
  BY <1>1, <1>3, <1>4 DEF Ranked
<1>7. Acyclic(g)
  BY <1>6 DEF Acyclic
<1>8. ASSUME NEW x \in Elements PROVE r[x] = IF g[x] = x THEN x ELSE r[g[x]]
  <2>1. g[x] \in Elements
    BY DEF Fathers
  <2>2. CASE g[x] = x
    BY <1>2, <1>5, <2>2
  <2>3. CASE g[x] # x /\ g[x] = f[x]
    BY <1>2, <2>1, <2>3
  <2>4. CASE g[x] # x /\ g[x] = Root(f, x)
    <3>1. Root(f, Root(f, x)) = Root(f, x)
      BY <1>2, <1>3
    <3> QED BY <2>1, <2>4, <3>1
  <2> QED BY <2>2, <2>3, <2>4
<1>9. r \in Fathers
  BY <1>3 DEF Fathers
<1>10. \A x \in Elements : Root(g, x) = r[x]
  <2> HIDE DEF r
  <2> QED BY <1>7, <1>8, <1>9, RootUnique
<1>11. QED
  BY <1>7, <1>10

(* find gives the elements it passes their root for a father.                *)
LEMMA FindShortens ==
  ASSUME NEW f \in Fathers, Acyclic(f), NEW u \in Elements
  PROVE  find(f, u) \in Fathers /\ \A x \in Elements : find(f, u)[x] \in {f[x], Root(f, x)}
<1> DEFINE after == CHOOSE g : g = [x \in Elements |-> IF f[x] = x THEN f
                                      ELSE [g[f[x]] EXCEPT ![x] = Root(f, x)]]
           F == [Elements -> Fathers]
           H == [z \in F \X Elements |-> IF f[z[2]] = z[2] THEN f
                                         ELSE [z[1][f[z[2]]] EXCEPT ![z[2]] = Root(f, z[2])]]
           T == {x \in Elements : /\ after[x] \in Fathers
                                  /\ \A y \in Elements : after[x][y] \in {f[y], Root(f, y)}}
<1>1. PICK rank \in [Elements -> Nat] : Ranked(f, rank)
  BY DEF Acyclic
<1>2. \A x \in Elements : Root(f, x) \in Elements
  BY RootEquation
<1>3. \A g \in F, x \in Elements :
        H[<<g, x>>] = IF f[x] = x THEN f ELSE [g[f[x]] EXCEPT ![x] = Root(f, x)]
  OBVIOUS
<1>4. \A g \in F, x \in Elements : H[<<g, x>>] \in Fathers
  BY Zenon, <1>2, <1>3 DEF Fathers
<1>5. H = [z \in F \X Elements |-> H[z]]
  OBVIOUS
<1> HIDE DEF H
<1>6. H \in [F \X Elements -> Fathers]
  <2> HIDE DEF F
  <2> QED BY Zenon, <1>4, <1>5, OnPairs
<1>7. Recurses(Elements, Fathers, rank, H)
  <2> SUFFICES ASSUME NEW g \in F, NEW h \in F, NEW x \in Elements,
                      \A y \in Elements : rank[y] < rank[x] => g[y] = h[y]
               PROVE  H[<<g, x>>] = H[<<h, x>>]
    BY Zenon, <1>6 DEF Recurses
  <2>1. f[x] \in Elements
    BY DEF Fathers
  <2>2. f[x] # x => g[f[x]] = h[f[x]]
    BY <1>1, <2>1 DEF Ranked
  <2>5. /\ H[<<g, x>>] = IF f[x] = x THEN f ELSE [g[f[x]] EXCEPT ![x] = Root(f, x)]
        /\ H[<<h, x>>] = IF f[x] = x THEN f ELSE [h[f[x]] EXCEPT ![x] = Root(f, x)]
    BY Zenon, <1>3
  <2> HIDE DEF F
  <2>3. CASE f[x] = x
    BY <2>5, <2>3
  <2>4. CASE f[x] # x
    <3>1. H[<<g, x>>] = [g[f[x]] EXCEPT ![x] = Root(f, x)]
      BY <2>4, <2>5
    <3>2. H[<<h, x>>] = [h[f[x]] EXCEPT ![x] = Root(f, x)]
      BY <2>4, <2>5
    <3> QED BY <2>2, <2>4, <3>1, <3>2
  <2> QED BY <2>3, <2>4
<1>8. PICK g : Solves(g, Elements, Fathers, H)
  BY <1>7, Recursion
<1>9. g = [x \in Elements |-> IF f[x] = x THEN f ELSE [g[f[x]] EXCEPT ![x] = Root(f, x)]]
  <2>1. \A x \in Elements : g[x] = IF f[x] = x THEN f ELSE [g[f[x]] EXCEPT ![x] = Root(f, x)]
    BY Zenon, <1>3, <1>8 DEF Solves
  <2>2. g = [x \in Elements |-> g[x]]
    BY <1>8 DEF Solves
  <2> QED BY <2>1, <2>2
<1>10. after = [x \in Elements |-> IF f[x] = x THEN f ELSE [after[f[x]] EXCEPT ![x] = Root(f, x)]]
  BY Zenon, <1>9
<1>11. find(f, u) = after[u]
  BY DEF find
<1> HIDE DEF after
<1>12. Inductive(Elements, rank, T)
  <2> SUFFICES ASSUME NEW x \in Elements, \A y \in Elements : rank[y] < rank[x] => y \in T
               PROVE  x \in T
    BY DEF Inductive
  <2>1. after[x] = IF f[x] = x THEN f ELSE [after[f[x]] EXCEPT ![x] = Root(f, x)]
    BY Zenon, <1>10
  <2>2. f[x] # x => f[x] \in T
    BY <1>1 DEF Ranked, Fathers
  <2>3. CASE f[x] = x
    BY <2>1, <2>3
  <2>4. CASE f[x] # x
    BY <1>2, <2>1, <2>2, <2>4 DEF Fathers
  <2> QED BY <2>3, <2>4
<1>13. Elements \subseteq T
  <2> HIDE DEF T
  <2> QED BY <1>12, BySize
<1>14. QED
  BY <1>11, <1>13

\* g is f with the root rv below the root ru.
Links(f, g, ru, rv) ==
  /\ f \in Fathers /\ ru \in Elements /\ rv \in Elements /\ f[ru] = ru /\ f[rv] = rv
  /\ g \in Fathers /\ g[rv] = ru /\ \A x \in Elements : x # rv => g[x] = f[x]

\* The two sets have one root in g.
Joins(f, g, ru, rv) ==
  \A x \in Elements : Root(g, x) = IF Root(f, x) = rv THEN ru ELSE Root(f, x)

(* Hanging a root below another joins the two sets and no others.            *)
LEMMA Link ==
  ASSUME NEW f, NEW g, NEW ru, NEW rv, Links(f, g, ru, rv), Acyclic(f)
  PROVE  Acyclic(g) /\ Joins(f, g, ru, rv)
<1>0. /\ f \in Fathers /\ ru \in Elements /\ rv \in Elements /\ f[ru] = ru /\ f[rv] = rv
      /\ g \in Fathers /\ g[rv] = ru /\ \A x \in Elements : x # rv => g[x] = f[x]
  BY DEF Links
<1> USE <1>0
<1>1. g \in Fathers
  OBVIOUS
<1>2. CASE ru = rv
  <2>1. g = f
    BY <1>2 DEF Fathers
  <2> QED BY <1>1, <1>2, <2>1 DEF Joins
<1>3. CASE ru # rv
  <2> USE <1>3
  <2>1. PICK rank \in [Elements -> Nat] : Ranked(f, rank)
    BY DEF Acyclic
  <2>2. \A x \in Elements : /\ Root(f, x) \in Elements
                            /\ Root(f, x) = IF f[x] = x THEN x ELSE Root(f, f[x])
    BY RootEquation
  <2>3. Root(f, ru) = ru /\ Root(f, rv) = rv
    BY <2>2
  <2> DEFINE above == [x \in Elements |-> IF Root(f, x) = rv THEN rank[x] + rank[ru] + 1 ELSE rank[x]]
             r == [x \in Elements |-> IF Root(f, x) = rv THEN ru ELSE Root(f, x)]
  <2>4. above \in [Elements -> Nat]
    OBVIOUS
  <2>5. ASSUME NEW x \in Elements, g[x] # x PROVE above[g[x]] < above[x]
    <3>1. CASE x = rv
      <4>1. g[x] = ru /\ above[ru] = rank[ru] /\ above[x] = rank[x] + rank[ru] + 1
        BY <2>3, <3>1 DEF Fathers
      <4> QED BY <4>1
    <3>2. CASE x # rv
      <4>1. g[x] = f[x] /\ f[x] # x /\ f[x] \in Elements
        BY <2>5, <3>2 DEF Fathers
      <4>2. rank[f[x]] < rank[x] /\ Root(f, x) = Root(f, f[x])
        BY <2>1, <2>2, <4>1 DEF Ranked
      <4> QED BY <4>1, <4>2
    <3> QED BY <3>1, <3>2
  <2>6. Ranked(g, above)
    BY Zenon, <2>5 DEF Ranked
  <2>7. Acyclic(g)
    <3> HIDE DEF above
    <3> QED BY <2>4, <2>6 DEF Acyclic
  <2>8. ASSUME NEW x \in Elements PROVE r[x] = IF g[x] = x THEN x ELSE r[g[x]]
    <3>1. CASE x = rv
      <4>1. g[x] = ru /\ r[ru] = ru /\ r[x] = ru
        BY <2>3, <3>1 DEF Fathers
      <4> QED BY <3>1, <4>1
    <3>2. CASE x # rv
      <4>1. g[x] = f[x] /\ f[x] \in Elements
        BY <3>2 DEF Fathers
      <4>2. f[x] # x => Root(f, x) = Root(f, f[x])
        BY <2>2
      <4>3. f[x] = x => Root(f, x) = x
        BY <2>2
      <4> QED BY <3>2, <4>1, <4>2, <4>3
    <3> QED BY <3>1, <3>2
  <2>9. r \in Fathers
    BY <2>2 DEF Fathers
  <2>10. \A x \in Elements : Root(g, x) = r[x]
    <3> HIDE DEF r
    <3> QED BY <1>1, <2>7, <2>8, <2>9, RootUnique
  <2> QED BY <1>1, <2>7, <2>10 DEF Joins
<1>4. QED
  BY <1>2, <1>3

(* The two finds of unionVal keep every root where it is.                    *)
LEMMA FindsKeepRoots ==
  ASSUME NEW f \in Fathers, Acyclic(f), NEW u \in Elements, NEW v \in Elements
  PROVE  /\ find(find(f, u), v) \in Fathers /\ Acyclic(find(find(f, u), v))
         /\ \A x \in Elements : Root(find(find(f, u), v), x) = Root(f, x)
         /\ \A x \in Elements : f[x] = x => find(find(f, u), v)[x] = x
<1>1. PICK rank \in [Elements -> Nat] : Ranked(f, rank)
  BY DEF Acyclic
<1>2. \A x \in Elements : f[x] = x => Root(f, x) = x
  BY <1>1, RootFacts
<1> DEFINE f1 == find(f, u)
           f2 == find(f1, v)
<1>3. f1 \in Fathers /\ \A x \in Elements : f1[x] \in {f[x], Root(f, x)}
  BY FindShortens
<1> HIDE DEF f1
<1>4. Acyclic(f1) /\ \A x \in Elements : Root(f1, x) = Root(f, x)
  BY <1>3, Shortcuts
<1>5. f2 \in Fathers /\ \A x \in Elements : f2[x] \in {f1[x], Root(f1, x)}
  BY <1>3, <1>4, FindShortens
<1> HIDE DEF f2
<1>6. Acyclic(f2) /\ \A x \in Elements : Root(f2, x) = Root(f1, x)
  BY <1>3, <1>4, <1>5, Shortcuts
<1>7. \A x \in Elements : f[x] = x => f2[x] = x
  BY <1>2, <1>3, <1>4, <1>5
<1>8. QED
  BY <1>4, <1>5, <1>6, <1>7 DEF f1, f2

(* What unionVal does to the roots.                                          *)
LEMMA UnionJoins ==
  ASSUME NEW f \in Fathers, Acyclic(f), NEW u \in Elements, NEW v \in Elements, NEW g,
         g = [find(find(f, u), v) EXCEPT ![Root(f, v)] = Root(f, u)]
  PROVE  /\ g \in Fathers /\ Acyclic(g)
         /\ Joins(f, g, Root(f, u), Root(f, v))
<1> DEFINE f2 == find(find(f, u), v)
           ru == Root(f, u)
           rv == Root(f, v)
<1>1. g = [f2 EXCEPT ![rv] = ru]
  OBVIOUS
<1>2. /\ f2 \in Fathers /\ Acyclic(f2)
      /\ \A x \in Elements : Root(f2, x) = Root(f, x)
      /\ \A x \in Elements : f[x] = x => f2[x] = x
  BY Zenon, FindsKeepRoots
<1>3. /\ ru \in Elements /\ f[ru] = ru
      /\ rv \in Elements /\ f[rv] = rv
  BY RootFacts DEF Acyclic
<1> SUFFICES g \in Fathers /\ Acyclic(g) /\ Joins(f, g, ru, rv)
  OBVIOUS
<1> HIDE DEF f2, ru, rv
<1>4. g \in Fathers /\ g[rv] = ru /\ \A x \in Elements : x # rv => g[x] = f2[x]
  <2>1. f2 \in [Elements -> Elements] /\ ru \in Elements /\ rv \in Elements
    BY <1>2, <1>3 DEF Fathers
  <2>2. g[rv] = ru
    BY Zenon, <1>1, <2>1
  <2>3. \A x \in Elements : x # rv => g[x] = f2[x]
    BY Zenon, <1>1, <2>1
  <2>4. g \in [Elements -> Elements]
    BY Zenon, <1>1, <2>1
  <2> QED BY <2>2, <2>3, <2>4 DEF Fathers
<1>5. Links(f2, g, ru, rv)
  BY <1>2, <1>3, <1>4, Zenon DEF Links
<1>6. Acyclic(g) /\ Joins(f2, g, ru, rv)
  BY <1>2, <1>5, Link, Zenon
<1>7. QED
  BY <1>2, <1>4, <1>6, Zenon DEF Joins

\* No pair that was united leads out of S.
Closed(S) == \A e \in united : e \cap S # {} => e \subseteq S

(* Reach ends, at the smallest closed set.                                   *)
LEMMA ReachFacts ==
  ASSUME united \subseteq SUBSET Elements, NEW u \in Elements
  PROVE  /\ Reach({u}) \subseteq Elements /\ u \in Reach({u}) /\ Closed(Reach({u}))
         /\ \A S \in SUBSET Elements : Closed(S) /\ u \in S => Reach({u}) \subseteq S
<1> DEFINE D == SUBSET Elements
           more(X) == X \cup UNION {e \in united : e \cap X # {}}
           reach == CHOOSE g : g = [X \in D |-> IF more(X) = X THEN X ELSE g[more(X)]]
           size == [X \in D |-> Cardinality(Elements \ X)]
           F == [D -> D]
           H == [z \in F \X D |-> IF more(z[2]) = z[2] THEN z[2] ELSE z[1][more(z[2])]]
           T == {X \in D : /\ reach[X] \in D /\ X \subseteq reach[X] /\ Closed(reach[X])
                           /\ \A S \in D : Closed(S) /\ X \subseteq S => reach[X] \subseteq S}
<1>0. IsFiniteSet(Elements)
  BY ElementsAssumption
<1>1. size \in [D -> Nat]
  BY <1>0, FS_Subset, FS_CardinalityType
<1>2. ASSUME NEW X \in D PROVE more(X) \in D /\ X \subseteq more(X)
  OBVIOUS
<1>3. ASSUME NEW X \in D, more(X) # X PROVE size[more(X)] < size[X]
  <2>1. /\ more(X) \in D /\ X \subseteq more(X)
    BY <1>2
  <2> HIDE DEF more
  <2>2. /\ Elements \ more(X) \subseteq Elements \ X
        /\ Elements \ more(X) # Elements \ X
    BY Zenon, <1>3, <2>1
  <2>3. IsFiniteSet(Elements \ X)
    BY <1>0, FS_Subset
  <2>4. Cardinality(Elements \ more(X)) < Cardinality(Elements \ X)
    <3> DEFINE A == Elements \ X
               B == Elements \ more(X)
    <3>1. IsFiniteSet(A) /\ B \subseteq A /\ B # A
      BY <2>2, <2>3
    <3>2. IsFiniteSet(B)
      BY <3>1, FS_Subset
    <3> HIDE DEF A, B
    <3>3. /\ Cardinality(B) <= Cardinality(A)
          /\ Cardinality(B) = Cardinality(A) => B = A
      BY <3>1, FS_Subset
    <3>4. Cardinality(A) \in Nat /\ Cardinality(B) \in Nat
      BY <3>1, <3>2, FS_CardinalityType
    <3>5. Cardinality(B) < Cardinality(A)
      BY <3>1, <3>3, <3>4
    <3> QED BY <3>5 DEF A, B
  <2> QED BY <2>1, <2>4
<1>15. ASSUME NEW X \in D PROVE Closed(X) <=> more(X) = X
  <2>1. ASSUME Closed(X) PROVE more(X) \subseteq X
    BY <2>1 DEF Closed
  <2>2. ASSUME more(X) = X PROVE Closed(X)
    BY <2>2 DEF Closed
  <2> QED BY <2>1, <2>2
<1>16. ASSUME NEW X \in D, NEW S \in D, Closed(S), X \subseteq S PROVE more(X) \subseteq S
  BY <1>16 DEF Closed
<1> HIDE DEF size, more
<1>4. \A g \in F, X \in D : H[<<g, X>>] = IF more(X) = X THEN X ELSE g[more(X)]
  OBVIOUS
<1>5. H = [z \in F \X D |-> H[z]]
  OBVIOUS
<1> HIDE DEF H
<1>6. H \in [F \X D -> D]
  <2>1. \A g \in F, X \in D : H[<<g, X>>] \in D
    BY Zenon, <1>2, <1>4
  <2> HIDE DEF F, D
  <2> QED BY Zenon, <1>5, <2>1, OnPairs
<1>7. Recurses(D, D, size, H)
  <2> SUFFICES ASSUME NEW g \in F, NEW h \in F, NEW X \in D,
                      \A Y \in D : size[Y] < size[X] => g[Y] = h[Y]
               PROVE  H[<<g, X>>] = H[<<h, X>>]
    BY Zenon, <1>1, <1>6 DEF Recurses
  <2>1. more(X) # X => g[more(X)] = h[more(X)]
    BY <1>2, <1>3
  <2> QED BY Zenon, <1>4, <2>1
<1>8. PICK g : Solves(g, D, D, H)
  BY <1>7, Recursion
<1>9. g = [X \in D |-> IF more(X) = X THEN X ELSE g[more(X)]]
  <2>1. \A X \in D : g[X] = IF more(X) = X THEN X ELSE g[more(X)]
    BY Zenon, <1>4, <1>8 DEF Solves
  <2>2. g = [X \in D |-> g[X]]
    BY <1>8 DEF Solves
  <2> QED BY Zenon, <2>1, <2>2
<1>10. reach = [X \in D |-> IF more(X) = X THEN X ELSE reach[more(X)]]
  BY <1>9
<1>11. Reach({u}) = reach[{u}]
  BY DEF Reach, more
<1> HIDE DEF reach
<1>12. Inductive(D, size, T)
  <2> SUFFICES ASSUME NEW X \in D, \A Y \in D : size[Y] < size[X] => Y \in T
               PROVE  X \in T
    BY DEF Inductive
  <2>1. reach[X] = IF more(X) = X THEN X ELSE reach[more(X)]
    BY <1>10
  <2>2. CASE more(X) = X
    BY <1>15, <2>1, <2>2
  <2>3. CASE more(X) # X
    <3>1. more(X) \in T /\ X \subseteq more(X)
      BY <1>2, <1>3, <2>3
    <3> QED BY <1>16, <2>1, <2>3, <3>1
  <2> QED BY <2>2, <2>3
<1>13. D \subseteq T
  <2> HIDE DEF T, D
  <2> QED BY <1>1, <1>12, BySize
<1>14. QED
  <2>1. {u} \in T
    BY Zenon, <1>13
  <2> QED BY Zenon, <1>11, <2>1

\* Two elements have one root in f.
OneRoot(f, x, y) == Root(f, x) = Root(f, y)

\* The fathers lead to roots; pairs that were united have one root; and elements with
\* one root lie in the same closed sets, or in one tree from the start.
UnionInv ==
  /\ vecFat \in Fathers /\ Acyclic(vecFat)
  /\ united \subseteq SUBSET Elements
  /\ \A e \in united : \A x, y \in e : OneRoot(vecFat, x, y)
  /\ shifted => \A x, y \in Elements : OneRoot(vecFat, x, y)
  /\ ~shifted => \A x, y \in Elements : OneRoot(vecFat, x, y)
                   => \A S \in SUBSET Elements : Closed(S) /\ x \in S => y \in S

(* After the constructor the roots are the elements, or all of them are 1.   *)
LEMMA UnionInitOK == ExInit => UnionInv
<1> SUFFICES ASSUME ExInit PROVE UnionInv
  OBVIOUS
<1> DEFINE own == [i \in Elements |-> i]
           shift == [i \in Elements |-> IF i = 1 THEN 1 ELSE i - 1]
           N == Cardinality(Elements)
<1>1. /\ vecFat \in {own, shift} /\ shifted = (vecFat # own) /\ united = {}
  BY DEF ExInit, UnionFindSet
<1>2. Elements = 1 .. N /\ N \in Nat
  BY ElementsAssumption, FS_CardinalityType
<1> HIDE DEF N
<1>3. \A i \in Elements : i \in Nat
  BY <1>2
<1>4. own \in Fathers /\ shift \in Fathers
  BY <1>2 DEF Fathers
<1>5. Ranked(own, own) /\ Ranked(shift, own)
  BY <1>2 DEF Ranked
<1>6. own \in [Elements -> Nat]
  BY <1>3
<1>7. Acyclic(own) /\ Acyclic(shift)
  <2> HIDE DEF own, shift
  <2> QED BY <1>5, <1>6 DEF Acyclic
<1>8. vecFat \in Fathers /\ Acyclic(vecFat)
  BY <1>1, <1>4, <1>7
<1>9. ASSUME vecFat = own, NEW x \in Elements PROVE Root(vecFat, x) = x
  <2>1. Root(own, x) = IF own[x] = x THEN x ELSE Root(own, own[x])
    <3> HIDE DEF own
    <3> QED BY <1>4, <1>7, RootEquation
  <2> QED BY <1>9, <2>1
<1>10. ASSUME vecFat = shift, NEW x \in Elements PROVE Root(vecFat, x) = 1
  <2> DEFINE r == [y \in Elements |-> 1]
  <2>1. r \in Fathers /\ \A y \in Elements : r[y] = IF shift[y] = y THEN y ELSE r[shift[y]]
    BY <1>2 DEF Fathers
  <2>2. \A y \in Elements : Root(shift, y) = r[y]
    <3> HIDE DEF shift, r
    <3> QED BY <1>4, <1>7, <2>1, RootUnique
  <2> QED BY <1>10, <2>2
<1>11. shifted => vecFat = shift
  BY Zenon, <1>1
<1>12. ~shifted => vecFat = own
  BY Zenon, <1>1
<1> HIDE DEF own, shift
<1>13. QED
  BY <1>1, <1>8, <1>9, <1>10, <1>11, <1>12 DEF UnionInv, OneRoot

(* A union keeps it.                                                         *)
LEMMA UnionStep ==
  ASSUME UnionInv, NEW u \in Elements, NEW v \in Elements, unionVal(u, v)
  PROVE  UnionInv'
<1> DEFINE g == vecFat'
<1>1. /\ vecFat \in Fathers /\ Acyclic(vecFat)
      /\ united' = united \cup {{u, v}} /\ shifted' = shifted
      /\ g = [find(find(vecFat, u), v) EXCEPT ![Root(vecFat, v)] = Root(vecFat, u)]
  BY DEF UnionInv, unionVal
<1> HIDE DEF g
<1>2. g \in Fathers /\ Acyclic(g) /\ Joins(vecFat, g, Root(vecFat, u), Root(vecFat, v))
  BY Zenon, <1>1, UnionJoins
<1>3. united' \subseteq SUBSET Elements
  BY <1>1 DEF UnionInv
<1>4. ASSUME NEW x \in Elements, NEW y \in Elements, OneRoot(vecFat, x, y)
      PROVE  OneRoot(g, x, y)
  BY <1>2, <1>4 DEF OneRoot, Joins
<1>5. OneRoot(g, u, v) /\ OneRoot(g, v, u) /\ \A x \in Elements : OneRoot(g, x, x)
  BY <1>2 DEF OneRoot, Joins
<1>6. ASSUME NEW e \in united', NEW x \in e, NEW y \in e PROVE OneRoot(g, x, y)
  <2>1. CASE e \in united
    <3>1. x \in Elements /\ y \in Elements /\ OneRoot(vecFat, x, y)
      BY <2>1 DEF UnionInv
    <3> QED BY <1>4, <3>1
  <2>2. CASE e = {u, v}
    BY <1>5, <2>2
  <2> QED BY <1>1, <2>1, <2>2
<1>7. ASSUME ~shifted, NEW x \in Elements, NEW y \in Elements, OneRoot(g, x, y),
             NEW S \in SUBSET Elements, Closed(S)', x \in S
      PROVE  y \in S
  <2>1. Closed(S)
    BY <1>1, <1>7 DEF Closed
  <2>2. u \in S <=> v \in S
    <3>1. {u, v} \cap S # {} => {u, v} \subseteq S
      BY Zenon, <1>1, <1>7 DEF Closed
    <3> QED BY <3>1
  <2>3. ASSUME NEW a \in Elements, NEW b \in Elements, OneRoot(vecFat, a, b), a \in S
        PROVE  b \in S
    BY <1>7, <2>1, <2>3 DEF UnionInv
  <2>4. \/ OneRoot(vecFat, x, y)
        \/ OneRoot(vecFat, x, v) /\ OneRoot(vecFat, u, y)
        \/ OneRoot(vecFat, x, u) /\ OneRoot(vecFat, v, y)
    BY <1>2, <1>7 DEF OneRoot, Joins
  <2>5. QED
    BY <1>7, <2>2, <2>3, <2>4
<1>8. /\ vecFat' \in Fathers /\ Acyclic(vecFat')
  BY <1>2 DEF g
<1>9. shifted' => \A x, y \in Elements : OneRoot(vecFat', x, y)
  BY Zenon, <1>1, <1>4 DEF UnionInv, g
<1>10. \A e \in united' : \A x, y \in e : OneRoot(vecFat', x, y)
  BY <1>6 DEF g
<1>11. ~shifted' => \A x, y \in Elements : OneRoot(vecFat', x, y)
                      => \A S \in SUBSET Elements : Closed(S)' /\ x \in S => y \in S
  BY <1>1, <1>7 DEF g
<1>12. QED
  BY <1>3, <1>8, <1>9, <1>10, <1>11 DEF UnionInv

(* Two elements have one root exactly if pairs that were united connect      *)
(* them, for every number of elements and every sequence of unions.          *)
(* (UnionFindSet of union_find_trivial.cpp: find with path compression,      *)
(* unionVal, and the two orders of the constructor's loop)                   *)
THEOREM UnionsConnect == ExSpec => []UnionRight
<1>1. ExInit => UnionInv
  BY UnionInitOK
<1>2. UnionInv /\ [ExNext]_exVars => UnionInv'
  <2> SUFFICES ASSUME UnionInv, [ExNext]_exVars PROVE UnionInv'
    OBVIOUS
  <2>1. ASSUME NEW u \in Elements, NEW v \in Elements, unionVal(u, v) PROVE UnionInv'
    BY <2>1, UnionStep
  <2>2. CASE UNCHANGED <<vecFat, united, shifted>>
    BY <2>2 DEF UnionInv, Closed
  <2>3. QED
    BY Zenon, <2>1, <2>2 DEF ExNext, sort, tree_insert, exVars
<1>3. UnionInv => UnionRight
  <2> SUFFICES ASSUME UnionInv, NEW u \in Elements, NEW v \in Elements
               PROVE  OneRoot(vecFat, u, v) <=> shifted \/ v \in Reach({u})
    BY Zenon DEF UnionRight, OneRoot
  <2> DEFINE S == {x \in Elements : OneRoot(vecFat, u, x)}
  <2>1. /\ Reach({u}) \subseteq Elements /\ u \in Reach({u}) /\ Closed(Reach({u}))
        /\ \A X \in SUBSET Elements : Closed(X) /\ u \in X => Reach({u}) \subseteq X
    BY Zenon, ReachFacts DEF UnionInv
  <2>2. Closed(S) /\ u \in S
    BY DEF UnionInv, Closed, OneRoot
  <2>3. Reach({u}) \subseteq S
    BY <2>1, <2>2
  <2>4. ASSUME ~shifted, OneRoot(vecFat, u, v) PROVE v \in Reach({u})
    BY Zenon, <2>1, <2>4 DEF UnionInv
  <2>5. shifted => OneRoot(vecFat, u, v)
    BY DEF UnionInv
  <2>6. QED
    BY <2>3, <2>4, <2>5
<1>4. QED
  BY <1>1, <1>2, <1>3, PTL DEF ExSpec

-----------------------------------------------------------------------------
(* quickSort and topK (Exercises)                                            *)

(* A set of numbers within bounds has a largest and a smallest element.      *)
LEMMA Extremes ==
  ASSUME NEW hi \in Nat, NEW S \in SUBSET (0 .. hi), S # {}
  PROVE  /\ Max(S) \in S /\ \A y \in S : y <= Max(S)
         /\ Min(S) \in S /\ \A y \in S : Min(S) <= y
<1> DEFINE below == {hi - y : y \in S}
<1>1. S \in SUBSET Nat /\ \A y \in S : y <= hi /\ y \in Int
  OBVIOUS
<1>2. below \in SUBSET Nat /\ below # {}
  <2>1. \A y \in S : hi - y \in Nat
    BY <1>1
  <2>2. below # {}
    OBVIOUS
  <2> QED BY <2>1, <2>2
<1>3. PICK d \in below : \A e \in below : d <= e
  <2> HIDE DEF below
  <2> QED BY <1>2, LeastNat
<1>4. PICK x \in S : d = hi - x
  OBVIOUS
<1>5. \A y \in S : hi - y \in below
  OBVIOUS
<1>6. \A y \in S : x >= y
  BY <1>1, <1>3, <1>4, <1>5
<1>7. Max(S) \in S /\ \A y \in S : Max(S) >= y
  BY Zenon, <1>6 DEF Max
<1>8. PICK z \in S : \A y \in S : z <= y
  BY <1>1, LeastNat
<1>9. Min(S) \in S /\ \A y \in S : Min(S) <= y
  BY Zenon, <1>8 DEF Min
<1>10. QED
  BY <1>1, <1>7, <1>9

\* The arrays of length m.
Array(m) == [1 .. m -> Int]

\* p moves the places of left .. right among themselves, and q moves them back.
Shuffles(m, p, q, left, right) ==
  /\ p \in [1 .. m -> 1 .. m] /\ q \in [1 .. m -> 1 .. m]
  /\ \A i \in 1 .. m : p[q[i]] = i /\ q[p[i]] = i
  /\ \A i \in 1 .. m : i \notin left .. right => p[i] = i

\* b has what a has, in another order within left .. right.
Rearranged(m, a, b, left, right) ==
  /\ a \in Array(m) /\ b \in Array(m)
  /\ \E p, q : Shuffles(m, p, q, left, right) /\ \A i \in 1 .. m : b[i] = a[p[i]]

(* What a rearrangement leaves alone, and where the rest comes from.         *)
LEMMA RearrangedFacts ==
  ASSUME NEW m \in Nat, NEW a, NEW b, NEW left \in Int, NEW right \in Int,
         Rearranged(m, a, b, left, right)
  PROVE  /\ a \in Array(m) /\ b \in Array(m)
         /\ \A i \in 1 .. m : i \notin left .. right => b[i] = a[i]
         /\ \A i \in 1 .. m : i \in left .. right => \E k \in 1 .. m : k \in left .. right /\ b[i] = a[k]
<1>1. a \in Array(m) /\ b \in Array(m)
  BY DEF Rearranged
<1>2. PICK p, q : Shuffles(m, p, q, left, right) /\ \A i \in 1 .. m : b[i] = a[p[i]]
  BY DEF Rearranged
<1>3. \A i \in 1 .. m : i \notin left .. right => b[i] = a[i]
  BY Zenon, <1>2 DEF Shuffles
<1>4. ASSUME NEW i \in 1 .. m, i \in left .. right
      PROVE  p[i] \in 1 .. m /\ p[i] \in left .. right /\ b[i] = a[p[i]]
  <2>1. p[i] \in 1 .. m /\ q[p[i]] = i
    BY <1>2 DEF Shuffles
  <2>2. ASSUME p[i] \notin left .. right PROVE FALSE
    <3>1. p[p[i]] = p[i] /\ q[p[p[i]]] = p[i]
      BY Zenon, <1>2, <2>1, <2>2 DEF Shuffles
    <3> QED BY <1>4, <2>1, <2>2, <3>1
  <2> QED BY <1>2, <2>1, <2>2
<1>5. QED
  BY <1>1, <1>3, <1>4

(* An array is a rearrangement of itself.                                    *)
LEMMA RearrangedSame ==
  ASSUME NEW m \in Nat, NEW a \in Array(m), NEW left \in Int, NEW right \in Int
  PROVE  Rearranged(m, a, a, left, right)
<1> DEFINE p == [i \in 1 .. m |-> i]
<1>1. Shuffles(m, p, p, left, right) /\ \A i \in 1 .. m : a[i] = a[p[i]]
  BY DEF Shuffles
<1> HIDE DEF p
<1>2. QED
  BY <1>1 DEF Rearranged

(* Two rearrangements in turn are one, of the range that holds both.         *)
LEMMA RearrangedTwice ==
  ASSUME NEW m \in Nat, NEW a, NEW b, NEW c, NEW left \in Int, NEW right \in Int,
         NEW l1 \in Int, NEW r1 \in Int, NEW l2 \in Int, NEW r2 \in Int,
         Rearranged(m, a, b, l1, r1), Rearranged(m, b, c, l2, r2),
         left <= l1, r1 <= right, left <= l2, r2 <= right
  PROVE  Rearranged(m, a, c, left, right)
<1>1. a \in Array(m) /\ b \in Array(m) /\ c \in Array(m)
  BY DEF Rearranged
<1>2. PICK p1, q1 : Shuffles(m, p1, q1, l1, r1) /\ \A i \in 1 .. m : b[i] = a[p1[i]]
  BY DEF Rearranged
<1>3. PICK p2, q2 : Shuffles(m, p2, q2, l2, r2) /\ \A i \in 1 .. m : c[i] = b[p2[i]]
  BY DEF Rearranged
<1> DEFINE p == [i \in 1 .. m |-> p1[p2[i]]]
           q == [i \in 1 .. m |-> q2[q1[i]]]
<1>4. /\ \A i \in 1 .. m : p1[i] \in 1 .. m /\ q1[i] \in 1 .. m /\ p1[q1[i]] = i /\ q1[p1[i]] = i
      /\ \A i \in 1 .. m : i \notin l1 .. r1 => p1[i] = i
  BY <1>2 DEF Shuffles
<1>5. /\ \A i \in 1 .. m : p2[i] \in 1 .. m /\ q2[i] \in 1 .. m /\ p2[q2[i]] = i /\ q2[p2[i]] = i
      /\ \A i \in 1 .. m : i \notin l2 .. r2 => p2[i] = i
  BY <1>3 DEF Shuffles
<1>6. p \in [1 .. m -> 1 .. m] /\ q \in [1 .. m -> 1 .. m]
  BY <1>4, <1>5
<1>7. ASSUME NEW i \in 1 .. m PROVE p[q[i]] = i /\ q[p[i]] = i /\ c[i] = a[p[i]]
  <2>1. q1[i] \in 1 .. m /\ q2[q1[i]] \in 1 .. m /\ p2[i] \in 1 .. m /\ p1[p2[i]] \in 1 .. m
    BY <1>4, <1>5
  <2>2. p[q[i]] = p1[p2[q2[q1[i]]]] /\ q[p[i]] = q2[q1[p1[p2[i]]]]
    BY <2>1
  <2>3. p2[q2[q1[i]]] = q1[i] /\ q1[p1[p2[i]]] = p2[i]
    BY <1>4, <1>5, <2>1
  <2>4. c[i] = a[p1[p2[i]]]
    BY <1>2, <1>3, <2>1
  <2>5. QED
    BY <1>4, <1>5, <2>1, <2>2, <2>3, <2>4
<1>8. ASSUME NEW i \in 1 .. m, i \notin left .. right PROVE p[i] = i
  <2>1. i \notin l1 .. r1 /\ i \notin l2 .. r2
    BY <1>8
  <2>2. QED
    BY <1>4, <1>5, <2>1
<1>9. Shuffles(m, p, q, left, right)
  BY Zenon, <1>6, <1>7, <1>8 DEF Shuffles
<1> HIDE DEF p, q
<1>10. QED
  BY <1>1, <1>7, <1>9 DEF Rearranged

(* An exchange of two elements is a rearrangement.                           *)
LEMMA RearrangedSwap ==
  ASSUME NEW m \in Nat, NEW a \in Array(m), NEW left \in Int, NEW right \in Int,
         NEW x \in 1 .. m, NEW y \in 1 .. m, x \in left .. right, y \in left .. right
  PROVE  /\ Rearranged(m, a, Swap(a, x, y), left, right)
         /\ Swap(a, x, y)[x] = a[y] /\ Swap(a, x, y)[y] = a[x]
         /\ \A i \in 1 .. m : i # x /\ i # y => Swap(a, x, y)[i] = a[i]
<1> DEFINE p == [i \in 1 .. m |-> IF i = x THEN y ELSE IF i = y THEN x ELSE i]
           b == Swap(a, x, y)
<1>1. Shuffles(m, p, p, left, right)
  BY DEF Shuffles
<1>2. b \in Array(m) /\ \A i \in 1 .. m : b[i] = a[p[i]]
  BY DEF Swap, Array
<1>3. /\ b[x] = a[y] /\ b[y] = a[x]
      /\ \A i \in 1 .. m : i # x /\ i # y => b[i] = a[i]
  BY <1>2
<1> HIDE DEF p, b
<1>4. Rearranged(m, a, b, left, right)
  BY <1>1, <1>2 DEF Rearranged
<1>5. QED
  BY <1>3, <1>4 DEF b

(* Every value occurs as often as before.                                    *)
LEMMA RearrangedCounts ==
  ASSUME NEW m \in Nat, NEW a, NEW b, NEW left \in Int, NEW right \in Int,
         Rearranged(m, a, b, left, right), NEW x
  PROVE  Count(a, x) = Count(b, x)
<1>1. a \in Array(m) /\ b \in Array(m)
  BY DEF Rearranged
<1>2. PICK p, q : Shuffles(m, p, q, left, right) /\ \A i \in 1 .. m : b[i] = a[p[i]]
  BY DEF Rearranged
<1> DEFINE A == {i \in 1 .. m : a[i] = x}
           B == {i \in 1 .. m : b[i] = x}
           f == [i \in B |-> p[i]]
<1>3. DOMAIN a = 1 .. m /\ DOMAIN b = 1 .. m
  BY <1>1 DEF Array
<1>4. f \in [B -> A]
  BY Zenon, <1>2 DEF Shuffles
<1>5. \A i, j \in B : f[i] = f[j] => i = j
  BY <1>2 DEF Shuffles
<1>6. ASSUME NEW i \in A PROVE \E j \in B : f[j] = i
  <2>1. q[i] \in 1 .. m /\ p[q[i]] = i
    BY <1>2 DEF Shuffles
  <2>2. q[i] \in B
    BY <1>2, <2>1
  <2> QED BY <2>1, <2>2
<1>7. IsFiniteSet(B)
  <2>1. IsFiniteSet(1 .. m)
    BY FS_Interval
  <2> QED BY <2>1, FS_Subset
<1> HIDE DEF f, A, B
<1>8. ExistsBijection(B, A)
  <2>1. f \in Bijection(B, A)
    BY <1>4, <1>5, <1>6, Fun_IsBij
  <2> QED BY <2>1 DEF ExistsBijection
<1>9. Cardinality(A) = Cardinality(B)
  BY <1>7, <1>8, FS_Bijection
<1>10. QED
  BY <1>3, <1>9 DEF Count, A, B

(* Where the loop over j stops.                                              *)
LEMMA ScanDownFacts ==
  ASSUME NEW m \in Nat, NEW a \in Array(m), NEW p \in Int,
         NEW i \in 1 .. m, NEW j \in 1 .. m, i <= j, NEW d, d = ScanDown(a, i, j, p)
  PROVE  d \in i .. j /\ (d > i => a[d] < p) /\ \A k \in d + 1 .. j : a[k] >= p
<1> DEFINE S == {i} \cup {k \in i + 1 .. j : a[k] < p}
<1>1. S \in SUBSET (0 .. m) /\ S # {} /\ i \in S /\ \A k \in S : k \in i .. j
  OBVIOUS
<1>2. d = Max(S)
  BY DEF ScanDown
<1>3. d \in S /\ \A y \in S : y <= d
  <2> HIDE DEF S
  <2> QED BY <1>1, <1>2, Extremes
<1>4. d \in i .. j
  <2> HIDE DEF S
  <2> QED BY <1>1, <1>3
<1>5. d > i => a[d] < p
  BY <1>3
<1>6. ASSUME NEW k \in d + 1 .. j PROVE a[k] >= p
  <2>1. k \in 1 .. m /\ k \in i + 1 .. j
    BY <1>4
  <2>2. a[k] \in Int
    BY <2>1 DEF Array
  <2>3. k \notin S
    <3> HIDE DEF S
    <3> QED BY <1>3, <1>4
  <2> QED BY <2>1, <2>2, <2>3
<1>7. QED
  BY <1>4, <1>5, <1>6

(* Where the loop over i stops.                                              *)
LEMMA ScanUpFacts ==
  ASSUME NEW m \in Nat, NEW a \in Array(m), NEW p \in Int,
         NEW i \in 1 .. m, NEW j \in 1 .. m, i <= j, NEW d, d = ScanUp(a, i, j, p)
  PROVE  d \in i .. j /\ (d < j => a[d] > p) /\ \A k \in i .. d - 1 : a[k] <= p
<1> DEFINE S == {j} \cup {k \in i .. j - 1 : a[k] > p}
<1>1. S \in SUBSET (0 .. m) /\ S # {} /\ j \in S /\ \A k \in S : k \in i .. j
  OBVIOUS
<1>2. d = Min(S)
  BY DEF ScanUp
<1>3. d \in S /\ \A y \in S : d <= y
  <2> HIDE DEF S
  <2>1. Min(S) \in S /\ \A y \in S : Min(S) <= y
    BY <1>1, Extremes
  <2> QED BY <1>2, <2>1
<1>4. d \in i .. j
  <2> HIDE DEF S
  <2> QED BY <1>1, <1>3
<1>5. d < j => a[d] > p
  BY <1>3
<1>6. ASSUME NEW k \in i .. d - 1 PROVE a[k] <= p
  <2>1. k \in 1 .. m /\ k \in i .. j - 1
    BY <1>4
  <2>2. a[k] \in Int
    BY <2>1 DEF Array
  <2>3. k \notin S
    <3> HIDE DEF S
    <3> QED BY <1>3, <1>4
  <2> QED BY <2>1, <2>2, <2>3
<1>7. QED
  BY <1>4, <1>5, <1>6

\* One round of the loop over i and j.
LoopArgs(m) == [arr : Array(m), i : 1 .. m, j : 1 .. m]
Round(c, p) ==
  LET j2 == ScanDown(c.arr, c.i, c.j, p)
      i2 == ScanUp(c.arr, c.i, j2, p) IN
  [arr |-> Swap(c.arr, i2, j2), i |-> i2, j |-> j2]

\* What is left of the loop: the indices come closer, or stay and exchange two elements.
LoopSize(c, p) ==
  IF c.i >= c.j THEN 0 ELSE 2 * (c.j - c.i) + (IF c.arr[c.j] < p THEN 1 ELSE 0)

\* The pivot is in the first place, nothing larger up to i, nothing smaller behind j.
LoopInv(m, a, left, right, p, c) ==
  /\ left <= c.i /\ c.i <= c.j /\ c.j <= right
  /\ c.arr[left] = p
  /\ \A k \in left .. c.i : c.arr[k] <= p
  /\ \A k \in c.j + 1 .. right : c.arr[k] >= p
  /\ Rearranged(m, a, c.arr, left, right)

(* A round comes closer to the end of the loop.                              *)
LEMMA RoundFacts ==
  ASSUME NEW m \in Nat, NEW p \in Int, NEW c \in LoopArgs(m), c.i < c.j
  PROVE  /\ Round(c, p) \in LoopArgs(m)
         /\ LoopSize(c, p) \in Nat /\ LoopSize(Round(c, p), p) \in Nat
         /\ LoopSize(Round(c, p), p) < LoopSize(c, p)
<1> DEFINE i == c.i
           j == c.j
           a == c.arr
           j2 == ScanDown(a, i, j, p)
           i2 == ScanUp(a, i, j2, p)
           b == Swap(a, i2, j2)
           d == Round(c, p)
<1>1. a \in Array(m) /\ i \in 1 .. m /\ j \in 1 .. m /\ i < j
  BY DEF LoopArgs
<1>2. d = [arr |-> b, i |-> i2, j |-> j2]
  BY DEF Round
<1> HIDE DEF i, j, a, b, d
<1>3. j2 \in i .. j /\ (j2 > i => a[j2] < p)
  BY <1>1, ScanDownFacts
<1> HIDE DEF j2
<1>4. i2 \in i .. j2 /\ (i2 < j2 => a[i2] > p)
  BY <1>1, <1>3, ScanUpFacts
<1> HIDE DEF i2
<1>5. i2 \in 1 .. m /\ j2 \in 1 .. m
  BY <1>1, <1>3, <1>4
<1>6. b \in Array(m) /\ b[j2] = a[i2]
  <2>1. Rearranged(m, a, b, 1, m) /\ b[j2] = a[i2]
    BY <1>1, <1>5, RearrangedSwap DEF b
  <2> QED BY <2>1 DEF Rearranged
<1>7. d \in LoopArgs(m)
  BY <1>2, <1>5, <1>6 DEF LoopArgs
<1>8. LoopSize(c, p) = 2 * (j - i) + (IF a[j] < p THEN 1 ELSE 0)
  BY <1>1 DEF LoopSize, i, j, a
<1>9. LoopSize(d, p) = IF i2 >= j2 THEN 0 ELSE 2 * (j2 - i2) + (IF b[j2] < p THEN 1 ELSE 0)
  BY <1>2 DEF LoopSize
<1>10. a[i2] \in Int /\ a[j2] \in Int /\ a[j] \in Int
  BY <1>1, <1>5 DEF Array
<1>11. LoopSize(c, p) \in Nat /\ LoopSize(d, p) \in Nat /\ LoopSize(d, p) < LoopSize(c, p)
  <2>1. CASE i2 >= j2
    BY <1>1, <1>8, <1>9, <2>1
  <2>2. CASE i2 < j2 /\ i2 = i /\ j2 = j
    BY <1>1, <1>3, <1>4, <1>6, <1>8, <1>9, <1>10, <2>2
  <2>3. CASE i2 < j2 /\ ~(i2 = i /\ j2 = j)
    <3>1. i2 \in Int /\ j2 \in Int /\ i \in Int /\ j \in Int /\ j2 - i2 < j - i
      BY <1>1, <1>3, <1>4, <2>3
    <3> QED BY <1>8, <1>9, <2>3, <3>1
  <2>4. QED
    BY <1>5, <2>1, <2>2, <2>3
<1>12. QED
  BY <1>7, <1>11 DEF d

(* A round keeps the loop's invariant.                                       *)
LEMMA RoundKeeps ==
  ASSUME NEW m \in Nat, NEW p \in Int, NEW c \in LoopArgs(m), c.i < c.j,
         NEW a, NEW left \in 1 .. m, NEW right \in 1 .. m, LoopInv(m, a, left, right, p, c)
  PROVE  LoopInv(m, a, left, right, p, Round(c, p))
<1> DEFINE i == c.i
           j == c.j
           v == c.arr
           j2 == ScanDown(v, i, j, p)
           i2 == ScanUp(v, i, j2, p)
           w == Swap(v, i2, j2)
           d == Round(c, p)
<1>1. v \in Array(m) /\ i \in 1 .. m /\ j \in 1 .. m /\ i < j
  BY DEF LoopArgs
<1>2. d = [arr |-> w, i |-> i2, j |-> j2]
  BY DEF Round
<1>0. /\ left <= i /\ i <= j /\ j <= right
      /\ v[left] = p
      /\ \A k \in left .. i : v[k] <= p
      /\ \A k \in j + 1 .. right : v[k] >= p
      /\ Rearranged(m, a, v, left, right)
  BY DEF LoopInv
<1> HIDE DEF i, j, v, w, d
<1>3. j2 \in i .. j /\ (j2 > i => v[j2] < p) /\ \A k \in j2 + 1 .. j : v[k] >= p
  BY <1>1, ScanDownFacts
<1> HIDE DEF j2
<1>4. i2 \in i .. j2 /\ (i2 < j2 => v[i2] > p) /\ \A k \in i .. i2 - 1 : v[k] <= p
  <2>1. j2 \in 1 .. m /\ i <= j2
    BY <1>1, <1>3
  <2> QED BY <1>1, <2>1, ScanUpFacts
<1> HIDE DEF i2
<1>5. /\ i2 \in 1 .. m /\ j2 \in 1 .. m /\ i2 \in left .. right /\ j2 \in left .. right
      /\ left <= i2 /\ i2 <= j2 /\ j2 <= right
  BY <1>0, <1>1, <1>3, <1>4
<1>6. /\ Rearranged(m, v, w, left, right) /\ w[j2] = v[i2] /\ w[i2] = v[j2]
      /\ \A k \in 1 .. m : k # i2 /\ k # j2 => w[k] = v[k]
  BY <1>1, <1>5, RearrangedSwap DEF w
<1>7. Rearranged(m, a, w, left, right)
  BY <1>0, <1>6, RearrangedTwice
<1>8. w[left] = p
  <2>1. CASE left = i2 /\ i2 = j2
    BY <1>0, <1>6, <2>1
  <2>2. CASE left = i2 /\ i2 # j2
    <3>1. v[i2] > p /\ v[i2] = p
      BY <1>0, <1>4, <1>5, <2>2
    <3> QED BY <3>1
  <2>3. CASE left # i2
    BY <1>0, <1>5, <1>6, <2>3
  <2>4. QED
    BY <2>1, <2>2, <2>3
<1>9. ASSUME NEW k \in left .. i2 PROVE w[k] <= p
  <2>1. k \in 1 .. m /\ i \in Int
    BY <1>1, <1>5
  <2>2. CASE k = i2 /\ j2 > i
    <3>1. w[k] = v[j2] /\ v[j2] < p /\ v[j2] \in Int
      BY <1>1, <1>3, <1>5, <1>6, <2>2 DEF Array
    <3> QED BY <3>1
  <2>3. CASE k = i2 /\ j2 = i
    <3>1. i2 = i /\ w[k] = v[i] /\ i \in left .. i
      BY <1>0, <1>1, <1>4, <1>6, <2>3
    <3> QED BY <1>0, <3>1
  <2>4. CASE k # i2
    <3>1. w[k] = v[k] /\ (k \in left .. i \/ k \in i .. i2 - 1)
      BY <1>1, <1>4, <1>5, <1>6, <2>1, <2>4
    <3> QED BY <1>0, <1>4, <3>1
  <2>5. QED
    BY <1>1, <1>3, <2>2, <2>3, <2>4
<1>10. ASSUME NEW k \in j2 + 1 .. right PROVE w[k] >= p
  <2>1. k \in 1 .. m /\ k # i2 /\ k # j2 /\ w[k] = v[k]
    BY <1>5, <1>6
  <2>2. k \in j2 + 1 .. j \/ k \in j + 1 .. right
    BY <1>1, <1>5
  <2>3. QED
    BY <1>0, <1>3, <2>1, <2>2
<1>11. QED
  BY <1>2, <1>5, <1>7, <1>8, <1>9, <1>10 DEF LoopInv, d

(* The arrays of Exercises are sequences.                                    *)
LEMMA ArrayLength ==
  ASSUME NEW m \in Nat, NEW a \in Array(m)
  PROVE  a \in Seq(Int) /\ Len(a) = m /\ DOMAIN a = 1 .. m
<1>1. a \in Seq(Int) /\ DOMAIN a = 1 .. m
  BY SeqDef DEF Array
<1>2. Len(a) \in Nat /\ DOMAIN a = 1 .. Len(a)
  BY <1>1, LenProperties
<1>3. QED
  BY <1>1, <1>2

(* The loop ends, with its indices at one place.                             *)
LEMMA PartitionFacts ==
  ASSUME NEW m \in Nat, NEW a \in Array(m), NEW left \in 1 .. m, NEW right \in 1 .. m,
         left <= right, NEW p, p = a[left], NEW e, e = Partition(a, left, right, p)
  PROVE  e \in LoopArgs(m) /\ LoopInv(m, a, left, right, p, e) /\ e.i = e.j
<1> DEFINE D == LoopArgs(m)
           loop == CHOOSE g : g = [c \in D |-> IF c.i >= c.j THEN c ELSE g[Round(c, p)]]
           size == [c \in D |-> LoopSize(c, p)]
           F == [D -> D]
           H == [z \in F \X D |-> IF z[2].i >= z[2].j THEN z[2] ELSE z[1][Round(z[2], p)]]
           T == {c \in D : LoopInv(m, a, left, right, p, c)
                             => /\ loop[c] \in D /\ loop[c].i = loop[c].j
                                /\ LoopInv(m, a, left, right, p, loop[c])}
           whole == [arr |-> a, i |-> left, j |-> right]
<1>1. p \in Int
  BY DEF Array
<1>2. \A c \in D : c.i \in Int /\ c.j \in Int
  BY DEF LoopArgs
<1>3. ASSUME NEW c \in D, ~(c.i >= c.j)
      PROVE  Round(c, p) \in D /\ size[Round(c, p)] < size[c]
  <2>1. c.i < c.j
    BY <1>2, <1>3
  <2> QED BY <1>1, <2>1, RoundFacts
<1>4. size \in [D -> Nat]
  <2>1. ASSUME NEW c \in D PROVE LoopSize(c, p) \in Nat
    <3>1. CASE c.i >= c.j
      BY <3>1 DEF LoopSize
    <3>2. CASE c.i < c.j
      BY <1>1, <3>2, RoundFacts
    <3> QED BY <1>2, <3>1, <3>2
  <2> QED BY <2>1
<1>5. e = loop[whole]
  <2>1. Len(a) = m
    BY ArrayLength
  <2> QED BY <2>1 DEF Partition, Round, LoopArgs, Array
<1> HIDE DEF D, size
<1>6. \A g \in F, c \in D : H[<<g, c>>] = IF c.i >= c.j THEN c ELSE g[Round(c, p)]
  OBVIOUS
<1>7. H = [z \in F \X D |-> H[z]]
  OBVIOUS
<1> HIDE DEF H
<1>8. H \in [F \X D -> D]
  <2>1. \A g \in F, c \in D : H[<<g, c>>] \in D
    BY Zenon, <1>3, <1>6
  <2> HIDE DEF F
  <2> QED BY Zenon, <1>7, <2>1, OnPairs
<1>9. whole \in D
  BY DEF D, LoopArgs
<1>10. Recurses(D, D, size, H)
  <2> SUFFICES ASSUME NEW g \in F, NEW h \in F, NEW c \in D,
                      \A y \in D : size[y] < size[c] => g[y] = h[y]
               PROVE  H[<<g, c>>] = H[<<h, c>>]
    BY Zenon, <1>4, <1>8, <1>9 DEF Recurses
  <2>1. ~(c.i >= c.j) => g[Round(c, p)] = h[Round(c, p)]
    BY <1>3
  <2> QED BY <1>6, <2>1
<1>11. PICK g : Solves(g, D, D, H)
  BY <1>10, Recursion
<1>12. g = [c \in D |-> IF c.i >= c.j THEN c ELSE g[Round(c, p)]]
  <2>1. \A c \in D : g[c] = IF c.i >= c.j THEN c ELSE g[Round(c, p)]
    BY Zenon, <1>6, <1>11 DEF Solves
  <2>2. g = [c \in D |-> g[c]]
    BY <1>11 DEF Solves
  <2> QED BY <2>1, <2>2
<1>13. loop = [c \in D |-> IF c.i >= c.j THEN c ELSE loop[Round(c, p)]]
  BY <1>12
<1> HIDE DEF loop
<1>14. Inductive(D, size, T)
  <2> SUFFICES ASSUME NEW c \in D, \A y \in D : size[y] < size[c] => y \in T,
                      LoopInv(m, a, left, right, p, c)
               PROVE  /\ loop[c] \in D /\ loop[c].i = loop[c].j
                      /\ LoopInv(m, a, left, right, p, loop[c])
    BY DEF Inductive
  <2>1. loop[c] = IF c.i >= c.j THEN c ELSE loop[Round(c, p)]
    BY <1>13
  <2>2. CASE c.i >= c.j
    <3>1. c.i = c.j
      BY <1>2, <2>2 DEF LoopInv
    <3> QED BY <2>1, <2>2, <3>1
  <2>3. CASE ~(c.i >= c.j)
    <3>1. Round(c, p) \in T /\ c.i < c.j
      BY <1>2, <1>3, <2>3
    <3>2. LoopInv(m, a, left, right, p, Round(c, p))
      BY <1>1, <3>1, RoundKeeps DEF D
    <3> QED BY <2>1, <2>3, <3>1, <3>2
  <2> QED BY <2>2, <2>3
<1>15. D \subseteq T
  <2> HIDE DEF T
  <2> QED BY <1>4, <1>14, BySize
<1>16. LoopInv(m, a, left, right, p, whole)
  <2>1. Rearranged(m, a, a, left, right)
    BY RearrangedSame
  <2>2. a[left] \in Int /\ \A k \in left .. left : a[k] <= p
    BY DEF Array
  <2> QED BY <2>1, <2>2 DEF LoopInv
<1>17. QED
  <2>1. whole \in T
    BY <1>9, <1>15
  <2> QED BY <1>5, <1>16, <2>1 DEF D

\* The pivot is at its place: nothing larger before it, nothing smaller behind it.
Splits(b, left, right, at) ==
  /\ \A k \in left .. at - 1 : b[k] <= b[at]
  /\ \A k \in at + 1 .. right : b[k] >= b[at]

(* A split is a rearrangement with the pivot at its place.                   *)
LEMMA SplitFacts ==
  ASSUME NEW m \in Nat, NEW a \in Array(m), NEW left \in 1 .. m, NEW right \in 1 .. m,
         left <= right, NEW s2, s2 = Split(a, left, right)
  PROVE  /\ s2.arr \in Array(m) /\ s2.at \in left .. right
         /\ Rearranged(m, a, s2.arr, left, right) /\ Splits(s2.arr, left, right, s2.at)
<1> DEFINE p == a[left]
           e == Partition(a, left, right, p)
           v == e.arr
           i == e.i
           w == Swap(v, left, i)
<1>1. s2 = [arr |-> w, at |-> i]
  BY DEF Split
<1>2. e \in LoopArgs(m) /\ LoopInv(m, a, left, right, p, e) /\ e.i = e.j
  BY PartitionFacts
<1> HIDE DEF e
<1>3. v \in Array(m) /\ i \in 1 .. m /\ p \in Int
  BY <1>2 DEF LoopArgs, Array
<1>4. /\ i \in left .. right /\ v[left] = p
      /\ \A k \in left .. i : v[k] <= p
      /\ \A k \in i + 1 .. right : v[k] >= p
      /\ Rearranged(m, a, v, left, right)
  BY <1>2, <1>3 DEF LoopInv
<1> HIDE DEF v, i, w, p
<1>5. /\ Rearranged(m, v, w, left, right) /\ w[left] = v[i] /\ w[i] = v[left]
      /\ \A k \in 1 .. m : k # left /\ k # i => w[k] = v[k]
  BY <1>3, <1>4, RearrangedSwap DEF w
<1>6. Rearranged(m, a, w, left, right)
  BY <1>4, <1>5, RearrangedTwice
<1>7. w \in Array(m)
  BY <1>6 DEF Rearranged
<1>8. ASSUME NEW k \in left .. i - 1 PROVE w[k] <= p
  <2>1. k \in left .. i /\ k \in 1 .. m /\ k # i /\ i \in left .. i
    BY <1>3, <1>4
  <2> QED BY <1>4, <1>5, <2>1
<1>9. ASSUME NEW k \in i + 1 .. right PROVE w[k] >= p
  <2>1. k # left /\ k \in 1 .. m /\ k # i
    BY <1>3, <1>4
  <2> QED BY <1>4, <1>5, <2>1
<1>10. QED
  BY <1>1, <1>4, <1>5, <1>6, <1>7, <1>8, <1>9 DEF Splits

\* The range is in order.
Sorted(b, left, right) == \A i, j \in left .. right : i < j => b[i] <= b[j]

\* The places of left .. right up to k hold its smallest elements.
Selected(b, left, right, k) == \A i \in left .. k, j \in k + 1 .. right : b[i] <= b[j]

\* The length of the range that is left to sort.
RangeSize(c) == IF c.right < c.left THEN 0 ELSE c.right - c.left + 1

(* What the arguments of a call are.                                         *)
LEMMA SortArgsFacts ==
  ASSUME NEW m \in Nat, NEW c \in SortArgs(m)
  PROVE  /\ c.left \in 1 .. m + 1 /\ c.right \in 0 .. m /\ c.arr \in Array(m)
         /\ RangeSize(c) \in Nat
<1>1. c.left \in 1 .. m + 1 /\ c.right \in 0 .. m /\ c.arr \in Array(m)
  BY DEF SortArgs, Array
<1>2. QED
  BY <1>1 DEF RangeSize

(* The arguments of the recursive calls are shorter ranges.                  *)
LEMMA SplitArgs ==
  ASSUME NEW m \in Nat, NEW c \in SortArgs(m), ~(c.left >= c.right),
         NEW s2, s2 = Split(c.arr, c.left, c.right), NEW b \in Array(m)
  PROVE  /\ c.left \in 1 .. m /\ c.right \in 1 .. m
         /\ s2.arr \in Array(m) /\ s2.at \in c.left .. c.right
         /\ Rearranged(m, c.arr, s2.arr, c.left, c.right)
         /\ Splits(s2.arr, c.left, c.right, s2.at)
         /\ [arr |-> b, left |-> c.left, right |-> s2.at - 1] \in SortArgs(m)
         /\ RangeSize([arr |-> b, left |-> c.left, right |-> s2.at - 1]) < RangeSize(c)
         /\ [arr |-> b, left |-> s2.at + 1, right |-> c.right] \in SortArgs(m)
         /\ RangeSize([arr |-> b, left |-> s2.at + 1, right |-> c.right]) < RangeSize(c)
<1>1. c.arr \in Array(m) /\ c.left \in 1 .. m + 1 /\ c.right \in 0 .. m
  BY SortArgsFacts
<1>2. c.left \in 1 .. m /\ c.right \in 1 .. m /\ c.left < c.right
  BY <1>1
<1>3. /\ s2.arr \in Array(m) /\ s2.at \in c.left .. c.right
      /\ Rearranged(m, c.arr, s2.arr, c.left, c.right)
      /\ Splits(s2.arr, c.left, c.right, s2.at)
  BY <1>1, <1>2, SplitFacts
<1>4. s2.at \in 1 .. m /\ s2.at - 1 \in 0 .. m /\ s2.at + 1 \in 1 .. m + 1
  BY <1>2, <1>3
<1>5. /\ [arr |-> b, left |-> c.left, right |-> s2.at - 1] \in SortArgs(m)
      /\ [arr |-> b, left |-> s2.at + 1, right |-> c.right] \in SortArgs(m)
  BY Zenon, <1>1, <1>4 DEF SortArgs, Array
<1>6. /\ RangeSize([arr |-> b, left |-> c.left, right |-> s2.at - 1]) < RangeSize(c)
      /\ RangeSize([arr |-> b, left |-> s2.at + 1, right |-> c.right]) < RangeSize(c)
  BY <1>2, <1>3, <1>4 DEF RangeSize
<1>7. QED
  BY <1>2, <1>3, <1>5, <1>6

(* Sorting both sides of a split sorts the range.                            *)
LEMMA SidesSorted ==
  ASSUME NEW m \in Nat, NEW left \in 1 .. m, NEW right \in 1 .. m, NEW at \in left .. right,
         NEW a, NEW v, NEW w, NEW b,
         Rearranged(m, a, v, left, right), Splits(v, left, right, at),
         Rearranged(m, v, w, left, at - 1), Sorted(w, left, at - 1),
         Rearranged(m, w, b, at + 1, right), Sorted(b, at + 1, right)
  PROVE  Rearranged(m, a, b, left, right) /\ Sorted(b, left, right)
<1> DEFINE p == v[at]
<1>0. at \in 1 .. m /\ at - 1 \in Int /\ at + 1 \in Int
  OBVIOUS
<1>1. Rearranged(m, v, b, left, right)
  <2>1. left <= at + 1 /\ at - 1 <= right
    OBVIOUS
  <2> QED BY <1>0, <2>1, RearrangedTwice
<1>2. Rearranged(m, a, b, left, right)
  BY <1>1, RearrangedTwice
<1>3. /\ v \in Array(m) /\ w \in Array(m)
      /\ \A i \in 1 .. m : i \notin left .. at - 1 => w[i] = v[i]
      /\ \A i \in 1 .. m : i \in left .. at - 1
           => \E k \in 1 .. m : k \in left .. at - 1 /\ w[i] = v[k]
  BY <1>0, RearrangedFacts
<1>4. /\ b \in Array(m)
      /\ \A i \in 1 .. m : i \notin at + 1 .. right => b[i] = w[i]
      /\ \A i \in 1 .. m : i \in at + 1 .. right
           => \E k \in 1 .. m : k \in at + 1 .. right /\ b[i] = w[k]
  BY <1>0, RearrangedFacts
<1>5. ASSUME NEW i \in left .. at - 1 PROVE b[i] = w[i] /\ b[i] <= p
  <2>1. i \in 1 .. m /\ i \notin at + 1 .. right
    BY <1>0
  <2>2. PICK k \in 1 .. m : k \in left .. at - 1 /\ w[i] = v[k]
    BY <1>3, <2>1
  <2>3. v[k] <= p
    BY <2>2 DEF Splits
  <2> QED BY <1>4, <2>1, <2>2, <2>3
<1>6. ASSUME NEW i \in at + 1 .. right PROVE b[i] >= p
  <2>1. i \in 1 .. m
    BY <1>0
  <2>2. PICK k \in 1 .. m : k \in at + 1 .. right /\ b[i] = w[k]
    BY <1>4, <2>1
  <2>3. k \notin left .. at - 1
    BY <1>0, <2>2
  <2>4. w[k] = v[k] /\ v[k] >= p
    BY <1>3, <2>2, <2>3 DEF Splits
  <2> QED BY <2>2, <2>4
<1>7. b[at] = p
  BY <1>0, <1>3, <1>4
<1>8. \A i \in left .. right : b[i] \in Int
  BY <1>4 DEF Array
<1>9. p \in Int
  BY <1>0, <1>3 DEF Array
<1> HIDE DEF p
<1>10. ASSUME NEW i \in left .. right, NEW j \in left .. right, i < j PROVE b[i] <= b[j]
  <2>1. CASE j < at
    <3>1. i \in left .. at - 1 /\ j \in left .. at - 1
      BY <1>0, <1>10, <2>1
    <3> QED BY <1>5, <1>10, <3>1 DEF Sorted
  <2>2. CASE at < i
    <3>1. i \in at + 1 .. right /\ j \in at + 1 .. right
      BY <1>0, <1>10, <2>2
    <3> QED BY <1>10, <3>1 DEF Sorted
  <2>3. CASE i <= at /\ at <= j
    <3>1. i \in left .. at - 1 \/ i = at
      BY <1>0, <2>3
    <3>2. j \in at + 1 .. right \/ j = at
      BY <1>0, <2>3
    <3>3. b[i] <= p /\ p <= b[j]
      BY <1>5, <1>6, <1>7, <1>9, <3>1, <3>2
    <3> QED BY <1>8, <1>9, <3>3
  <2>4. QED
    BY <1>0, <2>1, <2>2, <2>3
<1>11. QED
  BY <1>2, <1>10 DEF Sorted

(* quickSort ends with the range in order.                                   *)
LEMMA QuickSortFacts ==
  ASSUME NEW m \in Nat, NEW a \in Array(m)
  PROVE  Rearranged(m, a, quickSort(a), 1, m) /\ Sorted(quickSort(a), 1, m)
<1> DEFINE D == SortArgs(m)
           V == Array(m)
           sp(c) == Split(c.arr, c.left, c.right)
           low(c) == [arr |-> sp(c).arr, left |-> c.left, right |-> sp(c).at - 1]
           high(c, x) == [arr |-> x, left |-> sp(c).at + 1, right |-> c.right]
           qs == CHOOSE g : g = [c \in D |-> IF c.left >= c.right THEN c.arr
                                             ELSE g[high(c, g[low(c)])]]
           size == [c \in D |-> RangeSize(c)]
           F == [D -> V]
           H == [z \in F \X D |-> IF z[2].left >= z[2].right THEN z[2].arr
                                  ELSE z[1][high(z[2], z[1][low(z[2])])]]
           T == {c \in D : /\ Rearranged(m, c.arr, qs[c], c.left, c.right)
                           /\ Sorted(qs[c], c.left, c.right)}
           whole == [arr |-> a, left |-> 1, right |-> m]
<1>1. \A c \in D : /\ c.left \in 1 .. m + 1 /\ c.right \in 0 .. m /\ c.arr \in V
                   /\ RangeSize(c) \in Nat
  BY SortArgsFacts
<1>2. size \in [D -> Nat]
  BY <1>1
<1>3. ASSUME NEW c \in D, ~(c.left >= c.right)
      PROVE  /\ c.left \in 1 .. m /\ c.right \in 1 .. m
             /\ sp(c).arr \in V /\ sp(c).at \in c.left .. c.right
             /\ Rearranged(m, c.arr, sp(c).arr, c.left, c.right)
             /\ Splits(sp(c).arr, c.left, c.right, sp(c).at)
             /\ low(c) \in D /\ size[low(c)] < size[c]
  <2>1. sp(c).arr \in V
    BY <1>3, SplitArgs
  <2> QED BY <1>3, <2>1, SplitArgs
<1>4. ASSUME NEW c \in D, ~(c.left >= c.right), NEW x \in V
      PROVE  high(c, x) \in D /\ size[high(c, x)] < size[c]
  BY <1>4, SplitArgs
<1>5. quickSort(a) = qs[whole]
  <2>1. Len(a) = m
    BY ArrayLength
  <2> QED BY <2>1 DEF quickSort
<1>6. whole \in D
  BY DEF SortArgs, Array
<1>7. \A c \in D : /\ low(c).arr = sp(c).arr /\ low(c).left = c.left /\ low(c).right = sp(c).at - 1
                   /\ \A x : /\ high(c, x).arr = x /\ high(c, x).left = sp(c).at + 1
                             /\ high(c, x).right = c.right
  OBVIOUS
<1> HIDE DEF D, V, size, low, high, sp
<1>8. \A g \in F, c \in D :
        H[<<g, c>>] = IF c.left >= c.right THEN c.arr ELSE g[high(c, g[low(c)])]
  OBVIOUS
<1>9. H = [z \in F \X D |-> H[z]]
  OBVIOUS
<1> HIDE DEF H
<1>10. H \in [F \X D -> V]
  <2>1. \A g \in F, c \in D : H[<<g, c>>] \in V
    BY <1>1, <1>3, <1>4, <1>8
  <2> HIDE DEF F
  <2> QED BY <1>9, <2>1, OnPairs
<1>11. Recurses(D, V, size, H)
  <2> SUFFICES ASSUME NEW g \in F, NEW h \in F, NEW c \in D,
                      \A y \in D : size[y] < size[c] => g[y] = h[y]
               PROVE  H[<<g, c>>] = H[<<h, c>>]
    BY <1>1, <1>2, <1>6, <1>10 DEF Recurses
  <2>1. ASSUME ~(c.left >= c.right) PROVE g[high(c, g[low(c)])] = h[high(c, h[low(c)])]
    <3>1. g[low(c)] = h[low(c)] /\ g[low(c)] \in V
      BY <1>3, <2>1
    <3>2. high(c, g[low(c)]) \in D /\ size[high(c, g[low(c)])] < size[c]
      BY <1>4, <2>1, <3>1
    <3>3. g[high(c, g[low(c)])] = h[high(c, g[low(c)])]
      BY <3>2
    <3> QED BY <3>1, <3>3
  <2> QED BY <1>8, <2>1
<1>12. PICK g : Solves(g, D, V, H)
  BY <1>11, Recursion
<1>13. g = [c \in D |-> IF c.left >= c.right THEN c.arr ELSE g[high(c, g[low(c)])]]
  <2>1. \A c \in D : g[c] = IF c.left >= c.right THEN c.arr ELSE g[high(c, g[low(c)])]
    BY <1>8, <1>12 DEF Solves
  <2>2. g = [c \in D |-> g[c]]
    BY <1>12 DEF Solves
  <2> QED BY <2>1, <2>2
<1>14. qs = [c \in D |-> IF c.left >= c.right THEN c.arr ELSE qs[high(c, qs[low(c)])]]
  BY <1>13
<1> HIDE DEF qs
<1>15. Inductive(D, size, T)
  <2> SUFFICES ASSUME NEW c \in D, \A y \in D : size[y] < size[c] => y \in T
               PROVE  c \in T
    BY DEF Inductive
  <2>1. qs[c] = IF c.left >= c.right THEN c.arr ELSE qs[high(c, qs[low(c)])]
    BY <1>14
  <2>2. CASE c.left >= c.right
    <3>1. Rearranged(m, c.arr, c.arr, c.left, c.right)
      BY <1>1, RearrangedSame DEF V
    <3>2. Sorted(c.arr, c.left, c.right)
      BY <1>1, <2>2 DEF Sorted
    <3> QED BY <2>1, <2>2, <3>1, <3>2
  <2>3. CASE ~(c.left >= c.right)
    <3> DEFINE at == sp(c).at
               v == sp(c).arr
               w == qs[low(c)]
               b == qs[c]
    <3>1. /\ c.left \in 1 .. m /\ c.right \in 1 .. m /\ at \in c.left .. c.right
          /\ Rearranged(m, c.arr, v, c.left, c.right) /\ Splits(v, c.left, c.right, at)
      BY <1>3, <2>3
    <3>2. low(c) \in T
      BY <1>3, <2>3
    <3>3. Rearranged(m, v, w, c.left, at - 1) /\ Sorted(w, c.left, at - 1)
      BY <1>7, <3>2
    <3>4. w \in V
      BY <3>3 DEF Rearranged, V
    <3>5. high(c, w) \in T
      BY <1>4, <2>3, <3>4
    <3>6. b = qs[high(c, w)]
      BY <2>1, <2>3
    <3>7. Rearranged(m, w, b, at + 1, c.right) /\ Sorted(b, at + 1, c.right)
      BY <1>7, <3>5, <3>6
    <3>8. Rearranged(m, c.arr, b, c.left, c.right) /\ Sorted(b, c.left, c.right)
      <4> HIDE DEF at, v, w, b
      <4> QED BY <3>1, <3>3, <3>7, SidesSorted
    <3> QED BY <3>8
  <2> QED BY <2>2, <2>3
<1>16. D \subseteq T
  <2> HIDE DEF T
  <2> QED BY <1>2, <1>15, BySize
<1>17. QED
  <2>1. whole \in T
    BY <1>6, <1>16
  <2> QED BY <1>5, <2>1

(* The smallest elements are in front once those of one side of a split are, *)
(* whichever side the k-th place is on.                                      *)
LEMMA SideSelected ==
  ASSUME NEW m \in Nat, NEW left \in 1 .. m, NEW right \in 1 .. m, NEW at \in left .. right,
         NEW k \in 1 .. m, NEW a, NEW v, NEW b,
         Rearranged(m, a, v, left, right), Splits(v, left, right, at),
         \/ k = at /\ b = v
         \/ /\ k > at /\ Rearranged(m, v, b, at + 1, right)
            /\ k <= right => Selected(b, at + 1, right, k)
         \/ /\ k < at /\ Rearranged(m, v, b, left, at - 1)
            /\ left <= k => Selected(b, left, at - 1, k)
  PROVE  /\ Rearranged(m, a, b, left, right)
         /\ k \in left .. right => Selected(b, left, right, k)
<1> DEFINE p == v[at]
<1>0. at \in 1 .. m /\ at - 1 \in Int /\ at + 1 \in Int
  OBVIOUS
<1>1. v \in Array(m) /\ p \in Int
  BY <1>0 DEF Rearranged, Array
<1>2. \A i \in left .. at : v[i] <= p
  BY <1>0, <1>1 DEF Splits
<1>3. \A i \in at .. right : v[i] >= p
  BY <1>0, <1>1 DEF Splits
<1>4. CASE k = at /\ b = v
  <2>1. ASSUME NEW i \in left .. k, NEW j \in k + 1 .. right PROVE b[i] <= b[j]
    <3>1. i \in left .. at /\ j \in at .. right /\ i \in 1 .. m /\ j \in 1 .. m
      BY <1>0, <1>4
    <3>2. v[i] \in Int /\ v[j] \in Int
      BY <1>1, <3>1 DEF Array
    <3> QED BY <1>1, <1>2, <1>3, <1>4, <3>1, <3>2
  <2> QED BY <1>4, <2>1 DEF Selected
<1>5. CASE k > at /\ Rearranged(m, v, b, at + 1, right) /\ (k <= right => Selected(b, at + 1, right, k))
  <2>1. Rearranged(m, a, b, left, right)
    BY <1>0, <1>5, RearrangedTwice
  <2>2. /\ b \in Array(m)
        /\ \A i \in 1 .. m : i \notin at + 1 .. right => b[i] = v[i]
        /\ \A i \in 1 .. m : i \in at + 1 .. right
             => \E l \in 1 .. m : l \in at + 1 .. right /\ b[i] = v[l]
    BY <1>0, <1>5, RearrangedFacts
  <2>3. ASSUME k \in left .. right, NEW i \in left .. k, NEW j \in k + 1 .. right
        PROVE  b[i] <= b[j]
    <3>1. i \in 1 .. m /\ j \in 1 .. m /\ j \in at + 1 .. right
      BY <1>0, <1>5, <2>3
    <3>2. b[i] \in Int /\ b[j] \in Int
      BY Zenon, <2>2, <3>1 DEF Array
    <3>3. CASE i <= at
      <4>1. i \in left .. at /\ i \notin at + 1 .. right
        BY <1>0, <3>3
      <4>2. b[i] <= p
        BY <1>2, <2>2, <3>1, <4>1
      <4>3. PICK l \in 1 .. m : l \in at + 1 .. right /\ b[j] = v[l]
        BY <2>2, <3>1
      <4>4. l \in at .. right
        BY <1>0, <4>3
      <4>5. b[j] >= p
        BY <1>3, <4>3, <4>4
      <4> QED BY <1>1, <3>2, <4>2, <4>5
    <3>4. CASE i > at
      <4>1. i \in at + 1 .. k
        BY <1>0, <3>4
      <4> QED BY <1>5, <2>3, <4>1 DEF Selected
    <3> QED BY <1>0, <3>3, <3>4
  <2> QED BY <2>1, <2>3 DEF Selected
<1>6. CASE k < at /\ Rearranged(m, v, b, left, at - 1) /\ (left <= k => Selected(b, left, at - 1, k))
  <2>1. Rearranged(m, a, b, left, right)
    BY <1>0, <1>6, RearrangedTwice
  <2>2. /\ b \in Array(m)
        /\ \A i \in 1 .. m : i \notin left .. at - 1 => b[i] = v[i]
        /\ \A i \in 1 .. m : i \in left .. at - 1
             => \E l \in 1 .. m : l \in left .. at - 1 /\ b[i] = v[l]
    BY <1>0, <1>6, RearrangedFacts
  <2>3. ASSUME k \in left .. right, NEW i \in left .. k, NEW j \in k + 1 .. right
        PROVE  b[i] <= b[j]
    <3>1. i \in 1 .. m /\ j \in 1 .. m /\ i \in left .. at - 1
      BY <1>0, <1>6, <2>3
    <3>2. b[i] \in Int /\ b[j] \in Int
      BY Zenon, <2>2, <3>1 DEF Array
    <3>3. CASE j >= at
      <4>1. j \in at .. right /\ j \notin left .. at - 1
        BY <1>0, <3>3
      <4>2. b[j] >= p
        BY <1>3, <2>2, <3>1, <4>1
      <4>3. PICK l \in 1 .. m : l \in left .. at - 1 /\ b[i] = v[l]
        BY <2>2, <3>1
      <4>4. l \in left .. at
        BY <1>0, <4>3
      <4>5. b[i] <= p
        BY <1>2, <4>3, <4>4
      <4> QED BY <1>1, <3>2, <4>2, <4>5
    <3>4. CASE j < at
      <4>1. j \in k + 1 .. at - 1
        BY <1>0, <3>4
      <4> QED BY <1>6, <2>3, <4>1 DEF Selected
    <3> QED BY <1>0, <3>3, <3>4
  <2> QED BY <2>1, <2>3 DEF Selected
<1>7. QED
  BY <1>4, <1>5, <1>6

(* topkhelper ends with the k smallest elements in front.                    *)
LEMMA TopkFacts ==
  ASSUME NEW m \in Nat, NEW a \in Array(m), NEW k \in 1 .. m
  PROVE  Rearranged(m, a, topkhelper(a, k), 1, m) /\ Selected(topkhelper(a, k), 1, m, k)
<1> DEFINE D == SortArgs(m)
           V == Array(m)
           sp(c) == Split(c.arr, c.left, c.right)
           low(c) == [arr |-> sp(c).arr, left |-> c.left, right |-> sp(c).at - 1]
           high(c) == [arr |-> sp(c).arr, left |-> sp(c).at + 1, right |-> c.right]
           top == CHOOSE g : g = [c \in D |->
                    IF c.left >= c.right THEN c.arr
                    ELSE CASE sp(c).at < k -> g[high(c)]
                           [] sp(c).at > k -> g[low(c)]
                           [] sp(c).at = k -> sp(c).arr]
           size == [c \in D |-> RangeSize(c)]
           F == [D -> V]
           body(g, c) == IF c.left >= c.right THEN c.arr
                        ELSE CASE sp(c).at < k -> g[high(c)]
                               [] sp(c).at > k -> g[low(c)]
                               [] sp(c).at = k -> sp(c).arr
           H == [z \in F \X D |-> body(z[1], z[2])]
           T == {c \in D : /\ Rearranged(m, c.arr, top[c], c.left, c.right)
                           /\ k \in c.left .. c.right => Selected(top[c], c.left, c.right, k)}
           whole == [arr |-> a, left |-> 1, right |-> m]
<1>1. \A c \in D : /\ c.left \in 1 .. m + 1 /\ c.right \in 0 .. m /\ c.arr \in V
                   /\ RangeSize(c) \in Nat
  BY SortArgsFacts
<1>2. size \in [D -> Nat]
  BY <1>1
<1>3. ASSUME NEW c \in D, ~(c.left >= c.right)
      PROVE  /\ c.left \in 1 .. m /\ c.right \in 1 .. m
             /\ sp(c).arr \in V /\ sp(c).at \in c.left .. c.right
             /\ Rearranged(m, c.arr, sp(c).arr, c.left, c.right)
             /\ Splits(sp(c).arr, c.left, c.right, sp(c).at)
             /\ low(c) \in D /\ size[low(c)] < size[c]
             /\ high(c) \in D /\ size[high(c)] < size[c]
  <2>1. sp(c).arr \in V
    BY Zenon, <1>3, SplitArgs
  <2> QED BY <1>3, <2>1, SplitArgs
<1>4. topkhelper(a, k) = top[whole]
  <2>1. Len(a) = m
    BY ArrayLength
  <2> QED BY <2>1 DEF topkhelper
<1>5. whole \in D
  BY DEF SortArgs, Array
<1>6. \A c \in D : /\ low(c).arr = sp(c).arr /\ low(c).left = c.left /\ low(c).right = sp(c).at - 1
                   /\ high(c).arr = sp(c).arr /\ high(c).left = sp(c).at + 1 /\ high(c).right = c.right
  OBVIOUS
<1> HIDE DEF low, high, sp
<1>7. ASSUME NEW c \in D, ~(c.left >= c.right) PROVE sp(c).at \in Int /\ sp(c).arr \in V
  <2>1. c.left \in 1 .. m /\ c.right \in 1 .. m /\ sp(c).at \in c.left .. c.right
        /\ sp(c).arr \in V
    BY Zenon, <1>3, <1>7
  <2> HIDE DEF D, V
  <2> QED BY <2>1
<1>8. ASSUME NEW c \in D, NEW g
      PROVE  /\ c.left >= c.right => body(g, c) = c.arr
             /\ ~(c.left >= c.right) =>
                  /\ sp(c).at < k => body(g, c) = g[high(c)]
                  /\ sp(c).at > k => body(g, c) = g[low(c)]
                  /\ sp(c).at = k => body(g, c) = sp(c).arr
                  /\ sp(c).at < k \/ sp(c).at > k \/ sp(c).at = k
  BY <1>7
<1> HIDE DEF D, V, size
<1>9. top = CHOOSE g : g = [c \in D |-> body(g, c)]
  OBVIOUS
<1> HIDE DEF top, body
<1>10. \A g \in F, c \in D : H[<<g, c>>] = body(g, c)
  OBVIOUS
<1>11. H = [z \in F \X D |-> H[z]]
  OBVIOUS
<1> HIDE DEF H
<1>12. H \in [F \X D -> V]
  <2>1. ASSUME NEW g \in F, NEW c \in D PROVE body(g, c) \in V
    <3>1. CASE c.left >= c.right
      BY <1>1, <1>8, <3>1
    <3>2. CASE ~(c.left >= c.right)
      <4>1. g[low(c)] \in V /\ g[high(c)] \in V /\ sp(c).arr \in V
        BY <1>3, <3>2
      <4> QED BY <1>8, <3>2, <4>1
    <3> QED BY <3>1, <3>2
  <2>2. \A g \in F, c \in D : H[<<g, c>>] \in V
    BY Zenon, <1>10, <2>1
  <2> HIDE DEF F
  <2> QED BY Zenon, <1>11, <2>2, OnPairs
<1>13. Recurses(D, V, size, H)
  <2> SUFFICES ASSUME NEW g \in F, NEW h \in F, NEW c \in D,
                      \A y \in D : size[y] < size[c] => g[y] = h[y]
               PROVE  H[<<g, c>>] = H[<<h, c>>]
    BY Zenon, <1>1, <1>2, <1>5, <1>12 DEF Recurses
  <2>1. ~(c.left >= c.right) => g[low(c)] = h[low(c)] /\ g[high(c)] = h[high(c)]
    BY <1>3
  <2>2. body(g, c) = body(h, c)
    BY <1>8, <2>1
  <2> QED BY <1>10, <2>2
<1>14. PICK g : Solves(g, D, V, H)
  BY <1>13, Recursion
<1>15. g = [c \in D |-> body(g, c)]
  <2>1. \A c \in D : g[c] = body(g, c)
    BY Zenon, <1>10, <1>14 DEF Solves
  <2>2. g = [c \in D |-> g[c]]
    BY <1>14 DEF Solves
  <2> QED BY <2>1, <2>2
<1>16. top = [c \in D |-> body(top, c)]
  BY <1>9, <1>15
<1>17. Inductive(D, size, T)
  <2> SUFFICES ASSUME NEW c \in D, \A y \in D : size[y] < size[c] => y \in T
               PROVE  c \in T
    BY DEF Inductive
  <2>1. top[c] = body(top, c)
    BY <1>16
  <2>2. CASE c.left >= c.right
    <3>1. Rearranged(m, c.arr, c.arr, c.left, c.right) /\ top[c] = c.arr
      BY <1>1, <1>8, <2>1, <2>2, RearrangedSame DEF V
    <3>2. ASSUME k \in c.left .. c.right PROVE Selected(c.arr, c.left, c.right, k)
      <4>1. c.left \in Int /\ c.right \in Int
        BY <1>1
      <4>2. k + 1 .. c.right = {}
        BY <2>2, <3>2, <4>1
      <4> QED BY <4>2 DEF Selected
    <3> QED BY <3>1, <3>2
  <2>3. CASE ~(c.left >= c.right)
    <3> DEFINE at == sp(c).at
               v == sp(c).arr
               b == top[c]
               l == c.left
               r == c.right
    <3>1. /\ l \in 1 .. m /\ r \in 1 .. m /\ at \in l .. r
          /\ Rearranged(m, c.arr, v, l, r) /\ Splits(v, l, r, at)
      BY <1>3, <2>3
    <3>2. low(c) \in T /\ high(c) \in T
      BY <1>3, <2>3
    <3>3. /\ Rearranged(m, v, top[high(c)], at + 1, r)
          /\ k \in at + 1 .. r => Selected(top[high(c)], at + 1, r, k)
      BY <1>6, <3>2
    <3>4. /\ Rearranged(m, v, top[low(c)], l, at - 1)
          /\ k \in l .. at - 1 => Selected(top[low(c)], l, at - 1, k)
      BY <1>6, <3>2
    <3>5. /\ at < k => b = top[high(c)]
          /\ at > k => b = top[low(c)]
          /\ at = k => b = v
          /\ at < k \/ at > k \/ at = k
      BY <1>8, <2>1, <2>3
    <3>6. Rearranged(m, c.arr, b, l, r) /\ (k \in l .. r => Selected(b, l, r, k))
      <4> HIDE DEF at, v, b, l, r
      <4>1. CASE at = k
        BY <3>1, <3>5, <4>1, SideSelected
      <4>2. CASE at < k
        <5>1. k <= r => k \in at + 1 .. r
          BY <3>1, <4>2
        <5>2. /\ k > at /\ Rearranged(m, v, b, at + 1, r)
              /\ k <= r => Selected(b, at + 1, r, k)
          BY <3>3, <3>5, <4>2, <5>1
        <5> QED BY <3>1, <5>2, SideSelected
      <4>3. CASE at > k
        <5>1. l <= k => k \in l .. at - 1
          BY <3>1, <4>3
        <5>2. /\ k < at /\ Rearranged(m, v, b, l, at - 1)
              /\ l <= k => Selected(b, l, at - 1, k)
          BY <3>4, <3>5, <4>3, <5>1
        <5> QED BY Zenon, <3>1, <5>2, SideSelected
      <4>4. QED
        BY <3>5, <4>1, <4>2, <4>3
    <3> QED BY <3>6
  <2> QED BY <2>2, <2>3
<1>18. D \subseteq T
  <2> HIDE DEF T
  <2> QED BY <1>2, <1>17, BySize
<1>19. QED
  <2>1. whole \in T
    BY <1>5, <1>18
  <2> QED BY <1>4, <2>1

(* A rearrangement of an array is a permutation of it.                       *)
LEMMA RearrangedPermutes ==
  ASSUME NEW m \in Nat, NEW a, NEW b, Rearranged(m, a, b, 1, m)
  PROVE  Permutes(a, b) /\ Len(b) = m /\ DOMAIN b = 1 .. m
<1>1. a \in Array(m) /\ b \in Array(m)
  BY DEF Rearranged
<1>2. Len(a) = m /\ Len(b) = m /\ DOMAIN b = 1 .. m
  BY <1>1, ArrayLength
<1>3. \A x : Count(a, x) = Count(b, x)
  BY RearrangedCounts
<1>4. QED
  BY <1>2, <1>3 DEF Permutes

(* For every array of integers and every k, quickSort returns the array in   *)
(* order and topK the array with its k smallest elements in front.           *)
(* (quickSort of quickSort.cpp, topkhelper of topk.cpp)                      *)
THEOREM ArraysSorted == ExSpec => []SortsRight
<1>1. ExInit => SortsRight
  <2> SUFFICES ASSUME ExInit PROVE SortsRight
    OBVIOUS
  <2>1. input = <<>> /\ nums = <<>> /\ kth = 0
    BY DEF ExInit
  <2>2. Permutes(input, nums)
    BY <2>1 DEF Permutes
  <2>3. DOMAIN nums = {}
    BY <2>1
  <2> QED BY <2>1, <2>2, <2>3 DEF SortsRight
<1>2. ASSUME NEW a \in Arrays, NEW k \in 0 .. Len(a), sort(a, k) PROVE SortsRight'
  <2> DEFINE m == Len(a)
  <2>1. a \in Seq(Int)
    BY ArraysAssumption
  <2>2. m \in Nat /\ a \in Array(m)
    BY <2>1, LenProperties DEF Array
  <2>3. input' = a /\ kth' = k /\ nums' = IF k = 0 THEN quickSort(a) ELSE topkhelper(a, k)
    BY <1>2 DEF sort
  <2>4. k \in 0 .. m
    OBVIOUS
  <2> HIDE DEF m
  <2>5. CASE k = 0
    <3>1. Rearranged(m, a, nums', 1, m) /\ Sorted(nums', 1, m)
      BY <2>2, <2>3, <2>5, QuickSortFacts
    <3>2. Permutes(a, nums') /\ DOMAIN nums' = 1 .. m
      BY <2>2, <3>1, RearrangedPermutes
    <3>3. Permutes(input, nums)'
      BY <2>3, <3>2 DEF Permutes, Count
    <3>4. \A i, j \in DOMAIN nums' : i < j => nums'[i] <= nums'[j]
      BY <3>1, <3>2 DEF Sorted
    <3> QED BY <2>3, <2>5, <3>3, <3>4 DEF SortsRight
  <2>6. CASE k # 0
    <3>0. k \in 1 .. m
      BY <2>2, <2>4, <2>6
    <3>1. Rearranged(m, a, nums', 1, m) /\ Selected(nums', 1, m, k)
      BY <2>2, <2>3, <2>6, <3>0, TopkFacts
    <3>2. Permutes(a, nums') /\ Len(nums') = m
      BY <2>2, <3>1, RearrangedPermutes
    <3>3. Permutes(input, nums)'
      BY <2>3, <3>2 DEF Permutes, Count
    <3>4. \A i \in 1 .. k, j \in k + 1 .. m : nums'[i] <= nums'[j]
      BY <3>1 DEF Selected
    <3> QED BY <2>3, <2>6, <3>2, <3>3, <3>4 DEF SortsRight
  <2> QED BY <2>5, <2>6
<1>3. SortsRight /\ [ExNext]_exVars => SortsRight'
  <2> SUFFICES ASSUME SortsRight, [ExNext]_exVars PROVE SortsRight'
    OBVIOUS
  <2>1. CASE UNCHANGED <<input, nums, kth>>
    BY <2>1 DEF SortsRight, Permutes, Count
  <2> QED BY Zenon, <1>2, <2>1 DEF ExNext, unionVal, tree_insert, exVars
<1>4. QED
  BY <1>1, <1>3, PTL DEF ExSpec

-----------------------------------------------------------------------------
(* All the programs                                                           *)

\* Each program of MCPrograms runs, or stands still, as it does on its own.
LEMMA EachOnItsOwn ==
  Spec => DbSpec /\ AsioSpec /\ NetSpec /\ SemSpec /\ CounterSpec /\ SplitSpec /\ BrokerSpec
          /\ EchoSpec /\ ExSpec
<1>1. Init => DbInit /\ AsioInit /\ NetInit /\ SemInit /\ CounterInit /\ SplitInit /\ BrokerInit
              /\ EchoInit /\ ExInit
  BY DEF Init
<1>2. [Next]_vars => [DbNext]_dbVars BY DEF Next, Only, vars
<1>3. [Next]_vars => [AsioNext]_asioVars BY DEF Next, Only, vars
<1>4. [Next]_vars => [NetNext]_anetVars BY DEF Next, Only, vars
<1>5. [Next]_vars => [SemNext]_semVars BY DEF Next, Only, vars
<1>6. [Next]_vars => [CounterNext]_counterVars BY DEF Next, Only, vars
<1>7. [Next]_vars => [SplitNext]_splitVars BY DEF Next, Only, vars
<1>8. [Next]_vars => [BrokerNext]_brokerVars BY DEF Next, Only, vars
<1>9. [Next]_vars => [EchoNext]_echoVars BY DEF Next, Only, vars
<1>10. [Next]_vars => [ExNext]_exVars BY DEF Next, Only, vars
<1> QED BY <1>1, <1>2, <1>3, <1>4, <1>5, <1>6, <1>7, <1>8, <1>9, <1>10, PTL
        DEF Spec, DbSpec, AsioSpec, NetSpec, SemSpec, CounterSpec, SplitSpec, BrokerSpec, EchoSpec,
            ExSpec

\* In every sample program what is acquired belongs to one user until it is given back:
\* connections and statements (SQLiteDatabase.cpp), the ids and watched entries of the
\* asio server (serverEnd.cpp), descriptors (anet.cpp), the shared memory between two
\* semaphores (shmRead.cpp, shmWrite.cpp), and requests in the broker (reqrepbroker.cpp).
THEOREM ResourcesAlwaysOwned == Spec => []ResourcesOwned
<1>1. DbSpec => [](DbTypeOK /\ ConnectionFreed) BY OperationsWhole, PTL
<1>2. AsioSpec => [](AsioTypeOK /\ IdsAccounted /\ IdExclusive /\ Watched) BY IdsKept
<1>3. NetSpec => [](NetTypeOK /\ FdOwned) BY DescriptorsOwned
<1>4. SemSpec => [](SemTypeOK /\ SemExclusive) BY HandOffSafe, PTL
<1>5. BrokerSpec => []RepliesMatch BY RepliesRight
<1>6. /\ DbTypeOK /\ ConnectionFreed
      /\ AsioTypeOK /\ IdsAccounted /\ IdExclusive /\ Watched
      /\ NetTypeOK /\ FdOwned
      /\ SemTypeOK /\ SemExclusive
      /\ RepliesMatch
      => ResourcesOwned
  BY DEF ResourcesOwned
<1> QED BY <1>1, <1>2, <1>3, <1>4, <1>5, <1>6, EachOnItsOwn, PTL

\* In every sample program, except in the cases the parts of the property name: rows are
\* inserted in order and deleted all or none (dbopmacros.h), records in shared memory are
\* whole and each newer than the last (shmRead.cpp), no increment under a lock is lost
\* (ipc_lock_trivial.cpp, ipc_atomic_trivial.cpp), a split file has as many lines as the
\* input has of its instrument, all copies of the first (splitMdFile.cpp), and echoed
\* messages come back in order, none lost while the socket is open (ZmqServerEnd.cpp).
THEOREM DataAlwaysIntact == Spec => []DataIntact
<1>1. DbSpec => [](DeleteAtomic /\ InsertPrefix) BY OperationsWhole, PTL
<1>2. SemSpec => []RecordsWhole BY HandOffSafe, PTL
<1>3. CounterSpec => []NoLostIncrement BY CountersRight
<1>4. SplitSpec => [](SplitTypeOK /\ FilesCounted) BY FilesRight
<1>5. EchoSpec => []EchoIntact BY EchoesIntact
<1>6. /\ DeleteAtomic /\ InsertPrefix /\ RecordsWhole /\ NoLostIncrement
      /\ SplitTypeOK /\ FilesCounted /\ EchoIntact
      => DataIntact
  BY DEF DataIntact
<1> QED BY <1>1, <1>2, <1>3, <1>4, <1>5, <1>6, EachOnItsOwn, PTL

\* The sequential exercises compute what their reference definitions say, for every
\* array, every number of elements and sequence of unions, and every set of codes.
\* (quickSort.cpp, topk.cpp, union_find_trivial.cpp, stock_tree_trivial.cpp)
THEOREM ExercisesAlwaysRight == Spec => []ExercisesRight
<1>1. SortsRight /\ UnionRight /\ TreeRight => ExercisesRight BY DEF ExercisesRight
<1> QED BY <1>1, ArraysSorted, UnionsConnect, CodesFound, EachOnItsOwn, PTL
=============================================================================
