------------------------- MODULE SolConnServerProofs -------------------------
(***************************************************************************)
(* Proofs about the solcom server, for every set of clients, addresses and  *)
(* commands, every size of libuv's pool and any number of starts.           *)
(***************************************************************************)
EXTENDS SolConnServer, TLAPS, FiniteSetTheorems, SequenceTheorems

-----------------------------------------------------------------------------
(* Types                                                                     *)

\* The variables of the loop thread, the map and the objects ...
LoopTypes ==
  /\ thread \in {"none", "new", "run", "stopping"}
  /\ bStop \in BOOLEAN /\ starts \in 0 .. MaxStarts
  /\ mapConnClient \in [Keys -> Objects \cup {NoObject}]
  /\ mem \in [Objects -> {"none", "alive", "deleted"}]
  /\ objKey \in [Objects -> Keys]
  /\ bConnected \in [Objects -> BOOLEAN]
  /\ tcp \in [Objects -> {"none", "open", "closing", "closed", "misused"}]
  /\ old \in [Objects -> BOOLEAN]

\* ... those of the answers and the commands ...
SendTypes ==
  /\ listWevent \in Seq(Objects)
  /\ second \in [Objects -> BOOLEAN]
  /\ writes \in [Objects -> Nat] /\ answer \in [Objects -> Tasks]
  /\ tpc \in [Tasks -> TaskPc] /\ client \in [Tasks -> Objects]

\* ... and the histories.
HistTypes ==
  /\ written \subseteq Tasks /\ overlap \subseteq Objects /\ abandoned \subseteq Objects
  /\ stale \subseteq Objects /\ used \subseteq Objects

\* The commands that work threads are running.
Pooled == {t \in Tasks : tpc[t] \in InPool}

PoolBound == IsFiniteSet(Pooled) /\ Cardinality(Pooled) <= PoolSize

\* What the map stores exists and has the address it is stored under.
Entries ==
  \A k \in Keys : mapConnClient[k] # NoObject =>
    mem[mapConnClient[k]] = "alive" /\ objKey[mapConnClient[k]] = k

Types == LoopTypes /\ SendTypes /\ HistTypes

(* The parts make up the type invariant.                                     *)
LEMMA TypeOKParts == Types /\ PoolBound /\ Entries => TypeOK
  BY DEF TypeOK, Types, LoopTypes, SendTypes, HistTypes, PoolBound, Pooled, Entries

(* At the start nothing exists.                                              *)
LEMMA InitTypes == Init => Types /\ PoolBound /\ Entries
<1> SUFFICES ASSUME Init PROVE Types /\ PoolBound /\ Entries
  OBVIOUS
<1>1. /\ (CHOOSE k \in Keys : TRUE) \in Keys /\ (CHOOSE t \in Tasks : TRUE) \in Tasks
      /\ (CHOOSE o \in Objects : TRUE) \in Objects
  BY ServerAssumption
<1>2. LoopTypes
  <2>1. /\ thread \in {"none", "new", "run", "stopping"} /\ starts \in 0 .. MaxStarts
        /\ mapConnClient \in [Keys -> Objects \cup {NoObject}]
        /\ mem \in [Objects -> {"none", "alive", "deleted"}]
        /\ objKey \in [Objects -> Keys]
        /\ tcp \in [Objects -> {"none", "open", "closing", "closed", "misused"}]
    BY <1>1, ServerAssumption DEF Init
  <2>2. bStop \in BOOLEAN /\ bConnected \in [Objects -> BOOLEAN] /\ old \in [Objects -> BOOLEAN]
    BY DEF Init
  <2>3. QED
    BY <2>1, <2>2 DEF LoopTypes
<1>3. SendTypes
  BY <1>1 DEF Init, SendTypes, TaskPc
<1>4. HistTypes
  BY DEF Init, HistTypes
<1>5. Entries
  BY DEF Init, Entries
<1>6. Pooled = {}
  BY DEF Init, Pooled, InPool
<1>7. PoolBound
  BY <1>6, FS_EmptySet, ServerAssumption DEF PoolBound
<1>8. QED
  BY <1>2, <1>3, <1>4, <1>5, <1>7 DEF Types

(* A pool that loses or keeps commands stays within its bound.               *)
LEMMA PoolShrinks ==
  ASSUME PoolBound, Pooled' \subseteq Pooled
  PROVE  PoolBound'
<1>1. IsFiniteSet(Pooled') /\ Cardinality(Pooled') <= Cardinality(Pooled)
  BY FS_Subset DEF PoolBound
<1>2. Cardinality(Pooled) \in Nat /\ Cardinality(Pooled') \in Nat
  BY <1>1, FS_CardinalityType DEF PoolBound
<1>3. QED
  BY <1>1, <1>2, ServerAssumption DEF PoolBound

(* work_cb takes a command only when a thread is free.                       *)
LEMMA PoolGrows ==
  ASSUME PoolBound, Cardinality(Pooled) < PoolSize, NEW t, Pooled' \subseteq Pooled \cup {t}
  PROVE  PoolBound'
<1>1. /\ IsFiniteSet(Pooled \cup {t})
      /\ Cardinality(Pooled \cup {t}) \in {Cardinality(Pooled), Cardinality(Pooled) + 1}
  BY FS_AddElement DEF PoolBound
<1>2. IsFiniteSet(Pooled') /\ Cardinality(Pooled') <= Cardinality(Pooled \cup {t})
  BY <1>1, FS_Subset
<1>3. Cardinality(Pooled) \in Nat /\ Cardinality(Pooled') \in Nat
  BY <1>2, FS_CardinalityType DEF PoolBound
<1>4. QED
  BY <1>1, <1>2, <1>3, ServerAssumption DEF PoolBound

-----------------------------------------------------------------------------
(* Whose the objects are                                                     *)

\* The flag of an object says whether its handle is open; no handle is closed
\* twice; an object that does not exist yet has none.
Links ==
  \A o \in Objects :
    /\ bConnected[o] <=> tcp[o] = "open"
    /\ tcp[o] # "misused"
    /\ mem[o] = "none" => tcp[o] = "none"

\* A deleted object to which nothing referred when it was deleted stays without
\* a reference.
DeletedApart == \A o \in Objects : mem[o] = "deleted" /\ o \notin stale => ~Referred(o)

ClientInv ==
  /\ Types /\ PoolBound /\ Entries
  /\ Links /\ DeletedApart /\ used \subseteq stale

(* Nothing comes to refer to an object that nothing refers to.               *)
LEMMA DeletedStaysApart ==
  ASSUME DeletedApart, stale' = stale,
         \A o \in Objects : mem[o] # "deleted" => mem'[o] # "deleted",
         \A o \in Objects : Referred(o)' /\ mem[o] = "deleted" => Referred(o)
  PROVE  DeletedApart'
<1> SUFFICES ASSUME NEW o \in Objects, mem'[o] = "deleted", o \notin stale', Referred(o)'
             PROVE  FALSE
  BY DEF DeletedApart
<1>1. QED
  BY DEF DeletedApart

(* Who refers to an object may use it.                                       *)
LEMMA TouchReferred ==
  ASSUME NEW o \in Objects, DeletedApart, used \subseteq stale, Referred(o), Touch(o),
         stale' = stale
  PROVE  used' \subseteq stale'
  BY DEF DeletedApart, Touch

(* An access leaves the histories what they are.                             *)
LEMMA TouchTypes ==
  ASSUME NEW o \in Objects, HistTypes, Touch(o),
         UNCHANGED <<written, overlap, abandoned, stale>>
  PROVE  HistTypes'
  BY DEF HistTypes, Touch

(* The invariant at the start.                                               *)
LEMMA ClientInit == Init => ClientInv
<1> SUFFICES ASSUME Init PROVE ClientInv
  OBVIOUS
<1>1. Types /\ PoolBound /\ Entries
  BY InitTypes
<1>2. \A o \in Objects : ~bConnected[o] /\ tcp[o] = "none" /\ mem[o] = "none"
  BY DEF Init
<1>3. Links
  BY <1>2 DEF Links
<1>4. DeletedApart
  BY <1>2 DEF DeletedApart
<1>5. used \subseteq stale
  BY DEF Init
<1>6. QED
  BY <1>1, <1>3, <1>4, <1>5 DEF ClientInv

(* The steps of Start, Stop and the loop thread change nothing of an object. *)
LEMMA RunStep ==
  ASSUME ClientInv, Start \/ Stop \/ loopFunction \/ uv_run_returns
  PROVE  ClientInv'
<1>1. UNCHANGED <<mapConnClient, listWevent, objVars, sendVars, taskVars, histVars, used>>
  BY DEF Start, Stop, loopFunction, uv_run_returns
<1>2. LoopTypes'
  <2>1. thread' \in {"none", "new", "run", "stopping"}
    BY DEF ClientInv, Types, LoopTypes, Start, Stop, loopFunction, uv_run_returns
  <2>2. bStop' \in BOOLEAN
    BY DEF ClientInv, Types, LoopTypes, Start, Stop, loopFunction, uv_run_returns
  <2>3. starts' \in 0 .. MaxStarts
    <3>1. starts' = starts \/ (starts < MaxStarts /\ starts' = starts + 1)
      BY DEF Start, Stop, loopFunction, uv_run_returns
    <3>2. QED
      BY <3>1, ServerAssumption DEF ClientInv, Types, LoopTypes
  <2>4. QED
    BY <1>1, <2>1, <2>2, <2>3 DEF ClientInv, Types, LoopTypes, objVars
<1>3. SendTypes' /\ HistTypes'
  BY <1>1 DEF ClientInv, Types, SendTypes, HistTypes, sendVars, taskVars, histVars
<1>4. PoolBound' /\ Entries'
  BY <1>1 DEF ClientInv, PoolBound, Pooled, Entries, taskVars, objVars
<1>5. Links'
  BY <1>1 DEF ClientInv, Links, objVars
<1>6. DeletedApart' /\ used' \subseteq stale'
  BY <1>1 DEF ClientInv, DeletedApart, Referred, objVars, taskVars, histVars
<1>7. QED
  BY <1>2, <1>3, <1>4, <1>5, <1>6 DEF ClientInv, Types

(* closeClient closes a handle that is open and no other: the flag says which.*)
LEMMA CloseClients ==
  ASSUME NEW os \in SUBSET Objects, LoopTypes, Links, closeClients(os),
         mem' \in [Objects -> {"none", "alive", "deleted"}],
         \A o \in Objects : mem'[o] = "none" => mem[o] = "none"
  PROVE  /\ tcp' \in [Objects -> {"none", "open", "closing", "closed", "misused"}]
         /\ bConnected' \in [Objects -> BOOLEAN]
         /\ Links'
         /\ \A o \in Objects : tcp'[o] \in {"open", "closing"} => tcp[o] \in {"open", "closing"}
         /\ \A o \in Objects : o \notin os \/ tcp[o] # "open" => tcp'[o] = tcp[o]
<1>1. \A o \in Objects :
        tcp'[o] = IF o \in os /\ tcp[o] = "open" THEN "closing" ELSE tcp[o]
  BY DEF closeClients, uv_close, Links
<1>2. tcp' \in [Objects -> {"none", "open", "closing", "closed", "misused"}]
  <2>1. tcp' = [o \in Objects |-> tcp'[o]]
    BY DEF closeClients, uv_close
  <2>2. \A o \in Objects : tcp'[o] \in {"none", "open", "closing", "closed", "misused"}
    BY <1>1 DEF LoopTypes
  <2>3. QED
    BY <2>1, <2>2
<1>3. bConnected' \in [Objects -> BOOLEAN]
  BY DEF closeClients
<1>4. \A o \in Objects : bConnected'[o] <=> (bConnected[o] /\ o \notin os)
  BY DEF closeClients
<1>5. Links'
  <2> SUFFICES ASSUME NEW o \in Objects
               PROVE  /\ bConnected'[o] <=> tcp'[o] = "open"
                      /\ tcp'[o] # "misused"
                      /\ mem'[o] = "none" => tcp'[o] = "none"
    BY DEF Links
  <2>1. QED
    BY <1>1, <1>4 DEF Links
<1>6. QED
  BY <1>1, <1>2, <1>3, <1>5

(* A connection is accepted, or not.                                         *)
LEMMA ConnectStep ==
  ASSUME ClientInv, NEW o \in Objects,
         (\E k \in Keys : connect_cb(o, k)) \/ connect_cb_error(o)
  PROVE  ClientInv'
<1>1. /\ mem[o] = "none" /\ mem' = [mem EXCEPT ![o] = "alive"]
      /\ UNCHANGED <<runVars, listWevent, old, sendVars, taskVars, histVars, used>>
  BY DEF connect_cb, connect_cb_error
<1>2. /\ bConnected[o] = FALSE
      /\ \A k \in Keys : mapConnClient[k] # o
  <2>1. bConnected[o] = FALSE
    BY <1>1 DEF ClientInv, Links, Types, LoopTypes
  <2>2. \A k \in Keys : mapConnClient[k] # o
    BY <1>1, ServerAssumption DEF ClientInv, Entries
  <2>3. QED
    BY <2>1, <2>2
<1>3. LoopTypes'
  <2>1. bConnected' \in [Objects -> BOOLEAN]
    BY DEF ClientInv, Types, LoopTypes, connect_cb, connect_cb_error
  <2>2. /\ mem' \in [Objects -> {"none", "alive", "deleted"}] /\ objKey' \in [Objects -> Keys]
        /\ tcp' \in [Objects -> {"none", "open", "closing", "closed", "misused"}]
    BY DEF ClientInv, Types, LoopTypes, connect_cb, connect_cb_error
  <2>3. mapConnClient' \in [Keys -> Objects \cup {NoObject}]
    BY DEF ClientInv, Types, LoopTypes, connect_cb, connect_cb_error
  <2>4. QED
    BY <1>1, <2>1, <2>2, <2>3 DEF ClientInv, Types, LoopTypes, runVars
<1>4. SendTypes' /\ HistTypes' /\ PoolBound'
  BY <1>1 DEF ClientInv, Types, SendTypes, HistTypes, sendVars, taskVars, histVars, PoolBound,
              Pooled
<1>5. Entries'
  <2>1. CASE connect_cb_error(o)
    BY <1>1, <1>2, <2>1, ServerAssumption DEF ClientInv, Types, LoopTypes, Entries, connect_cb_error
  <2>2. CASE \E k \in Keys : connect_cb(o, k)
    <3>1. PICK k \in Keys : connect_cb(o, k)
      BY <2>2
    <3>2. /\ mapConnClient' = IF mapConnClient[k] = NoObject
                              THEN [mapConnClient EXCEPT ![k] = o] ELSE mapConnClient
          /\ objKey' = [objKey EXCEPT ![o] = k]
      BY <3>1 DEF connect_cb
    <3>3. ASSUME NEW j \in Keys, mapConnClient'[j] # NoObject
          PROVE  mem'[mapConnClient'[j]] = "alive" /\ objKey'[mapConnClient'[j]] = j
      <4>1. \/ j = k /\ mapConnClient'[j] = o
            \/ mapConnClient'[j] = mapConnClient[j] /\ mapConnClient[j] # o
        BY <1>2, <3>2 DEF ClientInv, Types, LoopTypes
      <4>2. QED
        BY <1>1, <3>2, <3>3, <4>1 DEF ClientInv, Types, LoopTypes, Entries
    <3>4. QED
      BY <3>3 DEF Entries
  <2>3. QED
    BY <2>1, <2>2
<1>6. Links'
  <2> SUFFICES ASSUME NEW p \in Objects
               PROVE  /\ bConnected'[p] <=> tcp'[p] = "open"
                      /\ tcp'[p] # "misused"
                      /\ mem'[p] = "none" => tcp'[p] = "none"
    BY DEF Links
  <2>1. CASE p = o
    <3>1. \/ bConnected'[o] = TRUE /\ tcp'[o] = "open" /\ mem'[o] = "alive"
          \/ bConnected'[o] = FALSE /\ tcp'[o] = "closing" /\ mem'[o] = "alive"
      BY <1>2 DEF ClientInv, Types, LoopTypes, connect_cb, connect_cb_error
    <3>2. QED
      BY <2>1, <3>1
  <2>2. CASE p # o
    <3>1. bConnected'[p] = bConnected[p] /\ tcp'[p] = tcp[p] /\ mem'[p] = mem[p]
      BY <2>2 DEF ClientInv, Types, LoopTypes, connect_cb, connect_cb_error
    <3>2. QED
      BY <3>1 DEF ClientInv, Links
  <2>3. QED
    BY <2>1, <2>2
<1>7. DeletedApart'
  <2>1. \A p \in Objects : mem[p] # "deleted" => mem'[p] # "deleted"
    BY <1>1 DEF ClientInv, Types, LoopTypes
  <2>2. \A p \in Objects : mem[p] = "deleted" => tcp'[p] = tcp[p]
    BY <1>1 DEF ClientInv, Types, LoopTypes, connect_cb, connect_cb_error
  <2>3. \A p \in Objects : Referred(p)' /\ mem[p] = "deleted" => Referred(p)
    BY <1>1, <2>2 DEF Referred, taskVars
  <2>4. QED
    BY <1>1, <2>1, <2>3, DeletedStaysApart DEF ClientInv, histVars
<1>8. used' \subseteq stale'
  BY <1>1 DEF ClientInv, histVars
<1>9. QED
  BY <1>3, <1>4, <1>5, <1>6, <1>7, <1>8 DEF ClientInv, Types

(* A silence, and a read: a complete command refers to the object from then  *)
(* on, as the open handle does already.                                      *)
LEMMA ReadStep ==
  ASSUME ClientInv, NEW o \in Objects,
         silence(o) \/ read_cb_part(o) \/ (\E t \in Tasks : read_cb(o, t))
  PROVE  ClientInv'
<1>1. /\ UNCHANGED <<runVars, mapConnClient, listWevent, mem, objKey, bConnected, tcp, sendVars,
                     histVars>>
      /\ old' = [old EXCEPT ![o] = TRUE] \/ old' = [old EXCEPT ![o] = FALSE]
  BY DEF silence, read_cb_part, read_cb
<1>2. \/ UNCHANGED taskVars
      \/ \E t \in Tasks : /\ tcp[o] = "open" /\ tpc[t] = "free"
                          /\ tpc' = [tpc EXCEPT ![t] = "queued"]
                          /\ client' = [client EXCEPT ![t] = o]
  BY DEF silence, read_cb_part, read_cb
<1>3. used' = used \/ (tcp[o] = "open" /\ Touch(o))
  BY DEF silence, read_cb_part, read_cb
<1>4. LoopTypes'
  <2>1. old' \in [Objects -> BOOLEAN]
    BY <1>1 DEF ClientInv, Types, LoopTypes
  <2>2. QED
    BY <1>1, <2>1 DEF ClientInv, Types, LoopTypes, runVars
<1>5. SendTypes'
  <2>1. tpc' \in [Tasks -> TaskPc] /\ client' \in [Tasks -> Objects]
    BY <1>2, ZenonT(60) DEF ClientInv, Types, SendTypes, taskVars, TaskPc
  <2>2. QED
    BY <1>1, <2>1 DEF ClientInv, Types, SendTypes, sendVars
<1>6. HistTypes'
  BY <1>1, <1>3, TouchTypes DEF ClientInv, Types, HistTypes, histVars, sendVars
<1>7. PoolBound'
  <2>1. Pooled' \subseteq Pooled
    BY <1>2 DEF ClientInv, Types, SendTypes, Pooled, InPool, taskVars
  <2>2. QED
    BY <2>1, PoolShrinks DEF ClientInv
<1>8. Entries' /\ Links'
  BY <1>1 DEF ClientInv, Entries, Links
<1>9. DeletedApart'
  <2>1. ASSUME NEW p \in Objects, Referred(p)' PROVE Referred(p)
    <3>1. CASE \E t \in Tasks : client'[t] = p /\ tpc'[t] \in {"queued"} \cup InPool
      BY <1>2, <3>1 DEF ClientInv, Types, SendTypes, taskVars, Referred
    <3>2. CASE ~ \E t \in Tasks : client'[t] = p /\ tpc'[t] \in {"queued"} \cup InPool
      BY <1>1, <2>1, <3>2 DEF Referred
    <3>3. QED
      BY <3>1, <3>2
  <2>2. QED
    BY <1>1, <2>1, DeletedStaysApart DEF ClientInv, histVars
<1>10. used' \subseteq stale'
  <2>1. tcp[o] = "open" => Referred(o)
    BY DEF Referred
  <2>2. QED
    BY <1>1, <1>3, <2>1, TouchReferred DEF ClientInv, histVars
<1>11. QED
  BY <1>4, <1>5, <1>6, <1>7, <1>8, <1>9, <1>10 DEF ClientInv, Types

(* Callbacks of an open or closing handle: a read that fails, a write that   *)
(* ends, the end of the closing.                                             *)
LEMMA CallbackStep ==
  ASSUME ClientInv, NEW o \in Objects, read_cb_error(o) \/ Owed(o)
  PROVE  ClientInv'
<1>1. /\ UNCHANGED <<runVars, mapConnClient, listWevent, mem, objKey, answer, taskVars, histVars>>
      /\ tcp[o] \in {"open", "closing"} /\ Touch(o)
  BY DEF read_cb_error, Owed, req_write_cb, req_write_cb_error, req_write_cb_cancelled,
         close_done, WriteCalledBack, sendVars
<1>2. \/ closeClients({o})
      \/ UNCHANGED <<bConnected, tcp>>
      \/ tcp[o] = "closing" /\ tcp' = [tcp EXCEPT ![o] = "closed"] /\ UNCHANGED bConnected
  BY DEF read_cb_error, Owed, req_write_cb, req_write_cb_error, req_write_cb_cancelled,
         close_done
<1>3. old' = old \/ old' = [old EXCEPT ![o] = FALSE]
  BY DEF read_cb_error, Owed, req_write_cb, req_write_cb_error, req_write_cb_cancelled,
         close_done
<1>4. /\ second' = second \/ second' = [second EXCEPT ![o] = FALSE]
      /\ writes' = writes \/ (writes[o] > 0 /\ writes' = [writes EXCEPT ![o] = @ - 1])
      /\ written' = written \/ written' = written \cup {answer[o]}
  BY DEF read_cb_error, Owed, req_write_cb, req_write_cb_error, req_write_cb_cancelled,
         close_done, WriteCalledBack, sendVars
<1>5. /\ tcp' \in [Objects -> {"none", "open", "closing", "closed", "misused"}]
      /\ bConnected' \in [Objects -> BOOLEAN]
      /\ Links'
      /\ \A p \in Objects : tcp'[p] \in {"open", "closing"} => tcp[p] \in {"open", "closing"}
  <2>1. CASE closeClients({o})
    BY <1>1, <2>1, CloseClients DEF ClientInv, Types, LoopTypes
  <2>2. CASE UNCHANGED <<bConnected, tcp>>
    BY <1>1, <2>2 DEF ClientInv, Types, LoopTypes, Links
  <2>3. CASE tcp[o] = "closing" /\ tcp' = [tcp EXCEPT ![o] = "closed"] /\ UNCHANGED bConnected
    <3>1. /\ tcp' \in [Objects -> {"none", "open", "closing", "closed", "misused"}]
          /\ bConnected' \in [Objects -> BOOLEAN]
      BY <2>3 DEF ClientInv, Types, LoopTypes
    <3>2. /\ \A p \in Objects : tcp'[p] = IF p = o THEN "closed" ELSE tcp[p]
          /\ bConnected' = bConnected
      BY <2>3 DEF ClientInv, Types, LoopTypes
    <3>3. Links'
      BY <1>1, <2>3, <3>2 DEF ClientInv, Links
    <3>4. QED
      BY <3>1, <3>2, <3>3
  <2>4. QED
    BY <1>2, <2>1, <2>2, <2>3
<1>6. LoopTypes'
  <2>1. old' \in [Objects -> BOOLEAN]
    BY <1>3 DEF ClientInv, Types, LoopTypes
  <2>2. QED
    BY <1>1, <1>5, <2>1 DEF ClientInv, Types, LoopTypes, runVars
<1>7. SendTypes'
  <2>1. second' \in [Objects -> BOOLEAN]
    BY <1>4 DEF ClientInv, Types, SendTypes
  <2>2. writes' \in [Objects -> Nat]
    BY <1>4 DEF ClientInv, Types, SendTypes
  <2>3. QED
    BY <1>1, <2>1, <2>2 DEF ClientInv, Types, SendTypes, taskVars
<1>8. HistTypes'
  BY <1>1, <1>4 DEF ClientInv, Types, HistTypes, SendTypes, histVars, Touch
<1>9. PoolBound' /\ Entries'
  BY <1>1 DEF ClientInv, PoolBound, Pooled, Entries, taskVars
<1>10. DeletedApart'
  <2>1. \A p \in Objects : Referred(p)' => Referred(p)
    BY <1>1, <1>5 DEF Referred, taskVars
  <2>2. QED
    BY <1>1, <2>1, DeletedStaysApart DEF ClientInv, histVars
<1>11. used' \subseteq stale'
  <2>1. Referred(o)
    BY <1>1 DEF Referred
  <2>2. QED
    BY <1>1, <2>1, TouchReferred DEF ClientInv, histVars
<1>12. QED
  BY <1>5, <1>6, <1>7, <1>8, <1>9, <1>10, <1>11 DEF ClientInv, Types

(* The keep-alive timer deletes silent objects and remembers those to which  *)
(* something still refers.                                                   *)
LEMMA TimerStep ==
  ASSUME ClientInv, hbt_timer_cb
  PROVE  ClientInv'
<1>1. Stored \subseteq Objects /\ \A o \in Stored : mem[o] = "alive"
  BY DEF ClientInv, Types, LoopTypes, Stored, Entries
<1>2. /\ closeClients(Silent) /\ Silent \subseteq Stored
      /\ mem' = [o \in Objects |-> IF o \in Silent THEN "deleted" ELSE mem[o]]
      /\ old' = [o \in Objects |-> old[o] /\ o \notin Silent]
      /\ mapConnClient' = [k \in Keys |-> IF mapConnClient[k] \in Silent THEN NoObject
                                          ELSE mapConnClient[k]]
      /\ stale' = stale \cup {o \in Silent : Referred(o)}
      /\ used' = used \cup {o \in Stored : mem[o] = "deleted"}
      /\ UNCHANGED <<runVars, listWevent, objKey, sendVars, taskVars, overlap, abandoned>>
  BY DEF hbt_timer_cb, Erase, Silent
<1>3. mem' \in [Objects -> {"none", "alive", "deleted"}]
  BY <1>2 DEF ClientInv, Types, LoopTypes
<1>4. \A o \in Objects : mem'[o] = "none" => mem[o] = "none"
  BY <1>2
<1>5. /\ tcp' \in [Objects -> {"none", "open", "closing", "closed", "misused"}]
      /\ bConnected' \in [Objects -> BOOLEAN]
      /\ Links'
      /\ \A o \in Objects : tcp'[o] \in {"open", "closing"} => tcp[o] \in {"open", "closing"}
  <2>1. Silent \in SUBSET Objects
    BY <1>1, <1>2
  <2>2. QED
    BY <1>2, <1>3, <1>4, <2>1, CloseClients DEF ClientInv, Types
<1>6. LoopTypes'
  <2>1. old' \in [Objects -> BOOLEAN]
    BY <1>2
  <2>2. mapConnClient' \in [Keys -> Objects \cup {NoObject}]
    BY <1>2 DEF ClientInv, Types, LoopTypes
  <2>3. QED
    BY <1>2, <1>3, <1>5, <2>1, <2>2 DEF ClientInv, Types, LoopTypes, runVars
<1>7. SendTypes' /\ PoolBound'
  BY <1>2 DEF ClientInv, Types, SendTypes, sendVars, taskVars, PoolBound, Pooled
<1>8. HistTypes'
  BY <1>1, <1>2 DEF ClientInv, Types, HistTypes, sendVars
<1>9. Entries'
  <2> SUFFICES ASSUME NEW k \in Keys, mapConnClient'[k] # NoObject
               PROVE  mem'[mapConnClient'[k]] = "alive" /\ objKey'[mapConnClient'[k]] = k
    BY DEF Entries
  <2>1. mapConnClient'[k] = mapConnClient[k] /\ mapConnClient[k] \notin Silent
    BY <1>2
  <2>2. mapConnClient[k] \in Objects
    BY <2>1 DEF ClientInv, Types, LoopTypes
  <2>3. QED
    BY <1>2, <2>1, <2>2 DEF ClientInv, Entries
<1>10. \A o \in Objects : Referred(o)' => Referred(o)
  BY <1>2, <1>5 DEF Referred, taskVars
<1>11. DeletedApart'
  <2> SUFFICES ASSUME NEW o \in Objects, mem'[o] = "deleted", o \notin stale', Referred(o)'
               PROVE  FALSE
    BY DEF DeletedApart
  <2>1. QED
    BY <1>2, <1>10 DEF ClientInv, DeletedApart
<1>12. used' \subseteq stale'
  BY <1>1, <1>2 DEF ClientInv
<1>13. QED
  BY <1>5, <1>6, <1>7, <1>8, <1>9, <1>11, <1>12 DEF ClientInv, Types

(* The entries of an object in the write list can be counted.                *)
LEMMA ListedFinite ==
  ASSUME SendTypes, NEW o
  PROVE  IsFiniteSet(Listed(o)) /\ Cardinality(Listed(o)) \in Nat
<1>1. Len(listWevent) \in Nat
  BY LenProperties DEF SendTypes
<1>2. IsFiniteSet(1 .. Len(listWevent))
  BY <1>1, FS_Interval
<1>3. Listed(o) \in SUBSET (1 .. Len(listWevent))
  BY DEF Listed
<1>4. QED
  BY <1>2, <1>3, FS_Subset, FS_CardinalityType

(* idle_cb empties the write list, and when the server stops it closes the   *)
(* stored clients.                                                           *)
LEMMA IdleStep ==
  ASSUME ClientInv, idle_cb \/ idle_cb_stop
  PROVE  ClientInv'
<1> DEFINE now == {listWevent[i] : i \in 1 .. Len(listWevent)}
<1>1. /\ UNCHANGED <<bStop, starts, mapConnClient, mem, objKey, old, second, answer, written,
                     taskVars, overlap, stale>>
      /\ thread' = thread \/ thread' = "stopping"
      /\ writeHandle
  BY DEF idle_cb, idle_cb_stop, runVars, objVars
<1>2. /\ writes' = [o \in Objects |-> IF bConnected[o] THEN writes[o] + Cardinality(Listed(o))
                                      ELSE writes[o]]
      /\ abandoned' = abandoned \cup {o \in now : ~bConnected[o]}
      /\ used' = used \cup {o \in now : mem[o] = "deleted"}
      /\ listWevent' = <<>>
  BY <1>1 DEF writeHandle
<1>3. Stored \subseteq Objects
  BY DEF ClientInv, Types, LoopTypes, Stored
<1>4. /\ tcp' \in [Objects -> {"none", "open", "closing", "closed", "misused"}]
      /\ bConnected' \in [Objects -> BOOLEAN]
      /\ Links'
      /\ \A o \in Objects : tcp'[o] \in {"open", "closing"} => tcp[o] \in {"open", "closing"}
  <2>1. CASE UNCHANGED objVars
    BY <2>1 DEF ClientInv, Types, LoopTypes, Links, objVars
  <2>2. CASE closeClients(Stored)
    BY <1>1, <1>3, <2>2, CloseClients DEF ClientInv, Types, LoopTypes
  <2>3. QED
    BY <2>1, <2>2 DEF idle_cb, idle_cb_stop
<1>5. now \subseteq Objects /\ \A o \in now : Referred(o)
  <2>1. \A i \in 1 .. Len(listWevent) : listWevent[i] \in Objects
    BY ElementOfSeq DEF ClientInv, Types, SendTypes
  <2>2. QED
    BY <2>1 DEF Referred
<1>6. LoopTypes'
  BY <1>1, <1>4 DEF ClientInv, Types, LoopTypes
<1>7. SendTypes'
  <2>1. writes' \in [Objects -> Nat]
    <3>1. \A o \in Objects : Cardinality(Listed(o)) \in Nat
      BY ListedFinite DEF ClientInv, Types
    <3>2. QED
      BY <1>2, <3>1 DEF ClientInv, Types, SendTypes
  <2>2. listWevent' \in Seq(Objects)
    BY <1>2
  <2>3. QED
    BY <1>1, <2>1, <2>2 DEF ClientInv, Types, SendTypes, taskVars
<1>8. HistTypes'
  BY <1>1, <1>2, <1>5 DEF ClientInv, Types, HistTypes
<1>9. PoolBound' /\ Entries'
  BY <1>1 DEF ClientInv, PoolBound, Pooled, Entries, taskVars
<1>10. DeletedApart'
  <2>1. ~ \E i \in 1 .. Len(listWevent') : TRUE
    <3>1. Len(listWevent') = 0
      BY <1>2
    <3>2. QED
      BY <3>1
  <2>2. \A p \in Objects : Referred(p)' => Referred(p)
    BY <1>1, <1>4, <2>1 DEF Referred, taskVars
  <2>3. QED
    BY <1>1, <2>2, DeletedStaysApart DEF ClientInv
<1>11. used' \subseteq stale'
  BY <1>1, <1>2, <1>5 DEF ClientInv, DeletedApart
<1>12. QED
  BY <1>4, <1>6, <1>7, <1>8, <1>9, <1>10, <1>11 DEF ClientInv, Types

(* A command on a work thread refers to its object until it is done, and     *)
(* hands the reference on to the write list.                                 *)
LEMMA WorkStep ==
  ASSUME ClientInv, NEW t \in Tasks, Work(t)
  PROVE  ClientInv'
<1> DEFINE o == client[t]
<1>1. /\ UNCHANGED <<client, runVars, mapConnClient, objVars, writes, written, abandoned, stale>>
      /\ tpc[t] \in {"queued"} \cup InPool
  BY DEF Work, work_cb, postMsg_wait, postMsg_spin, postMsg_test, postMsg_set, WeventCtl, Go,
         InPool, taskVars, sendVars, histVars
<1>2. o \in Objects /\ Referred(o)
  BY <1>1 DEF ClientInv, Types, SendTypes, Referred
<1>3. \E pc \in InPool \cup {"after"} : tpc' = [tpc EXCEPT ![t] = pc]
  <2>1. tpc' = tpc => tpc' = [tpc EXCEPT ![t] = tpc[t]]
    BY DEF ClientInv, Types, SendTypes
  <2>2. QED
    BY <2>1 DEF Work, work_cb, postMsg_wait, postMsg_spin, postMsg_test, postMsg_set, WeventCtl,
                Go, InPool, taskVars
<1>4. used' = used \/ Touch(o)
  BY DEF Work, work_cb, postMsg_wait, postMsg_spin, postMsg_test, postMsg_set, WeventCtl
<1>5. listWevent' = listWevent \/ listWevent' = Append(listWevent, o)
  BY DEF Work, work_cb, postMsg_wait, postMsg_spin, postMsg_test, postMsg_set, WeventCtl
<1>6. /\ second' = second \/ second' = [second EXCEPT ![o] = TRUE]
      /\ answer' = answer \/ answer' = [answer EXCEPT ![o] = t]
      /\ overlap' = overlap \/ overlap' = overlap \cup {o}
  BY DEF Work, work_cb, postMsg_wait, postMsg_spin, postMsg_test, postMsg_set, WeventCtl,
         sendVars, histVars
<1> HIDE DEF o
<1>7. LoopTypes' /\ Entries' /\ Links'
  BY <1>1 DEF ClientInv, Types, LoopTypes, Entries, Links, runVars, objVars
<1>8. SendTypes'
  <2>1. second' \in [Objects -> BOOLEAN]
    BY <1>6 DEF ClientInv, Types, SendTypes
  <2>2. answer' \in [Objects -> Tasks]
    BY <1>6 DEF ClientInv, Types, SendTypes
  <2>3. tpc' \in [Tasks -> TaskPc]
    BY <1>3 DEF ClientInv, Types, SendTypes, TaskPc
  <2>4. listWevent' \in Seq(Objects)
    <3>1. listWevent \in Seq(Objects) /\ o \in Objects
      BY <1>2 DEF ClientInv, Types, SendTypes
    <3>2. Append(listWevent, o) \in Seq(Objects)
      BY <3>1, AppendProperties
    <3>3. QED
      BY <1>5, <3>1, <3>2
  <2>5. QED
    BY <1>1, <2>1, <2>2, <2>3, <2>4 DEF ClientInv, Types, SendTypes
<1>9. HistTypes'
  BY <1>1, <1>2, <1>4, <1>6 DEF ClientInv, Types, HistTypes, Touch
<1>10. PoolBound'
  <2>1. CASE work_cb(t)
    <3>1. Cardinality(Pooled) < PoolSize
      BY <2>1 DEF work_cb, Pooled
    <3>2. Pooled' \subseteq Pooled \cup {t}
      BY <1>3 DEF ClientInv, Types, SendTypes, Pooled
    <3>3. QED
      BY <3>1, <3>2, PoolGrows DEF ClientInv
  <2>2. CASE ~work_cb(t)
    <3>1. tpc[t] \in InPool
      BY <2>2 DEF Work, postMsg_wait, postMsg_spin, postMsg_test, postMsg_set, WeventCtl, Go,
                  InPool
    <3>2. Pooled' \subseteq Pooled
      BY <1>3, <3>1 DEF ClientInv, Types, SendTypes, Pooled
    <3>3. QED
      BY <3>2, PoolShrinks DEF ClientInv
  <2>3. QED
    BY <2>1, <2>2
<1>11. DeletedApart'
  <2>1. ASSUME NEW p \in Objects, Referred(p)' PROVE Referred(p)
    <3>1. CASE tcp'[p] \in {"open", "closing"}
      BY <1>1, <3>1 DEF Referred, objVars
    <3>2. CASE \E i \in 1 .. Len(listWevent') : listWevent'[i] = p
      <4>1. PICK i \in 1 .. Len(listWevent') : listWevent'[i] = p
        BY <3>2
      <4>2. p = o \/ (i \in 1 .. Len(listWevent) /\ listWevent[i] = p)
        <5>1. listWevent \in Seq(Objects) /\ o \in Objects /\ Len(listWevent) \in Nat
          BY <1>2, LenProperties DEF ClientInv, Types, SendTypes
        <5>2. /\ Len(Append(listWevent, o)) = Len(listWevent) + 1
              /\ \A j \in 1 .. Len(listWevent) : Append(listWevent, o)[j] = listWevent[j]
              /\ Append(listWevent, o)[Len(listWevent) + 1] = o
          BY <5>1, AppendProperties
        <5>3. CASE listWevent' = listWevent
          BY <4>1, <5>3
        <5>4. CASE listWevent' = Append(listWevent, o)
          <6>1. i \in 1 .. Len(listWevent) \/ i = Len(listWevent) + 1
            BY <4>1, <5>1, <5>2, <5>4
          <6>2. QED
            BY <4>1, <5>2, <5>4, <6>1
        <5>5. QED
          BY <1>5, <5>3, <5>4
      <4>3. QED
        BY <1>2, <4>2 DEF Referred
    <3>3. CASE \E u \in Tasks : client'[u] = p /\ tpc'[u] \in {"queued"} \cup InPool
      <4>1. PICK u \in Tasks : client'[u] = p /\ tpc'[u] \in {"queued"} \cup InPool
        BY <3>3
      <4>2. client[u] = p /\ tpc[u] \in {"queued"} \cup InPool
        BY <1>1, <1>3, <4>1 DEF ClientInv, Types, SendTypes
      <4>3. QED
        BY <4>2 DEF Referred
    <3>4. QED
      BY <2>1, <3>1, <3>2, <3>3 DEF Referred
  <2>2. \A p \in Objects : mem[p] # "deleted" => mem'[p] # "deleted"
    BY <1>1 DEF objVars
  <2>3. QED
    BY <1>1, <2>1, <2>2, DeletedStaysApart DEF ClientInv
<1>12. used' \subseteq stale'
  BY <1>1, <1>2, <1>4, TouchReferred DEF ClientInv
<1>13. QED
  BY <1>7, <1>8, <1>9, <1>10, <1>11, <1>12 DEF ClientInv, Types

(* The invariant holds always.                                               *)
THEOREM ClientInvHolds == Spec => []ClientInv
<1>1. Init => ClientInv
  BY ClientInit
<1>2. ClientInv /\ [Next]_vars => ClientInv'
  <2> SUFFICES ASSUME ClientInv, [Next]_vars PROVE ClientInv'
    OBVIOUS
  <2>1. CASE UNCHANGED vars
    BY <2>1 DEF vars, ClientInv, Types, LoopTypes, SendTypes, HistTypes, PoolBound, Pooled,
                Entries, Links, DeletedApart, Referred
  <2>2. CASE Start \/ Stop \/ Loop
    BY <2>2, RunStep, IdleStep DEF Loop
  <2>3. CASE hbt_timer_cb
    BY <2>3, TimerStep
  <2>4. ASSUME NEW o \in Objects, (\E k \in Keys : connect_cb(o, k)) \/ connect_cb_error(o)
        PROVE  ClientInv'
    BY <2>4, ConnectStep
  <2>5. ASSUME NEW o \in Objects,
               silence(o) \/ read_cb_part(o) \/ (\E t \in Tasks : read_cb(o, t))
        PROVE  ClientInv'
    BY <2>5, ReadStep
  <2>6. ASSUME NEW o \in Objects, read_cb_error(o) \/ Owed(o) PROVE ClientInv'
    BY <2>6, CallbackStep
  <2>7. ASSUME NEW t \in Tasks, Work(t) PROVE ClientInv'
    BY <2>7, WorkStep
  <2>8. QED
    BY <2>1, <2>2, <2>3, <2>4, <2>5, <2>6, <2>7 DEF Next
<1>3. QED
  BY <1>1, <1>2, PTL DEF Spec

(* However reads, writes, the timer, a stop and the work threads interleave: *)
(* closeClient, called from a read or write callback, from the timer or from *)
(* the stop, never closes a handle twice, the pool never runs more commands  *)
(* than it has threads, the map holds only objects that exist, under their   *)
(* addresses, and an object that the timer deleted is used again only if     *)
(* something referred to it when it was deleted.                             *)
THEOREM ClientsKeptOwned == Spec => []ClientsOwned
<1>1. ClientInv => ClientsOwned
  BY TypeOKParts DEF ClientInv, ClientsOwned, Links
<1>2. QED
  BY <1>1, ClientInvHolds, PTL

-----------------------------------------------------------------------------
(* The send buffer                                                           *)

\* The commands that have filled the send buffer of o and not yet put o in the
\* write list.
Filling(o) == {t \in Tasks : client[t] = o /\ tpc[t] = "add"}

(* They are commands in the pool, and can be counted.                        *)
LEMMA FillingFinite ==
  ASSUME ClientInv, NEW o
  PROVE  IsFiniteSet(Filling(o)) /\ Cardinality(Filling(o)) \in Nat
<1>1. Filling(o) \in SUBSET Pooled
  BY DEF Filling, Pooled, InPool
<1>2. QED
  BY <1>1, FS_Subset, FS_CardinalityType DEF ClientInv, PoolBound

\* The holders of a send buffer, by their three counts.
Counted(o) ==
  /\ Holders(o) = Cardinality(Filling(o)) + Cardinality(Listed(o)) + writes[o]
  /\ Cardinality(Filling(o)) \in Nat /\ Cardinality(Listed(o)) \in Nat
  /\ writes[o] \in Nat

AllCounted == \A o \in Objects : Counted(o)

(* They are numbers.                                                         *)
LEMMA HoldersCounted == ClientInv => AllCounted
<1> SUFFICES ASSUME ClientInv, NEW o \in Objects PROVE Counted(o)
  BY DEF AllCounted
<1>1. Cardinality(Filling(o)) \in Nat /\ Cardinality(Listed(o)) \in Nat
  BY FillingFinite, ListedFinite DEF ClientInv, Types
<1>2. writes[o] \in Nat
  BY DEF ClientInv, Types, SendTypes
<1>3. QED
  BY <1>1, <1>2 DEF Counted, Holders, Filling

\* One object's part of SendBufferOwned.
BufferOwned(o) == Holders(o) <= 1 /\ (Holders(o) = 1 => second[o])

(* A buffer with no more holders than before keeps its flag's meaning.       *)
LEMMA FewerHolders ==
  ASSUME ClientInv, ClientInv', NEW o \in Objects, BufferOwned(o),
         Holders(o)' <= Holders(o), second'[o] = second[o]
  PROVE  BufferOwned(o)'
<1>1. AllCounted
  BY HoldersCounted
<1>2. AllCounted'
  BY HoldersCounted, PTL
<1>3. Holders(o) \in Nat /\ Holders(o)' \in Nat
  BY <1>1, <1>2 DEF AllCounted, Counted
<1>4. QED
  BY <1>3 DEF BufferOwned

(* Most steps neither fill the buffer nor free it.                           *)
LEMMA BuffersAlone ==
  ASSUME SendBufferOwned, UNCHANGED <<listWevent, writes, second, overlap>>,
         \A t \in Tasks : /\ tpc'[t] = "add" <=> tpc[t] = "add"
                          /\ tpc[t] = "add" => client'[t] = client[t]
  PROVE  SendBufferOwned'
<1>1. \A o \in Objects : {t \in Tasks : client'[t] = o /\ tpc'[t] = "add"}
                           = {t \in Tasks : client[t] = o /\ tpc[t] = "add"}
  OBVIOUS
<1>2. \A o \in Objects : Holders(o)' = Holders(o)
  BY <1>1 DEF Holders, Listed
<1>3. QED
  BY <1>2 DEF SendBufferOwned

(* A command fills the buffer: unless another one has it already, which      *)
(* overlap records, it is the only holder.                                   *)
LEMMA SetStep ==
  ASSUME ClientInv, SendBufferOwned, NEW t \in Tasks, postMsg_set(t)
  PROVE  SendBufferOwned'
<1> SUFFICES ASSUME NEW o \in Objects, o \notin overlap' PROVE BufferOwned(o)'
  BY DEF SendBufferOwned, BufferOwned
<1>1. /\ tpc[t] = "set" /\ tpc' = [tpc EXCEPT ![t] = "add"] /\ UNCHANGED client
      /\ second' = [second EXCEPT ![client[t]] = TRUE]
      /\ overlap' = IF second[client[t]] THEN overlap \cup {client[t]} ELSE overlap
      /\ UNCHANGED <<listWevent, writes>>
  BY DEF postMsg_set, Go
<1>2. Listed(o)' = Listed(o) /\ writes' = writes
  BY <1>1 DEF Listed
<1>3. BufferOwned(o)
  BY <1>1 DEF SendBufferOwned, BufferOwned
<1>4. CASE client[t] # o
  <2>1. Filling(o)' = Filling(o)
    BY <1>1, <1>4 DEF ClientInv, Types, SendTypes, Filling
  <2>2. second'[o] = second[o]
    BY <1>1, <1>4 DEF ClientInv, Types, SendTypes
  <2>3. Holders(o)' = Holders(o)
    BY <1>2, <2>1 DEF Holders, Filling
  <2>4. QED
    BY <1>3, <2>2, <2>3 DEF BufferOwned
<1>5. CASE client[t] = o
  <2>1. ~second[o] /\ second'[o]
    BY <1>1, <1>5 DEF ClientInv, Types, SendTypes
  <2>2. Filling(o)' = Filling(o) \cup {t} /\ t \notin Filling(o)
    BY <1>1, <1>5 DEF ClientInv, Types, SendTypes, Filling
  <2>3. Counted(o)
    BY HoldersCounted DEF AllCounted
  <2>4. Holders(o) <= 1 /\ Holders(o) # 1
    BY <1>3, <2>1 DEF BufferOwned
  <2>5. /\ Cardinality(Filling(o)) = 0 /\ Cardinality(Listed(o)) = 0 /\ writes[o] = 0
    BY <2>3, <2>4 DEF Counted
  <2>10. IsFiniteSet(Filling(o))
    BY FillingFinite
  <2>11. Cardinality(Filling(o) \cup {t}) = Cardinality(Filling(o)) + 1
    BY <2>2, <2>10, FS_AddElement, Zenon
  <2>6. Cardinality(Filling(o) \cup {t}) = 1
    BY <2>5, <2>11
  <2>7. Holders(o)' = Cardinality(Filling(o)') + Cardinality(Listed(o)') + writes'[o]
    BY DEF Holders, Filling
  <2>8. Holders(o)' = 1
    BY <1>2, <2>2, <2>5, <2>6, <2>7
  <2>9. QED
    BY <2>1, <2>8 DEF BufferOwned
<1>6. QED
  BY <1>4, <1>5

(* WeventCtl hands the buffer from the command to the write list.            *)
LEMMA ListStep ==
  ASSUME ClientInv, SendBufferOwned, NEW t \in Tasks, WeventCtl(t)
  PROVE  SendBufferOwned'
<1> DEFINE n == Len(listWevent)
<1> SUFFICES ASSUME NEW o \in Objects, o \notin overlap' PROVE BufferOwned(o)'
  BY DEF SendBufferOwned, BufferOwned
<1>1. /\ tpc[t] = "add" /\ tpc' = [tpc EXCEPT ![t] = "after"] /\ UNCHANGED client
      /\ listWevent' = Append(listWevent, client[t])
      /\ UNCHANGED <<second, writes, overlap>>
  BY DEF WeventCtl, Go, sendVars, histVars
<1>2. BufferOwned(o)
  BY <1>1 DEF SendBufferOwned, BufferOwned
<1>3. /\ n \in Nat /\ Len(listWevent') = n + 1
      /\ \A i \in 1 .. n : listWevent'[i] = listWevent[i]
      /\ listWevent'[n + 1] = client[t]
  <2>1. listWevent \in Seq(Objects) /\ client[t] \in Objects
    BY DEF ClientInv, Types, SendTypes
  <2>2. QED
    BY <1>1, <2>1, AppendProperties, LenProperties
<1>4. Holders(o)' = Cardinality(Filling(o)') + Cardinality(Listed(o)') + writes'[o]
  BY DEF Holders, Filling
<1>5. Counted(o)
  BY HoldersCounted DEF AllCounted
<1>6. Listed(o) = {i \in 1 .. n : listWevent[i] = o}
  BY DEF Listed
<1>7. Listed(o)' = {i \in 1 .. n + 1 : listWevent'[i] = o}
  BY <1>3 DEF Listed
<1> HIDE DEF n
<1>8. CASE client[t] # o
  <2>1. Filling(o)' = Filling(o)
    BY <1>1, <1>8 DEF ClientInv, Types, SendTypes, Filling
  <2>2. Listed(o)' = Listed(o)
    BY <1>3, <1>6, <1>7, <1>8
  <2>3. Holders(o)' = Holders(o)
    BY <1>1, <1>4, <1>5, <2>1, <2>2 DEF Counted
  <2>4. QED
    BY <1>1, <1>2, <2>3 DEF BufferOwned
<1>9. CASE client[t] = o
  <2>1. Filling(o)' = Filling(o) \ {t} /\ t \in Filling(o)
    BY <1>1, <1>9 DEF ClientInv, Types, SendTypes, Filling
  <2>2. Listed(o)' = Listed(o) \cup {n + 1} /\ n + 1 \notin Listed(o)
    BY <1>3, <1>6, <1>7, <1>9
  <2>3. Cardinality(Filling(o) \ {t}) = Cardinality(Filling(o)) - 1
    BY <2>1, FillingFinite, FS_RemoveElement
  <2>4. Cardinality(Listed(o) \cup {n + 1}) = Cardinality(Listed(o)) + 1
    BY <2>2, ListedFinite, FS_AddElement DEF ClientInv, Types
  <2>5. Holders(o)' = Holders(o)
    BY <1>1, <1>4, <1>5, <2>1, <2>2, <2>3, <2>4 DEF Counted
  <2>6. QED
    BY <1>1, <1>2, <2>5 DEF BufferOwned
<1>10. QED
  BY <1>8, <1>9

(* writeHandle hands it on to libuv, or drops it with the flag still set.    *)
LEMMA HandleStep ==
  ASSUME ClientInv, ClientInv', SendBufferOwned, idle_cb \/ idle_cb_stop
  PROVE  SendBufferOwned'
<1> SUFFICES ASSUME NEW o \in Objects, o \notin overlap' PROVE BufferOwned(o)'
  BY DEF SendBufferOwned, BufferOwned
<1>1. /\ writes' = [p \in Objects |-> IF bConnected[p] THEN writes[p] + Cardinality(Listed(p))
                                      ELSE writes[p]]
      /\ listWevent' = <<>>
      /\ UNCHANGED <<second, tpc, client, overlap>>
  BY DEF idle_cb, idle_cb_stop, writeHandle, taskVars
<1>2. BufferOwned(o)
  BY <1>1 DEF SendBufferOwned, BufferOwned
<1>3. Filling(o)' = Filling(o)
  BY <1>1 DEF Filling
<1>4. Cardinality(Listed(o)') = 0
  <2>1. Listed(o)' = {}
    <3>1. Len(listWevent') = 0
      BY <1>1
    <3>2. QED
      BY <3>1 DEF Listed
  <2>2. QED
    BY <2>1, FS_EmptySet
<1>5. Counted(o)
  BY HoldersCounted DEF AllCounted
<1>6. Holders(o)' = Cardinality(Filling(o)') + Cardinality(Listed(o)') + writes'[o]
  BY DEF Holders, Filling
<1>7. writes'[o] \in {writes[o], writes[o] + Cardinality(Listed(o))}
  BY <1>1
<1>8. Holders(o)' <= Holders(o)
  BY <1>3, <1>4, <1>5, <1>6, <1>7 DEF Counted
<1>9. QED
  BY <1>1, <1>2, <1>8, FewerHolders

(* The callback of a write is that of the one holder: the buffer is free.    *)
LEMMA FreeStep ==
  ASSUME ClientInv, SendBufferOwned, NEW p \in Objects, WriteCalledBack(p)
  PROVE  SendBufferOwned'
<1> SUFFICES ASSUME NEW o \in Objects, o \notin overlap' PROVE BufferOwned(o)'
  BY DEF SendBufferOwned, BufferOwned
<1>1. /\ writes[p] > 0 /\ writes' = [writes EXCEPT ![p] = writes[p] - 1]
      /\ second' = [second EXCEPT ![p] = FALSE]
      /\ UNCHANGED <<listWevent, tpc, client, overlap>>
  BY DEF WriteCalledBack, taskVars, histVars
<1>2. BufferOwned(o)
  BY <1>1 DEF SendBufferOwned, BufferOwned
<1>3. Filling(o)' = Filling(o) /\ Listed(o)' = Listed(o)
  BY <1>1 DEF Filling, Listed
<1>4. Holders(o)' = Cardinality(Filling(o)') + Cardinality(Listed(o)') + writes'[o]
  BY DEF Holders, Filling
<1>5. Counted(o)
  BY HoldersCounted DEF AllCounted
<1>6. CASE o # p
  <2>1. writes'[o] = writes[o] /\ second'[o] = second[o]
    BY <1>1, <1>6 DEF ClientInv, Types, SendTypes
  <2>2. Holders(o)' = Holders(o)
    BY <1>3, <1>4, <1>5, <2>1 DEF Counted
  <2>3. QED
    BY <1>2, <2>1, <2>2 DEF BufferOwned
<1>7. CASE o = p
  <2>1. writes[o] > 0 /\ writes'[o] = writes[o] - 1
    BY <1>1, <1>7 DEF ClientInv, Types, SendTypes
  <2>2. Holders(o) <= 1
    BY <1>2 DEF BufferOwned
  <2>3. Holders(o)' = 0
    BY <1>3, <1>4, <1>5, <2>1, <2>2 DEF Counted
  <2>4. QED
    BY <2>3 DEF BufferOwned
<1>8. QED
  BY <1>6, <1>7

(* However the commands of a client, the loop and libuv interleave, the one  *)
(* send buffer of a client has at most one user - a command that fills it,   *)
(* an entry of the write list or a write under way - and reqBuffer.second is *)
(* set while it has one, unless postMsg set the flag when it was set already.*)
THEOREM SendBufferKeptOwned == Spec => []SendBufferOwned
<1>1. Init => SendBufferOwned
  <2> SUFFICES ASSUME Init, NEW o \in Objects PROVE Holders(o) = 0
    BY DEF SendBufferOwned
  <2>1. Listed(o) = {} /\ Filling(o) = {} /\ writes[o] = 0
    BY DEF Init, Listed, Filling
  <2>2. Cardinality(Listed(o)) = 0 /\ Cardinality(Filling(o)) = 0
    BY <2>1, FS_EmptySet
  <2>3. Holders(o) = Cardinality(Filling(o)) + Cardinality(Listed(o)) + writes[o]
    BY DEF Holders, Filling
  <2>4. QED
    BY <2>1, <2>2, <2>3
<1>2. ClientInv /\ ClientInv' /\ SendBufferOwned /\ [Next]_vars => SendBufferOwned'
  <2> SUFFICES ASSUME ClientInv, ClientInv', SendBufferOwned, [Next]_vars
               PROVE  SendBufferOwned'
    OBVIOUS
  <2>1. CASE UNCHANGED vars \/ Start \/ Stop \/ loopFunction \/ uv_run_returns \/ hbt_timer_cb
    <3>1. UNCHANGED <<listWevent, writes, second, overlap, tpc, client>>
      BY <2>1 DEF vars, Start, Stop, loopFunction, uv_run_returns, hbt_timer_cb, sendVars,
                  taskVars, histVars
    <3>2. QED
      BY <3>1, BuffersAlone
  <2>2. CASE idle_cb \/ idle_cb_stop
    BY <2>2, HandleStep
  <2>3. ASSUME NEW o \in Objects,
               \/ \E k \in Keys : connect_cb(o, k)
               \/ connect_cb_error(o) \/ read_cb_part(o) \/ read_cb_error(o)
               \/ close_done(o) \/ silence(o)
        PROVE  SendBufferOwned'
    <3>1. UNCHANGED <<listWevent, writes, second, overlap, tpc, client>>
      BY <2>3 DEF connect_cb, connect_cb_error, read_cb_part, read_cb_error, close_done, silence,
                  sendVars, taskVars, histVars
    <3>2. QED
      BY <3>1, BuffersAlone
  <2>4. ASSUME NEW o \in Objects, NEW t \in Tasks, read_cb(o, t)
        PROVE  SendBufferOwned'
    <3>1. /\ UNCHANGED <<listWevent, writes, second, overlap>> /\ tpc[t] = "free"
          /\ tpc' = [tpc EXCEPT ![t] = "queued"] /\ client' = [client EXCEPT ![t] = o]
      BY <2>4 DEF read_cb, sendVars, histVars
    <3>2. \A u \in Tasks : /\ tpc'[u] = "add" <=> tpc[u] = "add"
                           /\ tpc[u] = "add" => client'[u] = client[u]
      BY <3>1 DEF ClientInv, Types, SendTypes
    <3>3. QED
      BY <3>1, <3>2, BuffersAlone
  <2>5. ASSUME NEW o \in Objects,
               req_write_cb(o) \/ req_write_cb_error(o) \/ req_write_cb_cancelled(o)
        PROVE  SendBufferOwned'
    BY <2>5, FreeStep DEF req_write_cb, req_write_cb_error, req_write_cb_cancelled
  <2>6. ASSUME NEW t \in Tasks,
               work_cb(t) \/ postMsg_wait(t) \/ postMsg_spin(t) \/ postMsg_test(t)
        PROVE  SendBufferOwned'
    <3>1. UNCHANGED <<listWevent, writes, second, overlap, client>>
      BY <2>6 DEF work_cb, postMsg_wait, postMsg_spin, postMsg_test, sendVars, taskVars, histVars
    <3>2. \A u \in Tasks : tpc'[u] = "add" <=> tpc[u] = "add"
      BY <2>6 DEF ClientInv, Types, SendTypes, work_cb, postMsg_wait, postMsg_spin, postMsg_test,
                  Go, taskVars
    <3>3. QED
      BY <3>1, <3>2, BuffersAlone
  <2>7. ASSUME NEW t \in Tasks, postMsg_set(t) PROVE SendBufferOwned'
    BY <2>7, SetStep
  <2>8. ASSUME NEW t \in Tasks, WeventCtl(t) PROVE SendBufferOwned'
    BY <2>8, ListStep
  <2>9. QED
    BY <2>1, <2>2, <2>3, <2>4, <2>5, <2>6, <2>7, <2>8 DEF Next, Loop, Owed, Work
<1>3. QED
  BY <1>1, <1>2, ClientInvHolds, PTL DEF Spec
=============================================================================
