--------------------------- MODULE NetSamplesProofs ---------------------------
(***************************************************************************)
(* Proofs about the sample programs that talk over sockets, each on its     *)
(* own: the boost.asio server, anet, the request-reply broker and the echo  *)
(* server.  What MCPrograms checks of small instances holds for every value *)
(* of their constants.                                                      *)
(***************************************************************************)
EXTENDS AsioServer, Anet, ReqRepBroker, ZmqEcho, TLAPS, SequenceTheorems, FiniteSetTheorems

-----------------------------------------------------------------------------
(* Queues                                                                     *)

\* A queue with an element more, and without its first.
LEMMA Appended ==
  ASSUME NEW S, NEW q \in Seq(S), NEW e \in S
  PROVE  /\ Append(q, e) \in Seq(S) /\ Append(q, e) # <<>> /\ Len(q) \in Nat
         /\ Len(Append(q, e)) = Len(q) + 1
         /\ \A k \in 1 .. Len(q) : Append(q, e)[k] = q[k] /\ k \in 1 .. Len(q) + 1
         /\ Append(q, e)[Len(q) + 1] = e /\ Len(q) + 1 \in 1 .. Len(q) + 1
         /\ \A k \in 1 .. Len(q) + 1 : k \in 1 .. Len(q) \/ k = Len(q) + 1
         /\ \A k, l \in 1 .. Len(q) + 1 : k < l => k \in 1 .. Len(q)
<1>1. /\ Append(q, e) \in Seq(S) /\ Len(q) \in Nat /\ Len(Append(q, e)) = Len(q) + 1
      /\ \A k \in 1 .. Len(q) : Append(q, e)[k] = q[k]
      /\ Append(q, e)[Len(q) + 1] = e
  OBVIOUS
<1>2. Append(q, e) # <<>> BY <1>1
<1> QED BY <1>1, <1>2

LEMMA Tailed ==
  ASSUME NEW S, NEW q \in Seq(S), q # <<>>
  PROVE  /\ Tail(q) \in Seq(S) /\ Len(q) \in Nat /\ Len(q) >= 1
         /\ Len(Tail(q)) = Len(q) - 1 /\ Head(q) = q[1] /\ q[1] \in S /\ 1 \in 1 .. Len(q)
         /\ \A k \in 1 .. Len(q) - 1 : /\ Tail(q)[k] = q[k + 1] /\ k + 1 \in 1 .. Len(q)
                                       /\ 1 < k + 1
         /\ \A k \in 1 .. Len(q) :
              k = 1 \/ (k - 1 \in 1 .. Len(q) - 1 /\ (k - 1) + 1 = k /\ Tail(q)[k - 1] = q[k] /\ 1 < k)
<1>1. /\ Len(q) \in Nat /\ Len(q) >= 1 /\ Head(q) = q[1] /\ Len(Tail(q)) = Len(q) - 1
      /\ Tail(q) \in Seq(S) /\ \A i \in 1 .. Len(q) - 1 : Tail(q)[i] = q[i + 1]
      /\ q[1] \in S
  OBVIOUS
<1>2. /\ 1 \in 1 .. Len(q) /\ \A k \in 1 .. Len(q) - 1 : k + 1 \in 1 .. Len(q) /\ 1 < k + 1
      /\ \A k \in 1 .. Len(q) : k = 1 \/ (k - 1 \in 1 .. Len(q) - 1 /\ (k - 1) + 1 = k /\ 1 < k)
  BY <1>1
<1> QED BY <1>1, <1>2


-----------------------------------------------------------------------------
(* The boost.asio server (AsioServer)                                       *)
AsioSpec == AsioInit /\ [][AsioNext]_asioVars

\* The types, by what the variables are for: ids, objects, traffic.
IdTypes ==
  /\ up \in BOOLEAN /\ nMaxCliId \in 0 .. MaxClients /\ made \in Clients
  /\ avaIdSet \subseteq 1 .. nMaxCliId
  /\ clientMap \in [Clients -> Clients \cup {Absent, Null}]
  /\ nId \in [Clients -> 1 .. MaxClients]

ObjectTypes ==
  /\ sock \in [Clients -> {"none", "accepting", "open", "closed"}]
  /\ nHbtCount \in [Clients -> 0 .. HbtLimit + 1]
  /\ recycles \in [Clients -> 0 .. 2]

TrafficTypes ==
  /\ reads \in [Clients -> Nat] /\ writes \in [Clients -> Nat]
  /\ rx \in [Clients -> {NoText, "Hello", "Beat"}] /\ tx \in [Clients -> {NoText, "Beat"}]
  /\ peer \in [Clients -> {"none", "hello", "read", "hung", "gone"}]

AsioTypes == IdTypes /\ ObjectTypes /\ TrafficTypes

\* After an exception there is nothing.
Down ==
  ~up => nMaxCliId = 0 /\ \A o \in Clients : sock[o] = "closed" /\ clientMap[o] = Absent

\* The ids are the ones given out; only the last object is being accepted; an
\* object is live until its id is made available.
Objects ==
  up => \A o \in Clients :
          /\ nId[o] \in 1 .. nMaxCliId
          /\ sock[o] = "accepting" => o = made /\ nHbtCount[o] = 0
          /\ o > made => /\ sock[o] = "none" /\ nHbtCount[o] = 0 /\ recycles[o] = 0
                         /\ reads[o] = 0 /\ writes[o] = 0
          /\ o <= made => sock[o] # "none" /\ (Live(o) <=> recycles[o] = 0)

\* An entry of the map is an object with that id that was accepted and has
\* heartbeats left; one that was reset is left by an object that is closed.
MapEntries ==
  \A i \in Clients :
    /\ clientMap[i] \in Clients =>
         /\ clientMap[i] <= made /\ nId[clientMap[i]] = i
         /\ sock[clientMap[i]] \in {"open", "closed"}
         /\ nHbtCount[clientMap[i]] <= HbtLimit
    /\ clientMap[i] = Null => \E p \in 1 .. made : nId[p] = i /\ sock[p] = "closed"

\* The id of a live object is available, or given to a later one, only if an
\* earlier object had it.
SharedWithEarlier ==
  \A o \in 1 .. made :
    Live(o) /\ (nId[o] \in avaIdSet \/ \E p \in o + 1 .. made : nId[p] = nId[o])
      => \E p \in 1 .. o - 1 : nId[p] = nId[o]

AsioInv ==
  /\ AsioTypes /\ Down /\ Objects /\ MapEntries
  /\ SharedWithEarlier /\ IdsAccounted /\ IdExclusive /\ Watched

-----------------------------------------------------------------------------
LEMMA AsioInitInv == AsioInit => AsioInv
<1> SUFFICES ASSUME AsioInit PROVE AsioInv OBVIOUS
<1> USE AsioAssumption DEF AsioInit, Clients, Absent, Null
<1>1. AsioTypes BY DEF AsioTypes, IdTypes, ObjectTypes, TrafficTypes
<1>2. Down /\ Objects /\ MapEntries BY DEF Down, Objects, MapEntries, Live
<1>3. SharedWithEarlier /\ IdsAccounted /\ IdExclusive /\ Watched
  BY DEF SharedWithEarlier, IdsAccounted, IdExclusive, Watched, Live, Stored
<1> QED BY <1>1, <1>2, <1>3 DEF AsioInv

\* An exception leaves nothing to be wrong.
LEMMA TerminateInv == AsioInv /\ terminate => AsioInv'
<1> SUFFICES ASSUME AsioInv, terminate PROVE AsioInv' OBVIOUS
<1> USE AsioAssumption DEF terminate, Clients, Absent, Null
<1>1. AsioTypes'
  <2>0. made \in Clients BY DEF AsioInv, AsioTypes, IdTypes
  <2>a. (nMaxCliId \in 0 .. MaxClients /\ made \in Clients /\ avaIdSet \subseteq 1 .. nMaxCliId)'
    BY <2>0
  <2>b. (clientMap \in [Clients -> Clients \cup {Absent, Null}])' OBVIOUS
  <2>c. (nId \in [Clients -> 1 .. MaxClients])' OBVIOUS
  <2>1. IdTypes' BY Zenon, <2>a, <2>b, <2>c DEF IdTypes
  <2>2. ObjectTypes' BY DEF ObjectTypes
  <2>3. TrafficTypes' BY DEF TrafficTypes
  <2> QED BY <2>1, <2>2, <2>3 DEF AsioTypes
<1>2. Down' /\ Objects' /\ MapEntries' BY DEF Down, Objects, MapEntries
<1>3. \A o \in 1 .. made' : ~Live(o)' /\ sock'[o] # "open"
  BY <1>1 DEF Live, AsioTypes, IdTypes
<1>4. SharedWithEarlier' /\ IdsAccounted' /\ IdExclusive' /\ Watched'
  BY <1>3 DEF SharedWithEarlier, IdsAccounted, IdExclusive, Watched
<1> QED BY <1>1, <1>2, <1>4 DEF AsioInv

-----------------------------------------------------------------------------
\* Steps that move texts and pending operations only: no object is opened or
\* closed, no id is given out or made available, and no heartbeat is counted.
Quiet ==
  /\ UNCHANGED <<up, nMaxCliId, avaIdSet, clientMap, made, nId, sock, recycles>>
  /\ \A o \in Clients : nHbtCount'[o] \in {0, nHbtCount[o]}
  /\ \A o \in Clients : o > made => reads'[o] = reads[o] /\ writes'[o] = writes[o]

LEMMA QuietInv == AsioInv /\ AsioTypes' /\ Quiet => AsioInv'
<1> SUFFICES ASSUME AsioInv, AsioTypes', Quiet PROVE AsioInv' OBVIOUS
<1> USE AsioAssumption DEF Quiet, Clients
<1>1. Down' BY DEF AsioInv, Down
<1>2. Objects'
  <2> SUFFICES ASSUME up, NEW o \in Clients
               PROVE  /\ nId[o] \in 1 .. nMaxCliId
                      /\ sock[o] = "accepting" => o = made /\ nHbtCount'[o] = 0
                      /\ o > made => /\ sock[o] = "none" /\ nHbtCount'[o] = 0
                                     /\ recycles[o] = 0
                                     /\ reads'[o] = 0 /\ writes'[o] = 0
                      /\ o <= made => sock[o] # "none" /\ (Live(o) <=> recycles[o] = 0)
    BY DEF Objects, Live
  <2> QED BY DEF AsioInv, Objects
<1>3. MapEntries'
  <2> SUFFICES ASSUME NEW i \in Clients
               PROVE  /\ clientMap[i] \in Clients =>
                           /\ clientMap[i] <= made /\ nId[clientMap[i]] = i
                           /\ sock[clientMap[i]] \in {"open", "closed"}
                           /\ nHbtCount'[clientMap[i]] <= HbtLimit
                      /\ clientMap[i] = Null =>
                           \E p \in 1 .. made : nId[p] = i /\ sock[p] = "closed"
    BY DEF MapEntries
  <2> QED BY DEF AsioInv, MapEntries
<1>4. SharedWithEarlier' /\ IdsAccounted' /\ IdExclusive' /\ Watched'
  BY DEF AsioInv, SharedWithEarlier, IdsAccounted, IdExclusive, Watched, Live, Stored
<1> QED BY <1>1, <1>2, <1>3, <1>4 DEF AsioInv

LEMMA Unpack ==
  AsioInv => /\ AsioTypes /\ IdTypes /\ ObjectTypes /\ TrafficTypes
             /\ made \in Clients /\ made \in Nat /\ Clients \subseteq Nat
BY AsioAssumption DEF AsioInv, AsioTypes, IdTypes, Clients

\* Only an object that was made has an operation pending.
LEMMA PendingOfMade ==
  ASSUME AsioInv, up, NEW o \in Clients, reads[o] > 0 \/ writes[o] > 0
  PROVE  o <= made
<1>1. o > made => reads[o] = 0 /\ writes[o] = 0 BY DEF AsioInv, Objects
<1>2. o \in Nat /\ made \in Nat BY Unpack
<1> QED BY <1>1, <1>2

LEMMA QuietSteps ==
  ASSUME AsioInv, NEW o \in Clients,
         \/ readHandler(o) \/ writeHandler(o) \/ writeHandler_ignored(o)
         \/ client_connectHandler(o) \/ client_readHandler(o) \/ client_error(o)
         \/ \E how \in {"hung", "gone"} : client_fails(o, how)
  PROVE  AsioInv'
<1> USE DEF poolVars, netVars
<1>0. /\ AsioTypes /\ IdTypes /\ ObjectTypes /\ TrafficTypes
      /\ made \in Nat /\ Clients \subseteq Nat
      /\ up /\ (reads[o] > 0 \/ writes[o] > 0) => o <= made
  BY Unpack, PendingOfMade
<1>1. CASE readHandler(o)
  <2>1. ObjectTypes' /\ TrafficTypes'
    BY <1>0, <1>1, AsioAssumption DEF ObjectTypes, TrafficTypes, readHandler
  <2>2. IdTypes' BY <1>0, <1>1 DEF IdTypes, readHandler
  <2>3. Quiet BY <1>0, <1>1 DEF ObjectTypes, TrafficTypes, readHandler, Quiet
  <2> QED BY <2>1, <2>2, <2>3, QuietInv DEF AsioTypes
<1>2. CASE writeHandler(o)
  <2>1. ObjectTypes' /\ TrafficTypes' BY <1>0, <1>2 DEF ObjectTypes, TrafficTypes, writeHandler
  <2>2. IdTypes' BY <1>0, <1>2 DEF IdTypes, writeHandler
  <2>3. Quiet BY <1>0, <1>2 DEF TrafficTypes, writeHandler, Quiet
  <2> QED BY <2>1, <2>2, <2>3, QuietInv DEF AsioTypes
<1>i. CASE writeHandler_ignored(o)
  <2>1. ObjectTypes' /\ TrafficTypes'
    BY <1>0, <1>i DEF ObjectTypes, TrafficTypes, writeHandler_ignored
  <2>2. IdTypes' BY <1>0, <1>i DEF IdTypes, writeHandler_ignored
  <2>3. Quiet BY <1>0, <1>i DEF TrafficTypes, writeHandler_ignored, Quiet
  <2> QED BY <2>1, <2>2, <2>3, QuietInv DEF AsioTypes
<1>3. CASE client_connectHandler(o)
  <2>1. AsioTypes' BY <1>0, <1>3 DEF AsioTypes, IdTypes, ObjectTypes, TrafficTypes, client_connectHandler
  <2>2. Quiet BY <1>0, <1>3 DEF client_connectHandler, Quiet
  <2> QED BY <2>1, <2>2, QuietInv
<1>4. CASE client_readHandler(o)
  <2>1. AsioTypes' BY <1>0, <1>4 DEF AsioTypes, IdTypes, ObjectTypes, TrafficTypes, client_readHandler, Under
  <2>2. Quiet BY <1>0, <1>4 DEF client_readHandler, Quiet
  <2> QED BY <2>1, <2>2, QuietInv
<1>5. CASE client_error(o)
  <2>1. AsioTypes' BY <1>0, <1>5 DEF AsioTypes, IdTypes, ObjectTypes, TrafficTypes, client_error
  <2>2. Quiet BY <1>0, <1>5 DEF client_error, Quiet
  <2> QED BY <2>1, <2>2, QuietInv
<1>6. ASSUME NEW how \in {"hung", "gone"}, client_fails(o, how) PROVE AsioInv'
  <2>1. AsioTypes' BY <1>0, <1>6 DEF AsioTypes, IdTypes, ObjectTypes, TrafficTypes, client_fails
  <2>2. Quiet BY <1>0, <1>6 DEF client_fails, Quiet
  <2> QED BY <2>1, <2>2, QuietInv
<1> QED BY <1>1, <1>2, <1>i, <1>3, <1>4, <1>5, <1>6

-----------------------------------------------------------------------------
\* Steps that close the objects of a set and make their ids available.

Retire(S) ==
  /\ up /\ S \subseteq 1 .. made /\ Recycle(S)
  /\ sock' = [o \in Clients |-> IF o \in S THEN "closed" ELSE sock[o]]
  /\ UNCHANGED <<up, nMaxCliId, made, nId>>

LEMMA MadeClients == AsioInv => \A o \in 1 .. made : o \in Clients /\ o \in Nat /\ o <= made
BY Unpack, AsioAssumption DEF Clients

\* What retiring does to one object.  An object that was closed before is marked:
\* its id was made available twice.
LEMMA Retired ==
  ASSUME AsioInv, NEW S, Retire(S), NEW o \in Clients
  PROVE  /\ recycles'[o] \in 0 .. 2 /\ (recycles[o] = 2 => recycles'[o] = 2)
         /\ o \in S => o <= made /\ sock'[o] = "closed" /\ recycles'[o] > 0
         /\ o \in S /\ recycles[o] > 0 => recycles'[o] = 2
         /\ o \notin S => sock'[o] = sock[o] /\ recycles'[o] = recycles[o]
         /\ Live(o)' <=> Live(o) /\ o \notin S
<1>1. recycles[o] \in 0 .. 2 BY Unpack DEF ObjectTypes
<1>2. recycles'[o] = IF o \in S /\ recycles[o] < 2 THEN recycles[o] + 1 ELSE recycles[o]
  BY DEF Retire, Recycle
<1>3. sock'[o] = IF o \in S THEN "closed" ELSE sock[o] BY DEF Retire
<1>4. o \in S => o <= made BY MadeClients DEF Retire
<1> QED BY <1>1, <1>2, <1>3, <1>4 DEF Live

LEMMA RetireTypes ==
  ASSUME AsioInv, NEW S, Retire(S),
         (clientMap \in [Clients -> Clients \cup {Absent, Null}])',
         (nHbtCount \in [Clients -> 0 .. HbtLimit + 1])', TrafficTypes'
  PROVE  AsioTypes'
<1>0. IdTypes /\ ObjectTypes BY Unpack
<1>1. up' = up /\ nMaxCliId' = nMaxCliId /\ made' = made /\ nId' = nId BY DEF Retire
<1>2. \A o \in S : nId[o] \in 1 .. nMaxCliId BY MadeClients DEF Retire, AsioInv, Objects
<1>3. (avaIdSet \subseteq 1 .. nMaxCliId)'
  BY Zenon, <1>0, <1>1, <1>2 DEF IdTypes, Retire, Recycle
<1>4. IdTypes' BY <1>0, <1>1, <1>3 DEF IdTypes
<1>5. (recycles \in [Clients -> 0 .. 2])' BY Zenon, Retired DEF Retire, Recycle
<1>6. (sock \in [Clients -> {"none", "accepting", "open", "closed"}])'
  BY <1>0 DEF Retire, ObjectTypes
<1> QED BY <1>4, <1>5, <1>6 DEF AsioTypes, ObjectTypes

\* Objects, if what is counted for the objects not retired stays as it must.
LEMMA RetireObjects ==
  ASSUME AsioInv, NEW S, Retire(S),
         \A o \in Clients : sock[o] = "accepting" \/ o > made => nHbtCount'[o] = nHbtCount[o],
         \A o \in Clients : o > made => reads'[o] = reads[o] /\ writes'[o] = writes[o]
  PROVE  Objects' /\ Down'
<1>1. Down' BY DEF Down, Retire
<1> SUFFICES ASSUME NEW o \in Clients
             PROVE  /\ nId'[o] \in 1 .. nMaxCliId'
                    /\ sock'[o] = "accepting" => o = made' /\ nHbtCount'[o] = 0
                    /\ o > made' => /\ sock'[o] = "none" /\ nHbtCount'[o] = 0
                                    /\ recycles'[o] = 0
                                    /\ reads'[o] = 0 /\ writes'[o] = 0
                    /\ o <= made' => sock'[o] # "none" /\ (Live(o)' <=> recycles'[o] = 0)
  BY <1>1 DEF Objects
<1>2. nMaxCliId' = nMaxCliId /\ made' = made /\ nId' = nId /\ up BY DEF Retire
<1>3. /\ nId[o] \in 1 .. nMaxCliId
      /\ sock[o] = "accepting" => o = made /\ nHbtCount[o] = 0
      /\ o > made => /\ sock[o] = "none" /\ nHbtCount[o] = 0 /\ recycles[o] = 0
                     /\ reads[o] = 0 /\ writes[o] = 0
      /\ o <= made => sock[o] # "none" /\ (Live(o) <=> recycles[o] = 0)
  BY <1>2 DEF AsioInv, Objects
<1>4. o \in Nat /\ made \in Nat BY Unpack
<1>5. CASE o \in S BY <1>2, <1>3, <1>4, <1>5, Retired
<1>6. CASE o \notin S BY <1>2, <1>3, <1>4, <1>6, Retired
<1> QED BY <1>5, <1>6

\* No id is lost, and one that is now shared with a live object was shared
\* already or is marked.
LEMMA RetireIds ==
  ASSUME AsioInv, NEW S, Retire(S)
  PROVE  IdsAccounted' /\ IdExclusive' /\ SharedWithEarlier'
<1>0. /\ nMaxCliId' = nMaxCliId /\ made' = made /\ nId' = nId /\ up /\ S \subseteq 1 .. made
      /\ avaIdSet' = avaIdSet \cup {nId[o] : o \in S}
  BY DEF Retire, Recycle
<1>1. IdsAccounted'
  <2> SUFFICES ASSUME NEW i \in 1 .. nMaxCliId
               PROVE  i \in avaIdSet' \/ \E o \in 1 .. made : nId[o] = i /\ Live(o)'
    BY <1>0 DEF IdsAccounted
  <2>1. CASE i \in avaIdSet BY <1>0, <2>1
  <2>2. ASSUME NEW o \in 1 .. made, nId[o] = i, Live(o)
        PROVE  i \in avaIdSet' \/ \E p \in 1 .. made : nId[p] = i /\ Live(p)'
    <3>1. CASE o \in S BY <1>0, <2>2, <3>1
    <3>2. CASE o \notin S BY <2>2, <3>2, Retired, MadeClients
    <3> QED BY <3>1, <3>2
  <2> QED BY <2>1, <2>2 DEF AsioInv, IdsAccounted
<1>2. IdExclusive'
  <2> SUFFICES ASSUME NEW q \in 1 .. made, Live(q)',
                      \/ nId[q] \in avaIdSet'
                      \/ \E p \in 1 .. made : p # q /\ nId[p] = nId[q] /\ Live(p)'
               PROVE  \E p \in 1 .. made : nId[p] = nId[q] /\ recycles'[p] = 2
    BY <1>0 DEF IdExclusive
  <2>1. Live(q) /\ q \notin S BY Retired, MadeClients
  <2>2. CASE \/ nId[q] \in avaIdSet
             \/ \E p \in 1 .. made : p # q /\ nId[p] = nId[q] /\ Live(p)
    <3>1. PICK p \in 1 .. made : nId[p] = nId[q] /\ recycles[p] = 2
      BY <2>1, <2>2 DEF AsioInv, IdExclusive
    <3> QED BY <3>1, Retired, MadeClients
  <2>3. ASSUME NEW o \in S, nId[o] = nId[q]
        PROVE  \E p \in 1 .. made : nId[p] = nId[q] /\ recycles'[p] = 2
    <3>1. o \in 1 .. made /\ o # q /\ o \in Clients BY <1>0, <2>1, MadeClients
    <3>2. CASE Live(o) BY <2>2, <2>3, <3>1, <3>2
    <3>3. CASE ~Live(o)
      <4>1. recycles[o] \in 0 .. 2 BY <3>1, Unpack DEF ObjectTypes
      <4>2. recycles[o] > 0 BY <1>0, <3>1, <3>3, <4>1, MadeClients DEF AsioInv, Objects
      <4> QED BY <2>3, <3>1, <4>2, Retired
    <3> QED BY <3>2, <3>3
  <2>4. CASE \E p \in 1 .. made : p # q /\ nId[p] = nId[q] /\ Live(p)'
    BY <2>2, <2>4, Retired, MadeClients
  <2> QED BY <1>0, <2>2, <2>3, <2>4
<1>3. SharedWithEarlier'
  <2> SUFFICES ASSUME NEW q \in 1 .. made, Live(q)',
                      \/ nId[q] \in avaIdSet'
                      \/ \E p \in q + 1 .. made : nId[p] = nId[q]
               PROVE  \E p \in 1 .. q - 1 : nId[p] = nId[q]
    BY <1>0 DEF SharedWithEarlier
  <2>1. Live(q) /\ q \notin S BY Retired, MadeClients
  <2>2. CASE nId[q] \in avaIdSet \/ \E p \in q + 1 .. made : nId[p] = nId[q]
    BY <2>1, <2>2 DEF AsioInv, SharedWithEarlier
  <2>3. ASSUME NEW o \in S, nId[o] = nId[q]
        PROVE  \E p \in 1 .. q - 1 : nId[p] = nId[q]
    <3>1. o \in 1 .. made /\ o # q /\ made \in Nat BY <1>0, <2>1, Unpack
    <3>2. CASE o > q
      <4>1. o \in q + 1 .. made BY <3>1, <3>2
      <4> QED BY <2>2, <2>3, <4>1
    <3>3. CASE o < q
      <4>1. o \in 1 .. q - 1 BY <3>1, <3>3
      <4> QED BY <2>3, <4>1
    <3> QED BY <3>1, <3>2, <3>3
  <2> QED BY <1>0, <2>2, <2>3
<1> QED BY <1>1, <1>2, <1>3

\* The map after a step that closes one object: each entry is as it was, or is
\* erased.
LEMMA RetireMap ==
  ASSUME AsioInv, NEW S, Retire(S), nHbtCount' = nHbtCount,
         \A i \in Clients : clientMap'[i] \in {clientMap[i], Absent}
  PROVE  MapEntries'
<1>0. made' = made /\ nId' = nId BY DEF Retire
<1> SUFFICES ASSUME NEW i \in Clients
             PROVE  /\ clientMap'[i] \in Clients =>
                         /\ clientMap'[i] <= made /\ nId[clientMap'[i]] = i
                         /\ sock'[clientMap'[i]] \in {"open", "closed"}
                         /\ nHbtCount[clientMap'[i]] <= HbtLimit
                    /\ clientMap'[i] = Null =>
                         \E p \in 1 .. made : nId[p] = i /\ sock'[p] = "closed"
  BY <1>0 DEF MapEntries
<1>1. CASE clientMap'[i] = Absent BY <1>1, AsioAssumption DEF Absent, Null, Clients
<1>2. CASE clientMap'[i] = clientMap[i]
  <2>1. CASE clientMap[i] \in Clients
    <3>1. clientMap[i] # Null BY <2>1, AsioAssumption DEF Null, Clients
    <3> QED BY <1>2, <2>1, <3>1, Retired DEF AsioInv, MapEntries
  <2>2. CASE clientMap[i] = Null
    <3>1. clientMap[i] \notin Clients BY <2>2, AsioAssumption DEF Null, Clients
    <3>2. PICK p \in 1 .. made : nId[p] = i /\ sock[p] = "closed"
      BY <2>2 DEF AsioInv, MapEntries
    <3>3. sock'[p] = "closed" BY <3>2, Retired, MadeClients
    <3> QED BY <1>2, <3>1, <3>2, <3>3
  <2> QED BY <1>2, <2>1, <2>2
<1> QED BY <1>1, <1>2

LEMMA OneRetired ==
  ASSUME AsioInv, up, NEW o \in 1 .. made, Recycle({o}),
         sock' = [sock EXCEPT ![o] = "closed"], UNCHANGED <<up, nMaxCliId, made, nId>>
  PROVE  Retire({o})
<1>1. sock' = [p \in Clients |-> IF p \in {o} THEN "closed" ELSE sock[p]]
  BY Zenon, Unpack, MadeClients DEF ObjectTypes
<1> QED BY Zenon, <1>1 DEF Retire

\* A failed read or write: the map keeps the object.
LEMMA HandlerErrors ==
  ASSUME AsioInv, NEW o \in Clients, readHandler_error(o) \/ writeHandler_error(o)
  PROVE  AsioInv'
<1> USE DEF netVars
<1>0. up /\ o \in 1 .. made
  <2>1. up /\ (reads[o] > 0 \/ writes[o] > 0) BY DEF readHandler_error, writeHandler_error
  <2> QED BY <2>1, PendingOfMade, Unpack, AsioAssumption DEF Clients
<1>1. Retire({o}) /\ nHbtCount' = nHbtCount /\ clientMap' = clientMap
  BY Zenon, <1>0, OneRetired DEF readHandler_error, writeHandler_error
<1>2. TrafficTypes'
  <2>1. CASE readHandler_error(o) BY <2>1, Unpack DEF readHandler_error, TrafficTypes
  <2>2. CASE writeHandler_error(o) BY <2>2, Unpack DEF writeHandler_error, TrafficTypes
  <2> QED BY <2>1, <2>2
<1>3. AsioTypes' BY <1>1, <1>2, RetireTypes, Unpack DEF IdTypes, ObjectTypes
<1>4. \A p \in Clients : p > made => reads'[p] = reads[p] /\ writes'[p] = writes[p]
  <2>1. \A p \in Clients : p > made => p # o BY <1>0, Unpack
  <2> QED BY <2>1, Unpack DEF TrafficTypes, readHandler_error, writeHandler_error
<1>5. Objects' /\ Down' BY <1>1, <1>4, RetireObjects
<1>6. MapEntries' BY <1>1, RetireMap
<1>7. Watched'
  <2>1. \A p \in 1 .. made : sock'[p] = "open" => sock[p] = "open"
    BY <1>1, Retired, MadeClients
  <2> QED BY <1>1, <2>1 DEF AsioInv, Watched, Stored, Retire
<1> QED BY <1>1, <1>3, <1>5, <1>6, <1>7, RetireIds DEF AsioInv

\* A failed accept erases the entry of the id: if it was another object's, that
\* one's id is given to the object that failed as well, which is later.
LEMMA AcceptErrorInv ==
  ASSUME AsioInv, NEW o \in Clients, acceptHandler_error(o)
  PROVE  AsioInv'
<1> USE DEF netVars
<1>0. /\ up /\ o = made /\ o \in 1 .. made /\ sock[o] = "accepting"
      /\ clientMap' = [clientMap EXCEPT ![nId[o]] = Absent]
  BY Unpack, AsioAssumption DEF AsioInv, Objects, acceptHandler_error, Clients
<1>1. Retire({o}) /\ nHbtCount' = nHbtCount /\ reads' = reads /\ writes' = writes
  BY Zenon, <1>0, OneRetired DEF acceptHandler_error
<1>2. clientMap \in [Clients -> Clients \cup {Absent, Null}] /\ nId[o] \in Clients
  BY Unpack DEF IdTypes, Clients
<1>3. (clientMap \in [Clients -> Clients \cup {Absent, Null}])' BY <1>0, <1>2
<1>4. TrafficTypes' BY Unpack DEF acceptHandler_error, TrafficTypes
<1>5. AsioTypes' BY <1>1, <1>3, <1>4, RetireTypes, Unpack DEF ObjectTypes
<1>6. Objects' /\ Down' BY <1>1, RetireObjects
<1>7. MapEntries'
  <2>1. \A i \in Clients : clientMap'[i] \in {clientMap[i], Absent} BY <1>0, <1>2
  <2> QED BY <1>1, <2>1, RetireMap
<1>8. Watched'
  <2> SUFFICES ASSUME NEW q \in 1 .. made, sock'[q] = "open", clientMap'[nId[q]] # q
               PROVE  \E p \in 1 .. q - 1 : nId[p] = nId[q]
    BY <1>1 DEF Watched, Stored, Retire
  <2>1. q \in Clients /\ q # o /\ sock[q] = "open" BY <1>1, Retired, MadeClients
  <2>2. CASE clientMap[nId[q]] # q BY <2>1, <2>2 DEF AsioInv, Watched, Stored
  <2>3. CASE nId[q] = nId[o]
    <3>1. o \in q + 1 .. made BY <1>0, <2>1, Unpack
    <3> QED BY <2>1, <2>3, <3>1 DEF AsioInv, SharedWithEarlier, Live
  <2>4. nId[q] \in Clients BY <2>1, Unpack DEF IdTypes, Clients
  <2> QED BY <1>0, <1>2, <2>2, <2>3, <2>4
<1> QED BY <1>1, <1>5, <1>6, <1>7, <1>8, RetireIds DEF AsioInv

\* The timer: it closes the stored objects without heartbeats left, resets their
\* entries, and counts one more for each other stored object.
LEMMA TimerInv == AsioInv /\ deadlineTimerHandle => AsioInv'
<1> SUFFICES ASSUME AsioInv, deadlineTimerHandle PROVE AsioInv' OBVIOUS
<1> DEFINE out == {o \in Visited : Expired(o)}
           sent == {o \in Visited \ out : sock[o] = "open"}
<1>0. /\ up /\ Recycle(out) /\ UNCHANGED <<up, nMaxCliId, made, nId, reads, rx, peer>>
      /\ nHbtCount' = [o \in Clients |-> IF o \in Visited THEN nHbtCount[o] + 1
                                         ELSE nHbtCount[o]]
      /\ sock' = [o \in Clients |-> IF o \in out THEN "closed" ELSE sock[o]]
      /\ clientMap' = [i \in Clients |-> IF clientMap[i] \in out THEN Null
                                         ELSE clientMap[i]]
      /\ writes' = [o \in Clients |-> IF o \in sent THEN writes[o] + 1 ELSE writes[o]]
      /\ tx' = [o \in Clients |-> IF o \in sent /\ peer[o] # "gone" THEN "Beat" ELSE tx[o]]
  BY DEF deadlineTimerHandle
<1>1. out \subseteq Visited /\ sent \subseteq Visited /\ Visited \subseteq 1 .. made
  BY DEF Visited
<1>2. Retire(out) BY Zenon, <1>0, <1>1 DEF Retire
<1>v. ASSUME NEW o \in Visited
      PROVE  /\ o \in Clients /\ o <= made /\ sock[o] \in {"open", "closed"}
             /\ nHbtCount[o] \in 0 .. HbtLimit
  <2>1. o \in Clients /\ o <= made /\ nId[o] \in Clients /\ clientMap[nId[o]] = o
    BY MadeClients, Unpack DEF Visited, Stored, IdTypes, Clients
  <2>2. sock[o] \in {"open", "closed"} /\ nHbtCount[o] <= HbtLimit
    BY <2>1 DEF AsioInv, MapEntries
  <2>3. nHbtCount[o] \in 0 .. HbtLimit + 1 BY <2>1, Unpack DEF ObjectTypes
  <2> QED BY <2>1, <2>2, <2>3, AsioAssumption
<1> HIDE DEF out, sent
<1>3. AsioTypes'
  <2>1. (clientMap \in [Clients -> Clients \cup {Absent, Null}])'
    BY <1>0, Unpack DEF IdTypes
  <2>2. (nHbtCount \in [Clients -> 0 .. HbtLimit + 1])'
    BY <1>0, <1>v, Unpack, AsioAssumption DEF ObjectTypes
  <2>3. TrafficTypes' BY <1>0, Unpack DEF TrafficTypes
  <2> QED BY <1>2, <2>1, <2>2, <2>3, RetireTypes
<1>4. Objects' /\ Down'
  <2>1. \A o \in Clients : sock[o] = "accepting" \/ o > made => o \notin Visited
    BY <1>v, Unpack
  <2>2. \A o \in Clients : sock[o] = "accepting" \/ o > made => nHbtCount'[o] = nHbtCount[o]
    BY <1>0, <2>1
  <2>3. \A o \in Clients : o > made => reads'[o] = reads[o] /\ writes'[o] = writes[o]
    BY Zenon, <1>0, <1>1, <2>1
  <2> QED BY <1>2, <2>2, <2>3, RetireObjects
<1>5. MapEntries'
  <2> SUFFICES ASSUME NEW i \in Clients
               PROVE  /\ clientMap'[i] \in Clients =>
                           /\ clientMap'[i] <= made /\ nId[clientMap'[i]] = i
                           /\ sock'[clientMap'[i]] \in {"open", "closed"}
                           /\ nHbtCount'[clientMap'[i]] <= HbtLimit
                      /\ clientMap'[i] = Null =>
                           \E p \in 1 .. made : nId[p] = i /\ sock'[p] = "closed"
    BY <1>0 DEF MapEntries
  <2>0. clientMap'[i] = IF clientMap[i] \in out THEN Null ELSE clientMap[i] BY <1>0
  <2>1. Null \notin Clients BY AsioAssumption DEF Null, Clients
  <2>2. CASE clientMap[i] \in out
    <3>1. clientMap[i] \in Clients /\ clientMap[i] \in 1 .. made BY Zenon, <1>1, <1>v, <2>2
    <3>2. nId[clientMap[i]] = i BY <3>1 DEF AsioInv, MapEntries
    <3>3. sock'[clientMap[i]] = "closed" BY <1>2, <2>2, <3>1, Retired
    <3> QED BY <2>0, <2>1, <2>2, <3>1, <3>2, <3>3
  <2>3. CASE clientMap[i] \in Clients /\ clientMap[i] \notin out
    <3>1. /\ clientMap[i] <= made /\ nId[clientMap[i]] = i
          /\ sock[clientMap[i]] \in {"open", "closed"}
          /\ nHbtCount[clientMap[i]] <= HbtLimit
      BY <2>3 DEF AsioInv, MapEntries
    <3>2. clientMap[i] \in Visited
      BY <2>3, <3>1, Unpack, AsioAssumption DEF Visited, Stored, Clients
    <3>3. ~Expired(clientMap[i]) BY <2>3, <3>2 DEF out
    <3>4. nHbtCount'[clientMap[i]] <= HbtLimit
      BY <1>0, <1>v, <2>3, <3>2, <3>3, AsioAssumption DEF Expired
    <3>5. sock'[clientMap[i]] = sock[clientMap[i]] BY <1>2, <2>3, Retired
    <3> QED BY <2>0, <2>1, <2>3, <3>1, <3>4, <3>5
  <2>4. CASE clientMap[i] \notin Clients /\ clientMap[i] \notin out
    <3>1. ASSUME clientMap[i] = Null
          PROVE  \E p \in 1 .. made : nId[p] = i /\ sock'[p] = "closed"
      <4>1. PICK p \in 1 .. made : nId[p] = i /\ sock[p] = "closed"
        BY <3>1 DEF AsioInv, MapEntries
      <4> QED BY <1>2, <4>1, Retired, MadeClients
    <3> QED BY <2>0, <2>4, <3>1
  <2> QED BY <2>2, <2>3, <2>4
<1>6. Watched'
  <2> SUFFICES ASSUME NEW q \in 1 .. made, sock'[q] = "open", clientMap'[nId[q]] # q
               PROVE  \E p \in 1 .. q - 1 : nId[p] = nId[q]
    BY <1>0 DEF Watched, Stored
  <2>1. q \in Clients /\ q \notin out /\ sock[q] = "open" BY <1>2, Retired, MadeClients
  <2>2. nId[q] \in Clients BY <2>1, Unpack DEF IdTypes, Clients
  <2>3. clientMap[nId[q]] # q BY <1>0, <2>1, <2>2
  <2> QED BY <2>1, <2>3 DEF AsioInv, Watched, Stored
<1> QED BY <1>2, <1>3, <1>4, <1>5, <1>6, RetireIds DEF AsioInv

-----------------------------------------------------------------------------
\* Accepting: the last object is opened and, unless the bound is reached, one
\* more object is made with an id that is available or new.

OpenedLast(o) ==
  /\ up /\ o = made /\ sock[o] = "accepting" /\ UNCHANGED <<up, nHbtCount, recycles>>
  /\ clientMap' = [clientMap EXCEPT ![nId[o]] = IF @ = Absent THEN o ELSE @]
  /\ writes' = writes /\ reads' = [reads EXCEPT ![o] = 1]

NoMore(o) ==
  /\ OpenedLast(o) /\ sock' = [sock EXCEPT ![o] = "open"]
  /\ UNCHANGED <<made, nId, nMaxCliId, avaIdSet>>

OneMore(o, id) ==
  /\ OpenedLast(o) /\ made < MaxClients /\ createClientId(id) /\ made' = made + 1
  /\ nId' = [nId EXCEPT ![made + 1] = id]
  /\ sock' = [sock EXCEPT ![o] = "open", ![made + 1] = "accepting"]

LEMMA AcceptCases ==
  ASSUME AsioInv, NEW o \in Clients, acceptHandler(o)
  PROVE  TrafficTypes' /\ (NoMore(o) \/ \E id \in Clients : OneMore(o, id))
<1>1. OpenedLast(o) BY DEF AsioInv, Objects, acceptHandler, OpenedLast
<1>2. TrafficTypes' BY Unpack DEF TrafficTypes, acceptHandler
<1>3. asyncAccept([sock EXCEPT ![o] = "open"]) BY DEF acceptHandler
<1>4. CASE made = MaxClients BY <1>1, <1>2, <1>3, <1>4 DEF asyncAccept, NoMore
<1>5. CASE made # MaxClients
  <2>1. made < MaxClients BY <1>5, Unpack, AsioAssumption DEF Clients
  <2>2. PICK id \in Clients :
          /\ createClientId(id)
          /\ made' = made + 1 /\ nId' = [nId EXCEPT ![made + 1] = id]
          /\ sock' = [[sock EXCEPT ![o] = "open"] EXCEPT ![made + 1] = "accepting"]
    BY <1>3, <1>5 DEF asyncAccept
  <2> QED BY Zenon, <1>1, <1>2, <2>1, <2>2 DEF OneMore
<1> QED BY <1>4, <1>5

\* The map after accepting, whoever else is made.
LEMMA OpenedMap ==
  ASSUME AsioInv, NEW o \in Clients, OpenedLast(o)
  PROVE  /\ clientMap' \in [Clients -> Clients \cup {Absent, Null}]
         /\ \A i \in Clients : \/ clientMap'[i] = clientMap[i]
                               \/ clientMap'[i] = o /\ nId[o] = i /\ clientMap[i] = Absent
         /\ clientMap'[nId[o]] # o => \E p \in 1 .. o - 1 : nId[p] = nId[o]
<1>1. /\ clientMap \in [Clients -> Clients \cup {Absent, Null}] /\ nId[o] \in Clients
      /\ o \in Nat
  BY Unpack DEF IdTypes, Clients
<1>2. clientMap' = [clientMap EXCEPT ![nId[o]] =
                      IF clientMap[nId[o]] = Absent THEN o ELSE clientMap[nId[o]]]
      /\ o = made /\ sock[o] = "accepting"
  BY DEF OpenedLast
<1>3. /\ clientMap' \in [Clients -> Clients \cup {Absent, Null}]
      /\ \A i \in Clients : \/ clientMap'[i] = clientMap[i]
                            \/ clientMap'[i] = o /\ nId[o] = i /\ clientMap[i] = Absent
  BY Zenon, <1>1, <1>2
<1>4. ASSUME clientMap'[nId[o]] # o PROVE \E p \in 1 .. o - 1 : nId[p] = nId[o]
  <2>1. clientMap[nId[o]] \in Clients \cup {Null} BY Zenon, <1>1, <1>2, <1>4
  <2>2. PICK p \in 1 .. made : nId[p] = nId[o] /\ sock[p] \in {"open", "closed"}
    <3>1. CASE clientMap[nId[o]] \in Clients
      <4>1. /\ clientMap[nId[o]] <= made /\ nId[clientMap[nId[o]]] = nId[o]
            /\ sock[clientMap[nId[o]]] \in {"open", "closed"}
        BY Zenon, <1>1, <3>1 DEF AsioInv, MapEntries
      <4>2. clientMap[nId[o]] \in 1 .. made BY <3>1, <4>1, Unpack, AsioAssumption DEF Clients
      <4> QED BY <4>1, <4>2
    <3>2. CASE clientMap[nId[o]] = Null
      <4>1. PICK p \in 1 .. made : nId[p] = nId[o] /\ sock[p] = "closed"
        BY Zenon, <1>1, <3>2 DEF AsioInv, MapEntries
      <4> QED BY <4>1
    <3> QED BY <2>1, <3>1, <3>2
  <2>3. p \in 1 .. o - 1 BY <1>1, <1>2, <2>2
  <2> QED BY <2>2, <2>3
<1> QED BY <1>3, <1>4

\* An object other than the new one is as live as it was.
LEMMA OpenedObject ==
  ASSUME AsioInv, NEW o \in Clients, NoMore(o) \/ \E id \in Clients : OneMore(o, id)
  PROVE  /\ made' \in Clients /\ made' \in {made, made + 1}
         /\ \A p \in 1 .. made :
              /\ nId'[p] = nId[p] /\ recycles'[p] = recycles[p] /\ (Live(p)' <=> Live(p))
              /\ sock'[p] = IF p = o THEN "open" ELSE sock[p]
<1>0. sock \in [Clients -> {"none", "accepting", "open", "closed"}] /\ made \in Clients
      /\ nId \in [Clients -> 1 .. MaxClients] /\ made \in Nat
  BY Unpack DEF ObjectTypes, IdTypes
<1>1. CASE NoMore(o) BY <1>0, <1>1, MadeClients DEF NoMore, OpenedLast, Live
<1>2. ASSUME NEW id \in Clients, OneMore(o, id)
      PROVE  /\ made' \in Clients /\ made' = made + 1
             /\ \A p \in 1 .. made :
                  /\ nId'[p] = nId[p] /\ recycles'[p] = recycles[p] /\ (Live(p)' <=> Live(p))
                  /\ sock'[p] = IF p = o THEN "open" ELSE sock[p]
  <2>1. made + 1 \in Clients BY <1>0, <1>2, AsioAssumption DEF OneMore, Clients
  <2>2. \A p \in 1 .. made : p # made + 1 BY <1>0
  <2>3. \A p \in 1 .. made : sock'[p] = IF p = o THEN "open" ELSE sock[p]
    BY <1>0, <1>2, <2>2, MadeClients DEF OneMore
  <2>4. \A p \in 1 .. made : nId'[p] = nId[p] BY <1>0, <1>2, <2>2, MadeClients DEF OneMore
  <2> QED BY ZenonT(30), <1>2, <2>1, <2>3, <2>4 DEF OneMore, OpenedLast, Live
<1> QED BY <1>1, <1>2

\* The entries of the map and the objects the timer does not watch.
LEMMA AcceptMap ==
  ASSUME AsioInv, NEW o \in Clients, NoMore(o) \/ \E id \in Clients : OneMore(o, id),
         \A p \in 1 .. made' : p \in 1 .. made \/ sock'[p] = "accepting"
  PROVE  MapEntries' /\ Watched'
<1>0. OpenedLast(o) BY DEF NoMore, OneMore
<1>1. o = made /\ sock[o] = "accepting" /\ nHbtCount' = nHbtCount /\ nHbtCount[o] = 0
      /\ made \in Nat /\ made' \in Nat /\ made <= made' /\ o \in 1 .. made
  BY <1>0, Unpack, OpenedObject, AsioAssumption DEF OpenedLast, AsioInv, Objects, Clients
<1>2. MapEntries'
  <2> SUFFICES ASSUME NEW i \in Clients
               PROVE  /\ clientMap'[i] \in Clients =>
                           /\ clientMap'[i] <= made' /\ nId'[clientMap'[i]] = i
                           /\ sock'[clientMap'[i]] \in {"open", "closed"}
                           /\ nHbtCount'[clientMap'[i]] <= HbtLimit
                      /\ clientMap'[i] = Null =>
                           \E p \in 1 .. made' : nId'[p] = i /\ sock'[p] = "closed"
    BY DEF MapEntries
  <2>0. Null \notin Clients BY AsioAssumption DEF Null, Clients
  <2>1. CASE clientMap'[i] = o /\ nId[o] = i
    BY <1>1, <2>0, <2>1, OpenedObject, AsioAssumption
  <2>2. CASE clientMap'[i] = clientMap[i] /\ clientMap[i] \in Clients
    <3>1. /\ clientMap[i] <= made /\ nId[clientMap[i]] = i
          /\ sock[clientMap[i]] \in {"open", "closed"} /\ nHbtCount[clientMap[i]] <= HbtLimit
      BY <2>2 DEF AsioInv, MapEntries
    <3>2. clientMap[i] \in 1 .. made BY <2>2, <3>1, <1>1, AsioAssumption DEF Clients
    <3>3. clientMap[i] <= made' BY <1>1, <3>2
    <3> QED BY <1>1, <2>0, <2>2, <3>1, <3>2, <3>3, OpenedObject
  <2>3. CASE clientMap'[i] = clientMap[i] /\ clientMap[i] = Null
    <3>1. PICK p \in 1 .. made : nId[p] = i /\ sock[p] = "closed"
      BY <2>3 DEF AsioInv, MapEntries
    <3>2. p # o /\ p \in 1 .. made' BY <1>1, <3>1
    <3> QED BY <2>0, <2>3, <3>1, <3>2, OpenedObject
  <2> QED BY <1>0, <2>1, <2>2, <2>3, OpenedMap
<1>3. Watched'
  <2> SUFFICES ASSUME NEW q \in 1 .. made', sock'[q] = "open", clientMap'[nId'[q]] # q
               PROVE  \E p \in 1 .. q - 1 : nId'[p] = nId'[q]
    BY DEF Watched, Stored
  <2>1. q \in 1 .. made /\ nId'[q] = nId[q] /\ q \in Clients /\ nId[q] \in Clients
    BY OpenedObject, MadeClients, Unpack DEF IdTypes, Clients
  <2>2. PICK p \in 1 .. q - 1 : nId[p] = nId[q]
    <3>1. CASE q = o BY <1>0, <2>1, <3>1, OpenedMap
    <3>2. CASE q # o
      <4>1. sock[q] = "open" BY Zenon, <2>1, <3>2, OpenedObject
      <4>2. clientMap[nId[q]] # q
        BY <1>0, <2>1, <3>2, OpenedMap, AsioAssumption DEF Absent, Clients
      <4> QED BY <2>1, <4>1, <4>2 DEF AsioInv, Watched, Stored
    <3> QED BY <3>1, <3>2
  <2>3. p \in 1 .. made BY <1>1, <2>1
  <2> QED BY <2>1, <2>2, <2>3, OpenedObject
<1> QED BY <1>2, <1>3

LEMMA NoMoreInv ==
  ASSUME AsioInv, NEW o \in Clients, NoMore(o), TrafficTypes' PROVE AsioInv'
<1>0. /\ OpenedLast(o) /\ IdTypes /\ ObjectTypes /\ o \in 1 .. made
      /\ made \in Nat /\ Clients \subseteq Nat
  BY Unpack, AsioAssumption DEF NoMore, OpenedLast, Clients
<1>1. AsioTypes'
  <2>1. IdTypes' BY Zenon, <1>0, OpenedMap DEF IdTypes, NoMore, OpenedLast
  <2>2. ObjectTypes' BY <1>0 DEF ObjectTypes, NoMore, OpenedLast
  <2> QED BY <2>1, <2>2 DEF AsioTypes
<1>2. Down' BY DEF NoMore, OpenedLast, Down
<1>3. Objects'
  <2> SUFFICES ASSUME NEW p \in Clients
               PROVE  /\ nId[p] \in 1 .. nMaxCliId
                      /\ sock'[p] = "accepting" => p = made /\ nHbtCount[p] = 0
                      /\ p > made => /\ sock'[p] = "none" /\ nHbtCount[p] = 0
                                     /\ recycles[p] = 0 /\ reads'[p] = 0 /\ writes[p] = 0
                      /\ p <= made => sock'[p] # "none" /\ (Live(p)' <=> recycles[p] = 0)
    BY DEF Objects, NoMore, OpenedLast
  <2>1. /\ nId[p] \in 1 .. nMaxCliId
        /\ sock[p] = "accepting" => p = made /\ nHbtCount[p] = 0
        /\ p > made => /\ sock[p] = "none" /\ nHbtCount[p] = 0
                       /\ recycles[p] = 0 /\ reads[p] = 0 /\ writes[p] = 0
        /\ p <= made => sock[p] # "none" /\ (Live(p) <=> recycles[p] = 0)
    BY DEF AsioInv, Objects, NoMore, OpenedLast
  <2>2. sock'[p] = IF p = o THEN "open" ELSE sock[p] BY <1>0 DEF NoMore, ObjectTypes
  <2>3. reads'[p] = IF p = o THEN 1 ELSE reads[p] BY <1>0, Unpack DEF OpenedLast, TrafficTypes
  <2>4. o = made /\ sock[o] = "accepting" /\ p \in Nat BY <1>0 DEF OpenedLast
  <2> QED BY <1>0, <2>1, <2>2, <2>3, <2>4 DEF Live
<1>4. MapEntries' /\ Watched' BY Zenon, AcceptMap DEF NoMore
<1>5. /\ made' = made /\ nId' = nId /\ nMaxCliId' = nMaxCliId /\ avaIdSet' = avaIdSet
      /\ recycles' = recycles /\ \A p \in 1 .. made : Live(p)' <=> Live(p)
  BY Zenon, OpenedObject DEF NoMore, OpenedLast
<1>6. SharedWithEarlier' BY <1>5 DEF AsioInv, SharedWithEarlier
<1>7. IdsAccounted' BY <1>5 DEF AsioInv, IdsAccounted
<1>8. IdExclusive' BY <1>5 DEF AsioInv, IdExclusive
<1> QED BY <1>1, <1>2, <1>3, <1>4, <1>6, <1>7, <1>8 DEF AsioInv

\* What createClientId returns: an id that was available and no longer is, or one
\* above all that were given out.
LEMMA CreatedId ==
  ASSUME AsioInv, NEW id \in Clients, createClientId(id)
  PROVE  /\ nMaxCliId' \in nMaxCliId .. MaxClients /\ id \in 1 .. nMaxCliId'
         /\ avaIdSet' \subseteq avaIdSet /\ id \notin avaIdSet'
         /\ \A i \in 1 .. nMaxCliId' :
              i # id => i \in 1 .. nMaxCliId /\ (i \in avaIdSet => i \in avaIdSet')
         /\ id \in avaIdSet \/ id > nMaxCliId
<1>0. nMaxCliId \in 0 .. MaxClients /\ avaIdSet \subseteq 1 .. nMaxCliId BY Unpack DEF IdTypes
<1>1. CASE avaIdSet = {} BY <1>0, <1>1, AsioAssumption DEF createClientId, Clients
<1>2. CASE avaIdSet # {} BY <1>0, <1>2, AsioAssumption DEF createClientId, Clients
<1> QED BY <1>1, <1>2

\* An id shared with the new object was available.
LEMMA NewIdShared ==
  ASSUME AsioInv, up, NEW id \in Clients, createClientId(id),
         NEW p \in 1 .. made, nId[p] = id
  PROVE  id \in avaIdSet
<1>1. nId[p] \in 1 .. nMaxCliId BY MadeClients DEF AsioInv, Objects
<1>2. nMaxCliId \in Nat BY Unpack DEF IdTypes
<1> QED BY <1>1, <1>2, CreatedId

LEMMA OneMoreInv ==
  ASSUME AsioInv, NEW o \in Clients, NEW id \in Clients, OneMore(o, id), TrafficTypes'
  PROVE  AsioInv'
<1>0. /\ OpenedLast(o) /\ IdTypes /\ ObjectTypes /\ o \in 1 .. made /\ o = made
      /\ up /\ made \in Nat /\ Clients \subseteq Nat /\ createClientId(id)
      /\ sock[o] = "accepting"
  BY Unpack, AsioAssumption DEF OneMore, OpenedLast, Clients
<1>n. PICK new \in Nat : new = made + 1 BY <1>0
<1>1. /\ new \in Clients /\ new \in Nat /\ made' = new /\ new \in 1 .. made' /\ new # o
      /\ \A p \in 1 .. made' : p \in 1 .. made \/ p = new
      /\ \A p \in 1 .. made : p \in 1 .. made' /\ p < new /\ p # new
  BY <1>0, <1>n, AsioAssumption DEF OneMore, Clients
<1>2. /\ sock' = [sock EXCEPT ![o] = "open", ![new] = "accepting"]
      /\ nId' = [nId EXCEPT ![new] = id] /\ recycles' = recycles /\ nHbtCount' = nHbtCount
  BY <1>n DEF OneMore, OpenedLast
<1>3. nId'[new] = id /\ sock'[new] = "accepting" /\ Live(new)'
  BY <1>0, <1>1, <1>2 DEF IdTypes, ObjectTypes, Live
<1>4. /\ \A p \in 1 .. made : nId'[p] = nId[p] /\ (Live(p)' <=> Live(p))
      /\ made \in Clients
  BY OpenedObject, Unpack
<1>5. AsioTypes'
  <2>1. /\ nMaxCliId \in 0 .. MaxClients /\ avaIdSet \subseteq 1 .. nMaxCliId
        /\ id \in 1 .. MaxClients
    BY <1>0 DEF IdTypes, Clients
  <2>a. nMaxCliId' \in nMaxCliId .. MaxClients /\ avaIdSet' \subseteq avaIdSet
    BY <1>0, CreatedId
  <2>2. (nMaxCliId \in 0 .. MaxClients /\ avaIdSet \subseteq 1 .. nMaxCliId)'
    BY <2>1, <2>a, AsioAssumption
  <2>3. (nId \in [Clients -> 1 .. MaxClients])' BY Zenon, <1>0, <1>2, <2>1 DEF IdTypes
  <2>4. IdTypes' BY Zenon, <1>0, <1>1, <2>2, <2>3, OpenedMap DEF IdTypes, OpenedLast
  <2>5. ObjectTypes' BY Zenon, <1>0, <1>2 DEF ObjectTypes
  <2> QED BY <2>4, <2>5 DEF AsioTypes
<1>6. Down' BY <1>0 DEF OpenedLast, Down
<1>7. Objects'
  <2> SUFFICES ASSUME NEW p \in Clients
               PROVE  /\ nId'[p] \in 1 .. nMaxCliId'
                      /\ sock'[p] = "accepting" => p = made' /\ nHbtCount[p] = 0
                      /\ p > made' => /\ sock'[p] = "none" /\ nHbtCount[p] = 0
                                      /\ recycles[p] = 0 /\ reads'[p] = 0 /\ writes'[p] = 0
                      /\ p <= made' => sock'[p] # "none" /\ (Live(p)' <=> recycles[p] = 0)
    BY Zenon, <1>2 DEF Objects
  <2>1. /\ nId[p] \in 1 .. nMaxCliId
        /\ sock[p] = "accepting" => p = made /\ nHbtCount[p] = 0
        /\ p > made => /\ sock[p] = "none" /\ nHbtCount[p] = 0
                       /\ recycles[p] = 0 /\ reads[p] = 0 /\ writes[p] = 0
        /\ p <= made => sock[p] # "none" /\ (Live(p) <=> recycles[p] = 0)
    BY <1>0 DEF AsioInv, Objects
  <2>2. sock'[p] = IF p = new THEN "accepting" ELSE IF p = o THEN "open" ELSE sock[p]
    BY <1>0, <1>1, <1>2 DEF ObjectTypes
  <2>3. reads'[p] = (IF p = o THEN 1 ELSE reads[p]) /\ writes'[p] = writes[p]
    BY <1>0, Unpack DEF OpenedLast, TrafficTypes
  <2>4. nId'[p] \in 1 .. nMaxCliId'
    <3>1. nMaxCliId \in Nat /\ nId'[p] \in {id, nId[p]} BY <1>0, <1>2 DEF IdTypes
    <3> QED BY <1>0, <2>1, <3>1, CreatedId, AsioAssumption
  <2>5. CASE p = new
    BY <1>1, <1>3, <2>1, <2>2, <2>3, <2>4, <2>5, <1>0, <1>n
  <2>6. CASE p # new
    <3>1. p > made' => p > made BY <1>0, <1>1, <1>n
    <3>2. p <= made' => p <= made BY <1>0, <1>1, <1>n, <2>6
    <3>3. p > made' => p # o BY <1>0, <3>1
    <3> QED BY <1>0, <2>1, <2>2, <2>3, <2>4, <2>6, <3>1, <3>2, <3>3 DEF Live
  <2> QED BY <2>5, <2>6
<1>8. MapEntries' /\ Watched'
  <2>1. \A p \in 1 .. made' : p \in 1 .. made \/ sock'[p] = "accepting" BY <1>1, <1>3
  <2> QED BY <2>1, AcceptMap
<1>9. SharedWithEarlier'
  <2> SUFFICES ASSUME NEW q \in 1 .. made', Live(q)',
                      \/ nId'[q] \in avaIdSet'
                      \/ \E p \in q + 1 .. made' : nId'[p] = nId'[q]
               PROVE  \E p \in 1 .. q - 1 : nId'[p] = nId'[q]
    BY DEF SharedWithEarlier
  <2>1. CASE q = new
    <3>1. ~\E p \in q + 1 .. made' : TRUE BY <1>1, <2>1
    <3> QED BY <1>0, <1>3, <2>1, <3>1, CreatedId
  <2>2. CASE q \in 1 .. made
    <3>1. Live(q) /\ nId'[q] = nId[q] BY <1>4, <2>2
    <3>2. nId[q] \in avaIdSet \/ \E p \in q + 1 .. made : nId[p] = nId[q]
      <4>1. CASE nId[q] \in avaIdSet' BY <1>0, <4>1, CreatedId
      <4>2. ASSUME NEW p \in q + 1 .. made', nId'[p] = nId[q]
            PROVE  nId[q] \in avaIdSet \/ \E r \in q + 1 .. made : nId[r] = nId[q]
        <5>1. CASE p = new BY <1>0, <1>3, <2>2, <4>2, <5>1, NewIdShared
        <5>2. CASE p # new
          <6>1. p \in 1 .. made /\ p \in q + 1 .. made BY <1>0, <1>1, <2>2, <5>2, <1>n
          <6> QED BY <1>4, <4>2, <6>1
        <5> QED BY <5>1, <5>2
      <4> QED BY <3>1, <4>1, <4>2
    <3>3. PICK p \in 1 .. q - 1 : nId[p] = nId[q]
      BY <2>2, <3>1, <3>2 DEF AsioInv, SharedWithEarlier
    <3>4. p \in 1 .. made BY <1>0, <2>2
    <3> QED BY <1>4, <3>1, <3>3, <3>4
  <2> QED BY <1>1, <2>1, <2>2
<1>10. IdsAccounted'
  <2> SUFFICES ASSUME NEW i \in 1 .. nMaxCliId'
               PROVE  i \in avaIdSet' \/ \E p \in 1 .. made' : nId'[p] = i /\ Live(p)'
    BY DEF IdsAccounted
  <2>1. CASE i = id BY <1>1, <1>3, <2>1
  <2>2. CASE i # id
    <3>1. i \in 1 .. nMaxCliId /\ (i \in avaIdSet => i \in avaIdSet')
      BY <1>0, <2>2, CreatedId
    <3>2. i \in avaIdSet \/ \E p \in 1 .. made : nId[p] = i /\ Live(p)
      BY <3>1 DEF AsioInv, IdsAccounted
    <3> QED BY <1>1, <1>4, <3>1, <3>2
  <2> QED BY <2>1, <2>2
<1>11. IdExclusive'
  <2> SUFFICES ASSUME NEW q \in 1 .. made', Live(q)',
                      \/ nId'[q] \in avaIdSet'
                      \/ \E p \in 1 .. made' : p # q /\ nId'[p] = nId'[q] /\ Live(p)'
               PROVE  \E p \in 1 .. made' : nId'[p] = nId'[q] /\ recycles'[p] = 2
    BY DEF IdExclusive
  \* Some earlier object that is live shares the id.
  <2>1. PICK r \in 1 .. made :
          /\ nId[r] = nId'[q] /\ Live(r)
          /\ \/ nId[r] \in avaIdSet
             \/ \E p \in 1 .. made : p # r /\ nId[p] = nId[r] /\ Live(p)
    <3>1. CASE q = new
      <4>1. nId'[q] \notin avaIdSet' BY <1>0, <1>3, <3>1, CreatedId
      <4>2. PICK p \in 1 .. made' : p # q /\ nId'[p] = nId'[q] /\ Live(p)' BY <4>1
      <4>3. p \in 1 .. made /\ nId[p] = id /\ Live(p) BY <1>1, <1>3, <1>4, <3>1, <4>2
      <4>4. id \in avaIdSet BY <1>0, <4>3, NewIdShared
      <4> QED BY <1>3, <3>1, <4>3, <4>4
    <3>2. CASE q \in 1 .. made
      <4>1. nId'[q] = nId[q] /\ Live(q) BY <1>4, <3>2
      <4>2. CASE nId[q] \in avaIdSet' BY <1>0, <3>2, <4>1, <4>2, CreatedId
      <4>3. ASSUME NEW p \in 1 .. made', p # q, nId'[p] = nId'[q], Live(p)'
            PROVE  \E r \in 1 .. made :
                     /\ nId[r] = nId'[q] /\ Live(r)
                     /\ \/ nId[r] \in avaIdSet
                        \/ \E pp \in 1 .. made : pp # r /\ nId[pp] = nId[r] /\ Live(pp)
        <5>1. CASE p = new
          <6>1. nId[q] = id BY <1>3, <4>1, <4>3, <5>1
          <6>2. id \in avaIdSet BY <1>0, <3>2, <6>1, NewIdShared
          <6> QED BY <3>2, <4>1, <6>1, <6>2
        <5>2. CASE p \in 1 .. made
          <6>1. nId[p] = nId[q] /\ Live(p) BY <1>4, <4>1, <4>3, <5>2
          <6> QED BY <3>2, <4>1, <4>3, <5>2, <6>1
        <5> QED BY <1>1, <5>1, <5>2
      <4> QED BY <4>1, <4>2, <4>3
    <3> QED BY <1>1, <3>1, <3>2
  <2>2. PICK p \in 1 .. made : nId[p] = nId[r] /\ recycles[p] = 2
    BY <2>1 DEF AsioInv, IdExclusive
  <2> QED BY <1>1, <1>2, <1>4, <2>1, <2>2
<1> QED BY <1>5, <1>6, <1>7, <1>8, <1>9, <1>10, <1>11 DEF AsioInv

-----------------------------------------------------------------------------
LEMMA AsioNextInv == AsioInv /\ [AsioNext]_asioVars => AsioInv'
<1> SUFFICES ASSUME AsioInv, [AsioNext]_asioVars PROVE AsioInv' OBVIOUS
<1>1. ASSUME NEW o \in Clients, acceptHandler(o) PROVE AsioInv'
  BY <1>1, AcceptCases, NoMoreInv, OneMoreInv
<1>2. ASSUME NEW o \in Clients, acceptHandler_throws(o) \/ readHandler_throws(o)
      PROVE  AsioInv'
  BY <1>2, TerminateInv DEF acceptHandler_throws, readHandler_throws
<1>3. ASSUME NEW o \in Clients, acceptHandler_error(o) PROVE AsioInv' BY <1>3, AcceptErrorInv
<1>4. ASSUME NEW o \in Clients, handlers(o) PROVE AsioInv'
  BY <1>4, QuietSteps, HandlerErrors DEF handlers
<1>5. CASE deadlineTimerHandle BY <1>5, TimerInv
<1>6. ASSUME NEW o \in Clients,
             client_connectHandler(o) \/ client_readHandler(o) \/ client_error(o)
      PROVE  AsioInv'
  BY <1>6, QuietSteps
<1>7. ASSUME NEW o \in Clients, NEW how \in {"hung", "gone"}, client_fails(o, how)
      PROVE  AsioInv'
  BY <1>7, QuietSteps
<1>8. CASE UNCHANGED asioVars
  BY <1>8 DEF asioVars, AsioInv, AsioTypes, IdTypes, ObjectTypes, TrafficTypes, Down, Objects,
              MapEntries, SharedWithEarlier, IdsAccounted, IdExclusive, Watched, Live, Stored
<1> QED BY <1>1, <1>2, <1>3, <1>4, <1>5, <1>6, <1>7, <1>8 DEF AsioNext

\* For any number of Client objects and any heartbeat limit: no client id is lost,
\* the id of a live client is shared only after an id was recycled twice, and an
\* open client escapes the timer only behind an entry of an earlier client.
\* (createClientId, acceptHandler, readHandler, writeHandler, deadlineTimerHandle)
THEOREM IdsKept == AsioSpec => [](AsioTypeOK /\ IdsAccounted /\ IdExclusive /\ Watched)
<1>1. AsioInv => AsioTypeOK /\ IdsAccounted /\ IdExclusive /\ Watched
  BY DEF AsioInv, AsioTypes, IdTypes, ObjectTypes, TrafficTypes, MapEntries, AsioTypeOK
<1> QED BY <1>1, AsioInitInv, AsioNextInv, PTL DEF AsioSpec

-----------------------------------------------------------------------------
(* Calls that open a socket (Anet)                                            *)

NetSpec == NetInit /\ [][NetNext]_anetVars

NetTypes ==
  /\ owner \in [Fds -> Threads \cup {"free"}]
  /\ acall \in [Threads -> Calls] /\ astep \in [Threads -> Nat]
  /\ s \in [Threads -> Fds \cup {NoFd}] /\ addrs \in [Threads -> 0 .. MaxAddrs]
  /\ apc \in [Threads -> {"idle", "script", "closing", "holds"}]
  /\ callsMade \in [Threads -> Nat] /\ closedTwice6 \in BOOLEAN

\* A call has a socket exactly from its first step on, and one that is under way
\* has an address left; only _anetTcpServer for IPv6 closes twice.
AtStep(t) ==
  /\ apc[t] = "idle" => s[t] = NoFd /\ astep[t] = 1
  /\ apc[t] = "script" => /\ astep[t] \in 1 .. Len(Script(acall[t])) /\ addrs[t] >= 1
                          /\ astep[t] = 1 <=> s[t] = NoFd
  /\ apc[t] = "closing" => s[t] # NoFd /\ acall[t] = "Tcp6Server"
  /\ apc[t] = "holds" => s[t] # NoFd
Progress == \A t \in Threads : AtStep(t)

\* The descriptors a thread has open: one that closed its socket in anetV6Only
\* has none.
Opened(t) == {f \in Fds : owner[f] = t}
Owned ==
  ~closedTwice6 =>
    \A t \in Threads :
      Opened(t) = IF s[t] = NoFd \/ apc[t] = "closing" THEN {} ELSE {s[t]}

NetInv == NetTypes /\ Progress /\ Owned

(* Every script begins with the socket, and has it only there.                *)
LEMMA ScriptShape ==
  ASSUME NEW c \in Calls
  PROVE  /\ Len(Script(c)) \in Nat /\ Len(Script(c)) >= 1
         /\ \A k \in 1 .. Len(Script(c)) : Script(c)[k] = "socket" <=> k = 1
         /\ Len(Script(c)) = 1 <=> c = "Accept"
         /\ \A k \in 1 .. Len(Script(c)) : Script(c)[k] = "v6only" => c = "Tcp6Server"
<1>1. CASE c \in {"TcpConnect", "UnixConnect"}
  <2>1. Script(c) = <<"socket", "reuse", "nonblock", "connect">>
    BY <1>1 DEF Script
  <2>2. QED
    BY <1>1, <2>1
<1>2. CASE c = "TcpBindConnect"
  <2>1. Script(c) = <<"socket", "reuse", "nonblock", "bind", "connect">>
    BY <1>2 DEF Script
  <2>2. /\ Len(Script(c)) = 5 /\ Script(c)[1] = "socket" /\ Script(c)[2] = "reuse"
        /\ Script(c)[3] = "nonblock" /\ Script(c)[4] = "bind" /\ Script(c)[5] = "connect"
    BY <2>1
  <2>3. \A k \in 1 .. 5 : k = 1 \/ k = 2 \/ k = 3 \/ k = 4 \/ k = 5
    OBVIOUS
  <2>4. QED
    BY <1>2, <2>2, <2>3
<1>3. CASE c \in {"TcpServer", "UnixServer"}
  <2>1. Script(c) = <<"socket", "reuse", "listen">>
    BY <1>3 DEF Script
  <2>2. QED
    BY <1>3, <2>1
<1>4. CASE c = "Tcp6Server"
  <2>1. Script(c) = <<"socket", "v6only", "reuse", "listen">>
    BY <1>4 DEF Script
  <2>2. QED
    BY <1>4, <2>1
<1>5. CASE c = "Accept"
  <2>1. Script(c) = <<"socket">>
    BY <1>5 DEF Script
  <2>2. QED
    BY <1>5, <2>1
<1>6. QED
  BY <1>1, <1>2, <1>3, <1>4, <1>5 DEF Calls

LEMMA NetInitOK == NetInit => NetInv
<1> SUFFICES ASSUME NetInit PROVE NetInv
  OBVIOUS
<1>1. NetTypes
  <2>1. closedTwice6 \in BOOLEAN
    BY Zenon DEF NetInit
  <2>2. QED
    BY <2>1, AnetAssumption DEF NetInit, NetTypes, Calls
<1>2. Progress
  BY DEF NetInit, Progress, AtStep
<1>3. Owned
  BY AnetAssumption DEF NetInit, Owned, Opened
<1>4. QED
  BY <1>1, <1>2, <1>3 DEF NetInv

(* What a thread does to its own fields leaves the other threads alone.       *)
LEMMA OthersAlone ==
  ASSUME NetInv, NEW t \in Threads, NetTypes',
         \A u \in Threads : u # t =>
           /\ acall'[u] = acall[u] /\ astep'[u] = astep[u] /\ s'[u] = s[u]
           /\ addrs'[u] = addrs[u] /\ apc'[u] = apc[u],
         AtStep(t)'
  PROVE  Progress'
<1>1. ASSUME NEW u \in Threads, u # t PROVE AtStep(u)'
  BY <1>1 DEF NetInv, Progress, AtStep
<1>2. QED
  BY <1>1 DEF Progress

(* A thread that closes its own descriptor, and forgets it.                   *)
LEMMA OwnClosed ==
  ASSUME NetInv, NEW t \in Threads, ~closedTwice6, closedTwice6' = closedTwice6,
         s[t] # NoFd, apc[t] # "closing", Close(t),
         s'[t] = NoFd \/ apc'[t] = "closing",
         \A u \in Threads : u # t => s'[u] = s[u] /\ apc'[u] = apc[u]
  PROVE  Owned'
<1>1. s[t] \in Fds /\ Opened(t) = {s[t]}
  BY DEF NetInv, NetTypes, Owned
<1>2. \A f \in Fds : owner'[f] = IF f = s[t] THEN "free" ELSE owner[f]
  BY DEF NetInv, NetTypes, Close
<1>3. \A f \in Fds : owner[f] = t <=> f = s[t]
  BY <1>1 DEF Opened
<1>4. Opened(t)' = {}
  BY <1>2, <1>3, AnetAssumption, ZenonT(60) DEF Opened
<1>5. ASSUME NEW u \in Threads, u # t PROVE Opened(u)' = Opened(u)
  BY <1>2, <1>3, <1>5, AnetAssumption, ZenonT(60) DEF Opened
<1>6. QED
  BY <1>4, <1>5 DEF NetInv, Owned

\* Only the fields of thread t may change.
OnlyOf(t) ==
  \A u \in Threads : u # t =>
    /\ acall'[u] = acall[u] /\ astep'[u] = astep[u] /\ s'[u] = s[u]
    /\ addrs'[u] = addrs[u] /\ apc'[u] = apc[u]

(* A call that fails, or goes on with the next address, has no socket.        *)
LEMMA Restarts ==
  ASSUME NetInv, NEW t \in Threads,
         \/ give_up(t) /\ apc[t] \in {"script", "closing"}
         \/ next_addr(t) /\ apc[t] = "script",
         owner' \in [Fds -> Threads \cup {"free"}], closedTwice6' \in BOOLEAN,
         callsMade' = callsMade
  PROVE  NetTypes' /\ Progress' /\ s'[t] = NoFd /\ OnlyOf(t)
<1>1. addrs[t] \in 0 .. MaxAddrs /\ MaxAddrs \in Nat
  BY AnetAssumption DEF NetInv, NetTypes
<1>2. s' = [s EXCEPT ![t] = NoFd] /\ astep' = [astep EXCEPT ![t] = 1]
  BY DEF give_up, next_addr
<1>3. \/ /\ apc' = [apc EXCEPT ![t] = "idle"] /\ acall' = [acall EXCEPT ![t] = "Accept"]
         /\ addrs' = [addrs EXCEPT ![t] = 0]
      \/ /\ apc' = apc /\ acall[t] = "TcpBindConnect" /\ acall' = [acall EXCEPT ![t] = "TcpConnect"]
         /\ \E k \in 1 .. MaxAddrs : addrs' = [addrs EXCEPT ![t] = k]
      \/ /\ apc' = apc /\ acall' = acall /\ apc[t] = "script" /\ addrs[t] # 1
         /\ addrs' = [addrs EXCEPT ![t] = addrs[t] - 1]
  BY DEF give_up, next_addr
<1>4. apc[t] = "script" => addrs[t] >= 1
  BY DEF NetInv, Progress, AtStep
<1>5. NetTypes'
  <2>1. apc' \in [Threads -> {"idle", "script", "closing", "holds"}]
    BY <1>3 DEF NetInv, NetTypes
  <2>2. acall' \in [Threads -> Calls]
    BY <1>3 DEF NetInv, NetTypes, Calls
  <2>3. addrs' \in [Threads -> 0 .. MaxAddrs]
    <3>1. \E k \in 0 .. MaxAddrs : addrs' = [addrs EXCEPT ![t] = k]
      BY <1>1, <1>3, <1>4
    <3>2. QED
      BY <3>1 DEF NetInv, NetTypes
  <2>4. s' \in [Threads -> Fds \cup {NoFd}] /\ astep' \in [Threads -> Nat]
    BY <1>2 DEF NetInv, NetTypes
  <2>5. QED
    BY <2>1, <2>2, <2>3, <2>4 DEF NetInv, NetTypes
<1>6. OnlyOf(t)
  BY <1>2, <1>3 DEF NetInv, NetTypes, OnlyOf
<1>7. s'[t] = NoFd /\ astep'[t] = 1
  BY <1>2 DEF NetInv, NetTypes
<1>8. AtStep(t)'
  <2>1. \/ apc'[t] = "idle"
        \/ apc'[t] = "script" /\ addrs'[t] >= 1
    <3>1. CASE apc' = [apc EXCEPT ![t] = "idle"]
      BY <3>1 DEF NetInv, NetTypes
    <3>2. CASE /\ apc' = apc /\ acall[t] = "TcpBindConnect"
               /\ \E k \in 1 .. MaxAddrs : addrs' = [addrs EXCEPT ![t] = k]
      <4>1. apc[t] = "script"
        BY <3>2 DEF NetInv, Progress, AtStep, give_up, next_addr
      <4>2. addrs'[t] \in 1 .. MaxAddrs
        BY <3>2 DEF NetInv, NetTypes
      <4>3. QED
        BY <1>1, <3>2, <4>1, <4>2
    <3>3. CASE /\ apc' = apc /\ apc[t] = "script" /\ addrs[t] # 1
               /\ addrs' = [addrs EXCEPT ![t] = addrs[t] - 1]
      <4>1. addrs'[t] = addrs[t] - 1
        BY <3>3 DEF NetInv, NetTypes
      <4>2. QED
        BY <1>1, <1>4, <3>3, <4>1
    <3>4. QED
      BY <1>3, <3>1, <3>2, <3>3
  <2>2. 1 \in 1 .. Len(Script(acall'[t]))
    <3>1. acall'[t] \in Calls
      BY <1>5 DEF NetTypes
    <3>2. QED
      BY <3>1, ScriptShape
  <2>3. QED
    BY <1>7, <2>1, <2>2 DEF AtStep
<1>9. Progress'
  BY <1>5, <1>6, <1>8, OthersAlone DEF OnlyOf
<1>10. QED
  BY <1>5, <1>6, <1>7, <1>9

(* A call is made: it has no socket yet.                                      *)
LEMMA BeginStep ==
  ASSUME NetInv, NEW t \in Threads, NEW c \in Calls, NEW k \in 0 .. MaxAddrs, begin_call(t, c, k)
  PROVE  NetInv'
<1>1. /\ apc[t] = "idle" /\ UNCHANGED <<owner, astep, s, closedTwice6>>
      /\ callsMade' = [callsMade EXCEPT ![t] = callsMade[t] + 1]
      /\ \/ UNCHANGED <<acall, addrs, apc>>
         \/ /\ k # 0 /\ acall' = [acall EXCEPT ![t] = c] /\ addrs' = [addrs EXCEPT ![t] = k]
            /\ apc' = [apc EXCEPT ![t] = "script"]
  BY DEF begin_call
<1>2. s[t] = NoFd /\ astep[t] = 1
  BY <1>1 DEF NetInv, Progress, AtStep
<1>3. NetTypes'
  BY <1>1 DEF NetInv, NetTypes
<1>4. AtStep(t)'
  <2>1. CASE UNCHANGED <<acall, addrs, apc>>
    BY <1>1, <2>1 DEF NetInv, Progress, AtStep
  <2>2. CASE ~ UNCHANGED <<acall, addrs, apc>>
    <3>1. apc'[t] = "script" /\ acall'[t] = c /\ addrs'[t] = k /\ k # 0
      BY <1>1, <2>2 DEF NetInv, NetTypes
    <3>2. k >= 1
      BY <3>1, AnetAssumption
    <3>3. 1 \in 1 .. Len(Script(c))
      BY ScriptShape
    <3>4. QED
      BY <1>1, <1>2, <3>1, <3>2, <3>3 DEF AtStep
  <2>3. QED
    BY <2>1, <2>2
<1>5. OnlyOf(t)
  BY <1>1 DEF NetInv, NetTypes, OnlyOf
<1>6. Progress'
  BY <1>3, <1>4, <1>5, OthersAlone DEF OnlyOf
<1>7. Owned'
  <2>1. \A u \in Threads : u # t => apc'[u] = apc[u]
    BY <1>5 DEF OnlyOf
  <2>2. \A u \in Threads : Opened(u)' = Opened(u)
    BY <1>1 DEF Opened
  <2>3. QED
    BY <1>1, <1>2, <2>1, <2>2 DEF NetInv, Owned
<1>8. QED
  BY <1>3, <1>6, <1>7 DEF NetInv

(* The kernel gives out a descriptor nobody has.                              *)
LEMMA OpenStep ==
  ASSUME NetInv, NEW t \in Threads, opens(t)
  PROVE  NetInv'
<1>1. apc[t] = "script" /\ Script(acall[t])[astep[t]] = "socket"
  BY DEF opens, Doing
<1>2. acall[t] \in Calls /\ astep[t] \in 1 .. Len(Script(acall[t])) /\ addrs[t] >= 1
  BY <1>1 DEF NetInv, NetTypes, Progress, AtStep
<1>3. astep[t] = 1 /\ s[t] = NoFd
  <2>1. astep[t] = 1
    BY <1>1, <1>2, ScriptShape
  <2>2. QED
    BY <1>1, <2>1 DEF NetInv, Progress, AtStep
<1>4. PICK f \in Fds : /\ owner[f] = "free" /\ owner' = [owner EXCEPT ![f] = t]
                       /\ s' = [s EXCEPT ![t] = f]
  BY Zenon DEF opens
<1>5. /\ UNCHANGED <<acall, addrs, callsMade, closedTwice6>>
      /\ \/ acall[t] = "Accept" /\ apc' = [apc EXCEPT ![t] = "holds"] /\ UNCHANGED astep
         \/ /\ acall[t] # "Accept" /\ astep' = [astep EXCEPT ![t] = astep[t] + 1]
            /\ UNCHANGED apc
  BY DEF opens
<1>6. NetTypes'
  BY <1>3, <1>4, <1>5 DEF NetInv, NetTypes
<1>7. OnlyOf(t)
  BY <1>4, <1>5 DEF NetInv, NetTypes, OnlyOf
<1>8. s'[t] = f /\ f # NoFd
  BY <1>4, AnetAssumption DEF NetInv, NetTypes
<1>9. AtStep(t)' /\ apc'[t] # "closing"
  <2>1. CASE acall[t] = "Accept"
    BY <1>5, <1>8, <2>1 DEF NetInv, NetTypes, AtStep
  <2>2. CASE acall[t] # "Accept"
    <3>1. apc'[t] = "script" /\ astep'[t] = 2 /\ acall'[t] = acall[t] /\ addrs'[t] = addrs[t]
      BY <1>1, <1>3, <1>5, <2>2 DEF NetInv, NetTypes
    <3>2. 2 \in 1 .. Len(Script(acall[t]))
      <4> DEFINE len == Len(Script(acall[t]))
      <4>1. len \in Nat /\ len >= 1 /\ len # 1
        BY <1>2, <2>2, ScriptShape
      <4> HIDE DEF len
      <4>2. 2 \in 1 .. len
        BY <4>1
      <4>3. QED
        BY <4>2 DEF len
    <3>3. QED
      BY <1>2, <1>8, <3>1, <3>2 DEF AtStep
  <2>3. QED
    BY <2>1, <2>2
<1>10. Progress'
  BY <1>6, <1>7, <1>9, OthersAlone DEF OnlyOf
<1>11. Owned'
  <2> SUFFICES ASSUME ~closedTwice6, NEW u \in Threads
               PROVE  Opened(u)' = IF s'[u] = NoFd \/ apc'[u] = "closing" THEN {} ELSE {s'[u]}
    BY <1>5 DEF Owned
  <2>1. \A g \in Fds : owner'[g] = IF g = f THEN t ELSE owner[g]
    BY <1>4 DEF NetInv, NetTypes
  <2>2. CASE u = t
    <3>1. Opened(t) = {}
      BY <1>3 DEF NetInv, Owned
    <3>2. \A g \in Fds : owner[g] # t
      BY <3>1 DEF Opened
    <3>3. Opened(t)' = {f}
      BY <2>1, <3>2 DEF Opened
    <3>4. QED
      BY <1>8, <1>9, <2>2, <3>3
  <2>3. CASE u # t
    <3>1. Opened(u)' = Opened(u)
      BY <1>4, <2>1, <2>3, AnetAssumption DEF Opened
    <3>2. QED
      BY <1>7, <2>3, <3>1 DEF NetInv, Owned, OnlyOf
  <2>4. QED
    BY <2>2, <2>3
<1>12. QED
  BY <1>6, <1>10, <1>11 DEF NetInv

(* A system call of the script succeeds.                                      *)
LEMMA SucceedStep ==
  ASSUME NetInv, NEW t \in Threads, succeeds(t)
  PROVE  NetInv'
<1> DEFINE len == Len(Script(acall[t]))
<1>1. /\ apc[t] = "script" /\ Script(acall[t])[astep[t]] # "socket"
      /\ UNCHANGED <<owner, acall, s, addrs, callsMade, closedTwice6>>
      /\ \/ apc' = [apc EXCEPT ![t] = "holds"] /\ UNCHANGED astep
         \/ /\ astep[t] # len /\ astep' = [astep EXCEPT ![t] = astep[t] + 1]
            /\ UNCHANGED apc
  BY DEF succeeds
<1>2. /\ acall[t] \in Calls /\ astep[t] \in 1 .. len /\ addrs[t] >= 1
      /\ astep[t] = 1 <=> s[t] = NoFd
  BY <1>1 DEF NetInv, NetTypes, Progress, AtStep
<1>3. len \in Nat /\ len >= 1 /\ Script(acall[t])[1] = "socket"
  <2>1. Len(Script(acall[t])) \in Nat /\ Len(Script(acall[t])) >= 1
    BY <1>2, ScriptShape
  <2>2. 1 \in 1 .. Len(Script(acall[t]))
    BY <1>2, ScriptShape
  <2>3. QED
    BY <1>2, <2>1, <2>2, ScriptShape
<1>4. astep[t] # 1 /\ s[t] # NoFd
  BY <1>1, <1>2, <1>3
<1>5. astep[t] # len => astep[t] + 1 \in 1 .. len /\ astep[t] + 1 # 1
  <2> HIDE DEF len
  <2>1. QED
    BY <1>2, <1>3
<1>6. NetTypes'
  <2>1. astep' \in [Threads -> Nat]
    BY <1>1 DEF NetInv, NetTypes
  <2>2. apc' \in [Threads -> {"idle", "script", "closing", "holds"}]
    BY Zenon, <1>1 DEF NetInv, NetTypes
  <2>3. QED
    BY <1>1, <2>1, <2>2 DEF NetInv, NetTypes
<1>7. OnlyOf(t)
  BY <1>1 DEF NetInv, NetTypes, OnlyOf
<1>8. /\ s'[t] # NoFd /\ apc'[t] \in {"script", "holds"}
      /\ apc'[t] = "script" => astep[t] # len /\ astep'[t] = astep[t] + 1
  BY <1>1, <1>4 DEF NetInv, NetTypes
<1>9. AtStep(t)'
  BY <1>1, <1>2, <1>5, <1>8 DEF AtStep
<1>10. Progress'
  BY <1>6, <1>7, <1>9, OthersAlone DEF OnlyOf
<1>11. Owned'
  <2>1. \A u \in Threads : Opened(u)' = Opened(u) /\ s'[u] = s[u]
    BY <1>1 DEF Opened
  <2>2. \A u \in Threads : apc'[u] = "closing" <=> apc[u] = "closing"
    BY <1>1, <1>7, <1>8 DEF OnlyOf
  <2>3. QED
    BY <1>1, <2>1, <2>2 DEF NetInv, Owned
<1>12. QED
  BY <1>6, <1>10, <1>11 DEF NetInv

(* A call that is past its first step has a socket.                           *)
LEMMA HasSocket ==
  ASSUME NetInv, NEW t \in Threads, apc[t] = "script", Script(acall[t])[astep[t]] # "socket"
  PROVE  s[t] # NoFd
<1>1. acall[t] \in Calls /\ astep[t] \in 1 .. Len(Script(acall[t]))
  BY DEF NetInv, NetTypes, Progress, AtStep
<1>2. astep[t] # 1
  BY <1>1, ScriptShape
<1>3. QED
  BY <1>2 DEF NetInv, Progress, AtStep

(* close keeps the types.                                                     *)
LEMMA CloseTypes ==
  ASSUME NetInv, NEW t \in Threads, Close(t)
  PROVE  owner' \in [Fds -> Threads \cup {"free"}]
  BY Zenon DEF NetInv, NetTypes, Close

(* The steps on which a call fails.                                           *)
LEMMA FailStep ==
  ASSUME NetInv, NEW t \in Threads,
         opens_fails(t) \/ fails(t) \/ connect_fails(t) \/ close_again6(t)
  PROVE  NetInv'
<1>1. callsMade' = callsMade /\ closedTwice6' \in BOOLEAN
  BY Zenon DEF opens_fails, fails, connect_fails, close_again6, NetInv, NetTypes
<1>2. owner' \in [Fds -> Threads \cup {"free"}]
  BY CloseTypes DEF opens_fails, fails, connect_fails, close_again6, NetInv, NetTypes
<1>3. \/ give_up(t) /\ apc[t] \in {"script", "closing"}
      \/ next_addr(t) /\ apc[t] = "script"
  BY DEF opens_fails, fails, connect_fails, close_again6, Doing
<1>4. NetTypes' /\ Progress' /\ s'[t] = NoFd /\ OnlyOf(t)
  BY <1>1, <1>2, <1>3, Restarts
<1>5. Owned'
  <2>1. CASE opens_fails(t)
    <3>1. apc[t] = "script" /\ Script(acall[t])[astep[t]] = "socket" /\ owner' = owner
          /\ closedTwice6' = closedTwice6
      BY <2>1 DEF opens_fails, Doing
    <3>2. s[t] = NoFd
      <4>1. acall[t] \in Calls /\ astep[t] \in 1 .. Len(Script(acall[t]))
        BY <3>1 DEF NetInv, NetTypes, Progress, AtStep
      <4>2. astep[t] = 1
        BY <3>1, <4>1, ScriptShape
      <4>3. QED
        BY <3>1, <4>2 DEF NetInv, Progress, AtStep
    <3>3. \A u \in Threads : Opened(u)' = Opened(u)
      BY <3>1 DEF Opened
    <3>4. QED
      BY <1>4, <3>1, <3>2, <3>3 DEF NetInv, Owned, OnlyOf
  <2>2. CASE fails(t) \/ connect_fails(t)
    <3>1. apc[t] = "script" /\ Script(acall[t])[astep[t]] # "socket" /\ Close(t)
          /\ closedTwice6' = closedTwice6
      BY <2>2 DEF fails, connect_fails, Doing
    <3>2. s[t] # NoFd
      BY <3>1, HasSocket
    <3>3. CASE closedTwice6
      BY <3>1, <3>3 DEF Owned
    <3>4. CASE ~closedTwice6
      BY <1>4, <3>1, <3>2, <3>4, OwnClosed DEF OnlyOf
    <3>5. QED
      BY <3>3, <3>4
  <2>3. CASE close_again6(t)
    BY <2>3 DEF close_again6, Owned
  <2>4. QED
    BY <2>1, <2>2, <2>3
<1>6. QED
  BY <1>4, <1>5 DEF NetInv

(* anetV6Only closes and leaves s; the caller closes what it was given.       *)
LEMMA CloseStep ==
  ASSUME NetInv, NEW t \in Threads, v6only_fails(t) \/ release(t)
  PROVE  NetInv'
<1>1. Close(t) /\ callsMade' = callsMade /\ closedTwice6' = closedTwice6
  BY DEF v6only_fails, release
<1>2. owner' \in [Fds -> Threads \cup {"free"}]
  BY <1>1, CloseTypes
<1>3. \/ /\ apc[t] = "script" /\ Script(acall[t])[astep[t]] = "v6only"
         /\ apc' = [apc EXCEPT ![t] = "closing"] /\ UNCHANGED <<acall, astep, s, addrs>>
      \/ /\ apc[t] = "holds" /\ s' = [s EXCEPT ![t] = NoFd] /\ apc' = [apc EXCEPT ![t] = "idle"]
         /\ acall' = [acall EXCEPT ![t] = "Accept"] /\ addrs' = [addrs EXCEPT ![t] = 0]
         /\ astep' = [astep EXCEPT ![t] = 1]
  BY DEF v6only_fails, release, Doing
<1>4. s[t] # NoFd /\ apc[t] # "closing"
  <2>1. CASE apc[t] = "holds"
    BY <2>1 DEF NetInv, Progress, AtStep
  <2>2. CASE apc[t] = "script" /\ Script(acall[t])[astep[t]] = "v6only"
    BY <2>2, HasSocket
  <2>3. QED
    BY <1>3, <2>1, <2>2
<1>5. NetTypes'
  BY <1>1, <1>2, <1>3, AnetAssumption DEF NetInv, NetTypes, Calls
<1>6. OnlyOf(t)
  BY <1>3 DEF NetInv, NetTypes, OnlyOf
<1>7. \/ apc'[t] = "closing" /\ s'[t] # NoFd /\ acall'[t] = "Tcp6Server"
      \/ apc'[t] = "idle" /\ s'[t] = NoFd /\ astep'[t] = 1
  <2>1. CASE apc[t] = "script" /\ Script(acall[t])[astep[t]] = "v6only"
    <3>1. acall[t] \in Calls /\ astep[t] \in 1 .. Len(Script(acall[t]))
      BY <2>1 DEF NetInv, NetTypes, Progress, AtStep
    <3>2. acall[t] = "Tcp6Server"
      BY <2>1, <3>1, ScriptShape
    <3>3. QED
      BY <1>3, <1>4, <2>1, <3>2 DEF NetInv, NetTypes
  <2>2. CASE apc[t] = "holds"
    BY <1>3, <2>2 DEF NetInv, NetTypes
  <2>3. QED
    BY <1>3, <2>1, <2>2
<1>8. Progress'
  <2>1. AtStep(t)'
    BY <1>7 DEF AtStep
  <2>2. QED
    BY <1>5, <1>6, <2>1, OthersAlone DEF OnlyOf
<1>9. Owned'
  <2>1. CASE closedTwice6
    BY <1>1, <2>1 DEF Owned
  <2>2. CASE ~closedTwice6
    BY <1>1, <1>4, <1>6, <1>7, <2>2, OwnClosed DEF OnlyOf
  <2>3. QED
    BY <2>1, <2>2
<1>10. QED
  BY <1>5, <1>8, <1>9 DEF NetInv

(* Threads that open sockets: whichever system call of a call fails, and      *)
(* however the threads interleave, a thread has exactly the descriptor it     *)
(* knows of open and nobody closed it, until a second close after anetV6Only. *)
(* (every error path of anet.cpp)                                             *)
THEOREM DescriptorsOwned == NetSpec => [](NetTypeOK /\ FdOwned)
<1>1. NetInit => NetInv
  BY NetInitOK
<1>2. NetInv /\ [NetNext]_anetVars => NetInv'
  <2> SUFFICES ASSUME NetInv, [NetNext]_anetVars PROVE NetInv'
    OBVIOUS
  <2>1. CASE UNCHANGED anetVars
    BY <2>1 DEF anetVars, NetInv, NetTypes, Progress, AtStep, Owned, Opened
  <2>2. ASSUME NEW t \in Threads, NEW c \in Calls, NEW k \in 0 .. MaxAddrs, begin_call(t, c, k)
        PROVE  NetInv'
    BY <2>2, BeginStep
  <2>3. ASSUME NEW t \in Threads,
               \/ opens(t) \/ opens_fails(t) \/ succeeds(t) \/ fails(t)
               \/ connect_fails(t) \/ v6only_fails(t) \/ close_again6(t) \/ release(t)
        PROVE  NetInv'
    BY <2>3, OpenStep, SucceedStep, FailStep, CloseStep
  <2>4. QED
    BY <2>1, <2>2, <2>3 DEF NetNext
<1>3. NetInv => NetTypeOK /\ FdOwned
  <2>1. NetInv => NetTypeOK
    BY DEF NetInv, NetTypes, NetTypeOK
  <2>2. NetInv => FdOwned
    BY DEF NetInv, Owned, Opened, FdOwned
  <2>3. QED
    BY <2>1, <2>2
<1>4. QED
  BY <1>1, <1>2, <1>3, PTL DEF NetSpec

-----------------------------------------------------------------------------
(* Requests through the broker (ReqRepBroker)                                 *)

BrokerSpec == BrokerInit /\ [][BrokerNext]_brokerVars

\* Requests and the places they can be at; a worker is a place with what was
\* dealt to it and what it works on.
AllRequests == Requesters \X Nat
Sockets == {"front", "back", "lost"}
Places == ({"socket"} \X Sockets) \cup ({"worker"} \X Workers)

At(x) ==
  IF x[1] = "worker" THEN Range(dealt[x[2]]) \cup working[x[2]]
  ELSE CASE x[2] = "front" -> Range(frontend)
         [] x[2] = "back"  -> Range(backend)
         [] x[2] = "lost"  -> lost

BrokerTypes ==
  /\ cpc \in [Requesters -> {"send", "recv", "done", "dead"}]
  /\ reqNo \in [Requesters -> Nat] /\ replies \in [Requesters -> Seq(Nat)]
  /\ frontend \in Seq(AllRequests) /\ backend \in Seq(AllRequests) /\ lost \subseteq AllRequests
  /\ dealt \in [Workers -> Seq(AllRequests)] /\ working \in [Workers -> SUBSET AllRequests]
  /\ alive \subseteq Workers

\* A queue holds no request twice, and what a worker works on has left its queue.
Once(q) == \A i, j \in DOMAIN q : q[i] = q[j] => i = j
QueuesOnce ==
  /\ Once(frontend) /\ Once(backend)
  /\ \A w \in Workers :
       /\ Once(dealt[w]) /\ working[w] \cap Range(dealt[w]) = {}
       /\ \A r, q \in working[w] : r = q

\* A request is at one place at most.
Apart == \A x, y \in Places : x # y => At(x) \cap At(y) = {}

\* What poll has reported is still there when the broker comes to it.
Reported ==
  /\ bpc = "front" /\ "front" \in revents => frontend # <<>>
  /\ bpc \in {"front", "back"} /\ "back" \in revents => backend # <<>>

\* A request on its way is the one its client waits for, or waited for when it
\* was killed; and the request of a client that waits for an answer not yet
\* there is on its way.
OnTheirWay ==
  \A x \in Places : \A r \in At(x) :
    /\ r[2] = reqNo[r[1]] /\ Len(replies[r[1]]) = reqNo[r[1]]
    /\ cpc[r[1]] \in {"recv", "dead"}

Answers(c) ==
  /\ \A k \in 1 .. Len(replies[c]) : replies[c][k] = k - 1
  /\ Len(replies[c]) \in {reqNo[c], reqNo[c] + 1}
  /\ Len(replies[c]) > reqNo[c] => cpc[c] \in {"recv", "dead"}
  /\ cpc[c] = "recv" /\ Len(replies[c]) = reqNo[c]
       => \E x \in Places : <<c, reqNo[c]>> \in At(x)

BrokerInv ==
  /\ BrokerTypes /\ QueuesOnce /\ Apart /\ Reported /\ OnTheirWay
  /\ \A c \in Requesters : Answers(c)

-----------------------------------------------------------------------------
LEMMA QueueAppend ==
  ASSUME NEW S, NEW q \in Seq(S), NEW e \in S
  PROVE  /\ Append(q, e) \in Seq(S) /\ Append(q, e) # <<>>
         /\ Range(Append(q, e)) = Range(q) \cup {e}
         /\ Once(q) /\ e \notin Range(q) => Once(Append(q, e))
<1>1. /\ Append(q, e) \in Seq(S) /\ Len(Append(q, e)) = Len(q) + 1 /\ Len(q) \in Nat
      /\ DOMAIN Append(q, e) = 1 .. Len(q) + 1 /\ DOMAIN q = 1 .. Len(q)
      /\ Append(q, e)[Len(q) + 1] = e /\ \A i \in 1 .. Len(q) : Append(q, e)[i] = q[i]
  OBVIOUS
<1>2. Append(q, e) # <<>> BY <1>1
<1>3. \A i \in 1 .. Len(q) + 1 : i \in 1 .. Len(q) \/ i = Len(q) + 1 BY <1>1
<1>4. \A i \in 1 .. Len(q) : i \in 1 .. Len(q) + 1 BY <1>1
<1>5. Len(q) + 1 \in 1 .. Len(q) + 1 BY <1>1
<1>6. Range(Append(q, e)) = Range(q) \cup {e} BY <1>1, <1>3, <1>4, <1>5 DEF Range
<1>7. ASSUME Once(q), e \notin Range(q) PROVE Once(Append(q, e))
  <2>1. \A i \in 1 .. Len(q) : q[i] # e BY <1>1, <1>7 DEF Range
  <2> QED BY <1>1, <1>3, <1>7, <2>1 DEF Once
<1> QED BY <1>1, <1>2, <1>6, <1>7

LEMMA QueueTail ==
  ASSUME NEW S, NEW q \in Seq(S), q # <<>>
  PROVE  /\ Head(q) \in S /\ Head(q) \in Range(q) /\ Tail(q) \in Seq(S)
         /\ Once(q) => Range(Tail(q)) = Range(q) \ {Head(q)} /\ Once(Tail(q))
<1>1. /\ Len(q) \in Nat /\ Len(q) > 0 /\ Head(q) = q[1] /\ DOMAIN q = 1 .. Len(q)
      /\ Tail(q) \in Seq(S) /\ DOMAIN Tail(q) = 1 .. Len(q) - 1
      /\ \A i \in 1 .. Len(q) - 1 : Tail(q)[i] = q[i + 1]
      /\ q[1] \in S
  OBVIOUS
<1>2. 1 \in 1 .. Len(q) BY <1>1
<1>3. \A i \in 1 .. Len(q) - 1 : i + 1 \in 1 .. Len(q) /\ i + 1 # 1 BY <1>1
<1>4. \A i \in 1 .. Len(q) : i = 1 \/ (i - 1 \in 1 .. Len(q) - 1 /\ (i - 1) + 1 = i) BY <1>1
<1>5. ASSUME Once(q) PROVE Range(Tail(q)) = Range(q) \ {Head(q)} /\ Once(Tail(q))
  <2>1. Range(Tail(q)) \subseteq Range(q) \ {Head(q)}
    BY <1>1, <1>2, <1>3, <1>5 DEF Range, Once
  <2>2. Range(q) \ {Head(q)} \subseteq Range(Tail(q))
    <3> SUFFICES ASSUME NEW i \in 1 .. Len(q), q[i] # q[1] PROVE q[i] \in Range(Tail(q))
      BY <1>1 DEF Range
    <3>1. i - 1 \in 1 .. Len(q) - 1 /\ Tail(q)[i - 1] = q[i] BY <1>1, <1>4
    <3> QED BY Zenon, <1>1, <3>1 DEF Range
  <2>3. Once(Tail(q))
    <3> SUFFICES ASSUME NEW i \in 1 .. Len(q) - 1, NEW j \in 1 .. Len(q) - 1,
                        Tail(q)[i] = Tail(q)[j]
                 PROVE  i = j
      BY <1>1 DEF Once
    <3>1. q[i + 1] = q[j + 1] BY <1>1
    <3>2. i + 1 = j + 1 BY <1>1, <1>3, <1>5, <3>1 DEF Once
    <3> QED BY <3>2
  <2> QED BY <2>1, <2>2, <2>3
<1> QED BY <1>1, <1>2, <1>5 DEF Range

\* The places, one by one.
FrontPlace == <<"socket", "front">>
BackPlace == <<"socket", "back">>
LostPlace == <<"socket", "lost">>
WorkerPlace(w) == <<"worker", w>>

LEMMA ThePlaces ==
  /\ FrontPlace \in Places /\ BackPlace \in Places /\ LostPlace \in Places
  /\ \A w \in Workers : /\ WorkerPlace(w) \in Places
                        /\ WorkerPlace(w) \notin {FrontPlace, BackPlace, LostPlace}
  /\ \A v, w \in Workers : WorkerPlace(v) = WorkerPlace(w) => v = w
  /\ FrontPlace # BackPlace /\ FrontPlace # LostPlace /\ BackPlace # LostPlace
  /\ \A x \in Places : \/ x \in {FrontPlace, BackPlace, LostPlace}
                       \/ \E w \in Workers : x = WorkerPlace(w)
BY DEF Places, Sockets, FrontPlace, BackPlace, LostPlace, WorkerPlace

LEMMA WhatIsAt ==
  /\ At(FrontPlace) = Range(frontend) /\ At(BackPlace) = Range(backend)
  /\ At(LostPlace) = lost
  /\ \A w \in Workers : At(WorkerPlace(w)) = Range(dealt[w]) \cup working[w]
BY DEF At, FrontPlace, BackPlace, LostPlace, WorkerPlace

LEMMA WhatIsAtNext ==
  /\ At(FrontPlace)' = Range(frontend') /\ At(BackPlace)' = Range(backend')
  /\ At(LostPlace)' = lost'
  /\ \A w \in Workers : At(WorkerPlace(w))' = Range(dealt'[w]) \cup working'[w]
BY DEF At, FrontPlace, BackPlace, LostPlace, WorkerPlace

\* The places that a step leaves alone.
LEMMA PlacesKept ==
  ASSUME NEW xs, \A w \in Workers : WorkerPlace(w) \notin xs
                                      => dealt'[w] = dealt[w] /\ working'[w] = working[w],
         FrontPlace \notin xs => frontend' = frontend,
         BackPlace \notin xs => backend' = backend,
         LostPlace \notin xs => lost' = lost
  PROVE  \A x \in Places \ xs : At(x)' = At(x)
<1> SUFFICES ASSUME NEW x \in Places \ xs PROVE At(x)' = At(x) OBVIOUS
<1>1. CASE x = FrontPlace BY <1>1, WhatIsAt, WhatIsAtNext
<1>2. CASE x = BackPlace BY <1>2, WhatIsAt, WhatIsAtNext
<1>3. CASE x = LostPlace BY <1>3, WhatIsAt, WhatIsAtNext
<1>4. ASSUME NEW w \in Workers, x = WorkerPlace(w) PROVE At(x)' = At(x)
  BY Zenon, <1>4, WhatIsAt, WhatIsAtNext
<1> QED BY <1>1, <1>2, <1>3, <1>4, ThePlaces

-----------------------------------------------------------------------------
\* Requests that go from one place to another, or nowhere: they stay apart, and
\* each is still on its way.
LEMMA Transfer ==
  ASSUME BrokerInv, NEW x \in Places, NEW y \in Places, x # y, NEW R \in SUBSET At(x),
         At(x)' = At(x) \ R, At(y)' = At(y) \cup R,
         \A z \in Places \ {x, y} : At(z)' = At(z),
         UNCHANGED <<cpc, reqNo, replies>>
  PROVE  Apart' /\ OnTheirWay' /\ \A c \in Requesters : Answers(c)'
<1>1. \A z \in Places : \A r : r \in At(z)' => r \in At(z) \/ (z = y /\ r \in R) OBVIOUS
<1>2. \A z \in Places : \A r : r \in At(z) => r \in At(z)' \/ (z = x /\ r \in R) OBVIOUS
<1>3. \A r \in R : r \notin At(x)' /\ \A z \in Places : r \in At(z) => z = x
  BY DEF BrokerInv, Apart
<1>4. Apart'
  <2> SUFFICES ASSUME NEW z1 \in Places, NEW z2 \in Places, z1 # z2, NEW r,
                      r \in At(z1)', r \in At(z2)'
               PROVE  FALSE
    BY DEF Apart
  <2>1. CASE r \in R BY <1>1, <1>3, <2>1
  <2>2. CASE r \notin R BY <1>1, <2>2 DEF BrokerInv, Apart
  <2> QED BY <2>1, <2>2
<1>5. OnTheirWay'
  <2> SUFFICES ASSUME NEW z \in Places, NEW r \in At(z)'
               PROVE  /\ r[2] = reqNo[r[1]] /\ Len(replies[r[1]]) = reqNo[r[1]]
                      /\ cpc[r[1]] \in {"recv", "dead"}
    BY DEF OnTheirWay
  <2>1. \E v \in Places : r \in At(v) BY <1>1
  <2> QED BY <2>1 DEF BrokerInv, OnTheirWay
<1>6. ASSUME NEW c \in Requesters PROVE Answers(c)'
  <2>1. \A r : (\E z \in Places : r \in At(z)) => \E z \in Places : r \in At(z)'
    BY <1>2
  <2> QED BY <2>1 DEF BrokerInv, Answers
<1> QED BY <1>4, <1>5, <1>6

\* A request on its way is one of a client and its current one.
LEMMA RequestAt ==
  ASSUME BrokerInv, NEW x \in Places, NEW r \in At(x)
  PROVE  /\ r \in AllRequests /\ r = <<r[1], reqNo[r[1]]>> /\ r[1] \in Requesters
         /\ Len(replies[r[1]]) = reqNo[r[1]] /\ cpc[r[1]] \in {"recv", "dead"}
<1>1. r \in AllRequests
  <2>1. CASE x = FrontPlace
    BY <2>1, WhatIsAt DEF BrokerInv, BrokerTypes, Range
  <2>2. CASE x = BackPlace
    BY <2>2, WhatIsAt DEF BrokerInv, BrokerTypes, Range
  <2>3. CASE x = LostPlace BY <2>3, WhatIsAt DEF BrokerInv, BrokerTypes
  <2>4. ASSUME NEW w \in Workers, x = WorkerPlace(w) PROVE r \in AllRequests
    <3>1. dealt[w] \in Seq(AllRequests) /\ working[w] \subseteq AllRequests
      BY DEF BrokerInv, BrokerTypes
    <3> QED BY <2>4, <3>1, WhatIsAt DEF Range
  <2> QED BY <2>1, <2>2, <2>3, <2>4, ThePlaces
<1>2. r[2] = reqNo[r[1]] /\ Len(replies[r[1]]) = reqNo[r[1]] /\ cpc[r[1]] \in {"recv", "dead"}
  BY DEF BrokerInv, OnTheirWay
<1> QED BY <1>1, <1>2 DEF AllRequests

LEMMA BrokerInitInv == BrokerInit => BrokerInv
<1> SUFFICES ASSUME BrokerInit PROVE BrokerInv OBVIOUS
<1>1. BrokerTypes BY DEF BrokerInit, BrokerTypes
<1>2. QueuesOnce BY DEF BrokerInit, QueuesOnce, Once, Range
<1>3. \A x \in Places : At(x) = {}
  <2>1. Range(<<>>) = {} BY DEF Range
  <2>2. \A w \in Workers : Range(dealt[w]) \cup working[w] = {} BY <2>1 DEF BrokerInit
  <2> QED BY <2>1, <2>2, ThePlaces, WhatIsAt DEF BrokerInit
<1>4. Apart /\ OnTheirWay BY <1>3 DEF Apart, OnTheirWay
<1>5. Reported BY DEF BrokerInit, Reported
<1>6. \A c \in Requesters : Answers(c) BY DEF BrokerInit, Answers
<1> QED BY <1>1, <1>2, <1>4, <1>5, <1>6 DEF BrokerInv

\* A client that sends has no request on its way: the new one is alone.
LEMMA SendInv == ASSUME BrokerInv, NEW c \in Requesters, requester_send(c) PROVE BrokerInv'
<1> DEFINE r == <<c, reqNo[c]>>
<1>0. /\ cpc[c] = "send" /\ cpc' = [cpc EXCEPT ![c] = "recv"] /\ frontend' = Append(frontend, r)
      /\ UNCHANGED <<reqNo, backend, dealt, working, alive, bpc, revents, replies, lost>>
  BY DEF requester_send
<1>t. BrokerTypes BY DEF BrokerInv
<1>1. r \in AllRequests /\ frontend \in Seq(AllRequests) BY <1>t DEF BrokerTypes, AllRequests
<1>2. \A x \in Places : \A q \in At(x) : q[1] # c BY <1>0, RequestAt
<1>3. \A x \in Places : r \notin At(x) BY <1>2
<1>a. r \notin Range(frontend) BY <1>3, ThePlaces, WhatIsAt
<1> HIDE DEF r
<1>4. /\ frontend' \in Seq(AllRequests) /\ frontend' # <<>>
      /\ Range(frontend') = Range(frontend) \cup {r}
      /\ Once(frontend) => Once(frontend')
  BY <1>0, <1>1, <1>a, QueueAppend
<1>5. BrokerTypes' BY <1>0, <1>t, <1>4 DEF BrokerTypes
<1>6. QueuesOnce' BY <1>0, <1>4 DEF BrokerInv, QueuesOnce
<1>7. Reported' BY <1>0, <1>4 DEF BrokerInv, Reported
<1>8. At(FrontPlace)' = At(FrontPlace) \cup {r} BY <1>4, WhatIsAt, WhatIsAtNext
<1>9. \A x \in Places \ {FrontPlace} : At(x)' = At(x) BY Zenon, <1>0, PlacesKept, ThePlaces
<1>10. \A x \in Places : \A q : q \in At(x)' => q \in At(x) \/ (x = FrontPlace /\ q = r)
  BY <1>8, <1>9
<1>11. Apart'
  <2> SUFFICES ASSUME NEW x \in Places, NEW y \in Places, x # y, NEW q,
                      q \in At(x)', q \in At(y)'
               PROVE  FALSE
    BY DEF Apart
  <2> QED BY <1>3, <1>10 DEF BrokerInv, Apart
<1>12. OnTheirWay' /\ \A d \in Requesters : Answers(d)'
  <2>1. c \in Requesters /\ cpc'[c] = "recv" /\ Len(replies[c]) = reqNo[c]
    <3>1. Len(replies[c]) \in {reqNo[c], reqNo[c] + 1}
          /\ (Len(replies[c]) > reqNo[c] => cpc[c] \in {"recv", "dead"}) /\ reqNo[c] \in Nat
      BY Zenon, <1>t DEF BrokerInv, Answers, BrokerTypes
    <3> QED BY <1>0, <1>t, <3>1 DEF BrokerTypes
  <2>2. \A d \in Requesters : d # c => cpc'[d] = cpc[d] BY <1>0, <1>t DEF BrokerTypes
  <2>3. OnTheirWay'
    <3> SUFFICES ASSUME NEW x \in Places, NEW q \in At(x)'
                 PROVE  /\ q[2] = reqNo[q[1]] /\ Len(replies[q[1]]) = reqNo[q[1]]
                        /\ cpc'[q[1]] \in {"recv", "dead"}
      BY <1>0 DEF OnTheirWay
    <3>1. CASE q = r BY <2>1, <3>1 DEF r
    <3>2. CASE q # r
      <4>1. q \in At(x) BY <1>10, <3>2
      <4>2. q[1] \in Requesters /\ q[1] # c BY <1>2, <4>1, RequestAt
      <4> QED BY <2>2, <4>1, <4>2 DEF BrokerInv, OnTheirWay
    <3> QED BY <3>1, <3>2
  <2>4. ASSUME NEW d \in Requesters PROVE Answers(d)'
    <3>1. CASE d = c
      <4>1. r \in At(FrontPlace)' BY <1>8
      <4> QED BY <1>0, <2>1, <3>1, <4>1, ThePlaces DEF BrokerInv, Answers, r
    <3>2. CASE d # c
      <4>1. \A x \in Places : At(x) \subseteq At(x)' BY <1>8, <1>9
      <4> QED BY <1>0, <2>2, <3>2, <4>1 DEF BrokerInv, Answers
    <3> QED BY <3>1, <3>2
  <2> QED BY <2>3, <2>4
<1> QED BY <1>5, <1>6, <1>7, <1>11, <1>12 DEF BrokerInv

\* A client that has its answer has no request on its way.
LEMMA RecvInv == ASSUME BrokerInv, NEW c \in Requesters, requester_recv(c) PROVE BrokerInv'
<1>0. /\ cpc[c] = "recv" /\ Len(replies[c]) > reqNo[c]
      /\ reqNo' = [reqNo EXCEPT ![c] = reqNo[c] + 1]
      /\ cpc' = [cpc EXCEPT ![c] = IF reqNo'[c] = Requests THEN "done" ELSE "send"]
      /\ UNCHANGED <<frontend, backend, dealt, working, alive, bpc, revents, replies, lost>>
  BY DEF requester_recv
<1>t. BrokerTypes BY DEF BrokerInv
<1>1. BrokerTypes' BY <1>0, <1>t DEF BrokerTypes
<1>2. QueuesOnce' /\ Reported' BY <1>0 DEF BrokerInv, QueuesOnce, Reported
<1>3. \A x \in Places : At(x)' = At(x) BY <1>0, PlacesKept
<1>4. Apart' BY <1>3 DEF BrokerInv, Apart
<1>5. /\ reqNo[c] \in Nat /\ Len(replies[c]) = reqNo[c] + 1 /\ Answers(c)
      /\ reqNo'[c] = reqNo[c] + 1 /\ cpc'[c] \in {"done", "send"}
  <2>1. Answers(c) BY DEF BrokerInv
  <2>2. reqNo[c] \in Nat /\ reqNo'[c] = reqNo[c] + 1 /\ cpc'[c] \in {"done", "send"}
    BY <1>0, <1>t DEF BrokerTypes
  <2> QED BY <1>0, <2>1, <2>2 DEF Answers
<1>6. \A d \in Requesters : d # c => cpc'[d] = cpc[d] /\ reqNo'[d] = reqNo[d]
  BY <1>0, <1>t DEF BrokerTypes
<1>7. OnTheirWay'
  <2> SUFFICES ASSUME NEW x \in Places, NEW q \in At(x)
               PROVE  /\ q[2] = reqNo'[q[1]] /\ Len(replies[q[1]]) = reqNo'[q[1]]
                      /\ cpc'[q[1]] \in {"recv", "dead"}
    BY <1>0, <1>3 DEF OnTheirWay
  <2>1. q[1] \in Requesters /\ q[1] # c BY <1>5, RequestAt
  <2> QED BY <1>6, <2>1 DEF BrokerInv, OnTheirWay
<1>8. ASSUME NEW d \in Requesters PROVE Answers(d)'
  <2>1. CASE d = c
    <3>1. \A k \in 1 .. Len(replies[c]) : replies[c][k] = k - 1 BY <1>5 DEF Answers
    <3>2. ~(Len(replies[c]) > reqNo'[c]) /\ Len(replies'[c]) = reqNo'[c] BY <1>0, <1>5
    <3> QED BY <1>0, <1>5, <2>1, <3>1, <3>2 DEF Answers
  <2>2. CASE d # c BY <1>0, <1>3, <1>6, <2>2 DEF BrokerInv, Answers
  <2> QED BY <2>1, <2>2
<1> QED BY <1>1, <1>2, <1>4, <1>7, <1>8 DEF BrokerInv

\* Nothing moves.
LEMMA PollInv == ASSUME BrokerInv, broker_poll PROVE BrokerInv'
<1>0. /\ UNCHANGED <<cpc, reqNo, frontend, backend, dealt, working, alive, replies, lost>>
      /\ revents' = {x \in {"front", "back"} :
                       IF x = "front" THEN frontend # <<>> ELSE backend # <<>>}
  BY DEF broker_poll
<1>1. \A x \in Places : At(x)' = At(x) BY Zenon, <1>0, PlacesKept
<1>2. BrokerTypes' /\ QueuesOnce' /\ Apart' /\ OnTheirWay'
  BY <1>0, <1>1 DEF BrokerInv, BrokerTypes, QueuesOnce, Apart, OnTheirWay
<1>3. Reported' BY <1>0 DEF Reported
<1>4. \A c \in Requesters : Answers(c)' BY <1>0, <1>1 DEF BrokerInv, Answers
<1> QED BY <1>2, <1>3, <1>4 DEF BrokerInv

LEMMA KillRequesterInv ==
  ASSUME BrokerInv, NEW c \in Requesters, kill_requester(c) PROVE BrokerInv'
<1>0. /\ cpc[c] \in {"send", "recv"} /\ cpc' = [cpc EXCEPT ![c] = "dead"]
      /\ UNCHANGED <<reqNo, frontend, backend, dealt, working, alive, bpc, revents, replies,
                     lost>>
  BY DEF kill_requester
<1>t. BrokerTypes BY DEF BrokerInv
<1>1. \A x \in Places : At(x)' = At(x) BY Zenon, <1>0, PlacesKept
<1>2. BrokerTypes' BY <1>0, <1>t DEF BrokerTypes
<1>3. QueuesOnce' /\ Apart' /\ Reported'
  BY <1>0, <1>1 DEF BrokerInv, QueuesOnce, Apart, Reported
<1>4. \A d \in Requesters : cpc'[d] = IF d = c THEN "dead" ELSE cpc[d]
  BY <1>0, <1>t DEF BrokerTypes
<1>5. OnTheirWay'
  <2> SUFFICES ASSUME NEW x \in Places, NEW q \in At(x)
               PROVE  /\ q[2] = reqNo[q[1]] /\ Len(replies[q[1]]) = reqNo[q[1]]
                      /\ cpc'[q[1]] \in {"recv", "dead"}
    BY <1>0, <1>1 DEF OnTheirWay
  <2>1. q[1] \in Requesters BY RequestAt
  <2> QED BY <1>4, <2>1 DEF BrokerInv, OnTheirWay
<1>6. \A d \in Requesters : Answers(d)' BY <1>0, <1>1, <1>4 DEF BrokerInv, Answers
<1> QED BY <1>2, <1>3, <1>5, <1>6 DEF BrokerInv

\* The first request goes from the frontend to the queue of a worker.
LEMMA FrontInv == ASSUME BrokerInv, broker_front PROVE BrokerInv'
<1>0. /\ bpc = "front" /\ bpc' = "back"
      /\ UNCHANGED <<cpc, reqNo, backend, working, alive, revents, replies, lost>>
  BY DEF broker_front
<1>t. BrokerTypes BY DEF BrokerInv
<1>r. Reported' BY <1>0 DEF BrokerInv, Reported
<1>1. CASE "front" \notin revents
  <2>1. UNCHANGED <<frontend, dealt>> BY <1>1 DEF broker_front
  <2>2. \A x \in Places : At(x)' = At(x) BY Zenon, <1>0, <2>1, PlacesKept
  <2>3. BrokerTypes' /\ QueuesOnce' /\ Apart' /\ OnTheirWay'
    BY <1>0, <2>1, <2>2 DEF BrokerInv, BrokerTypes, QueuesOnce, Apart, OnTheirWay
  <2>4. \A c \in Requesters : Answers(c)' BY <1>0, <2>2 DEF BrokerInv, Answers
  <2> QED BY <1>r, <2>3, <2>4 DEF BrokerInv
<1>2. CASE "front" \in revents
  <2>1. PICK w \in alive : /\ dealt' = [dealt EXCEPT ![w] = Append(dealt[w], Head(frontend))]
                           /\ frontend' = Tail(frontend)
    BY <1>2 DEF broker_front
  <2>2. /\ w \in Workers /\ frontend \in Seq(AllRequests) /\ dealt[w] \in Seq(AllRequests)
        /\ frontend # <<>> /\ Once(frontend) /\ Once(dealt[w])
    BY <1>0, <1>2, <1>t DEF BrokerTypes, BrokerInv, Reported, QueuesOnce
  <2>3. PICK r \in AllRequests : r = Head(frontend) BY <2>2, QueueTail
  <2>4. /\ r \in Range(frontend) /\ Tail(frontend) \in Seq(AllRequests)
        /\ Range(Tail(frontend)) = Range(frontend) \ {r} /\ Once(Tail(frontend))
    BY <2>2, <2>3, QueueTail
  <2>5. r \in At(FrontPlace) /\ r \notin At(WorkerPlace(w)) /\ r \notin At(BackPlace)
    <3>1. r \in At(FrontPlace) BY <2>4, WhatIsAt
    <3> QED BY <2>2, <3>1, ThePlaces DEF BrokerInv, Apart
  <2>6. r \notin Range(dealt[w]) /\ r \notin working[w] BY <2>2, <2>5, WhatIsAt
  <2>7. /\ Append(dealt[w], r) \in Seq(AllRequests) /\ Once(Append(dealt[w], r))
        /\ Range(Append(dealt[w], r)) = Range(dealt[w]) \cup {r}
    BY <2>2, <2>6, QueueAppend
  <2>8. \A v \in Workers : dealt'[v] = IF v = w THEN Append(dealt[w], r) ELSE dealt[v]
    BY <1>t, <2>1, <2>3 DEF BrokerTypes
  <2>9. BrokerTypes'
    <3>1. dealt' \in [Workers -> Seq(AllRequests)] BY <1>t, <2>1, <2>3, <2>7 DEF BrokerTypes
    <3> QED BY <1>0, <1>t, <2>1, <2>4, <3>1 DEF BrokerTypes
  <2>10. QueuesOnce'
    BY <1>0, <2>1, <2>4, <2>6, <2>7, <2>8 DEF BrokerInv, QueuesOnce
  <2>11. At(FrontPlace)' = At(FrontPlace) \ {r}
    BY <2>1, <2>4, WhatIsAt, WhatIsAtNext
  <2>12. At(WorkerPlace(w))' = At(WorkerPlace(w)) \cup {r}
    BY <1>0, <2>2, <2>7, <2>8, WhatIsAt, WhatIsAtNext
  <2>13. \A z \in Places \ {FrontPlace, WorkerPlace(w)} : At(z)' = At(z)
    BY Zenon, <1>0, <2>2, <2>8, PlacesKept, ThePlaces
  <2>14. /\ FrontPlace \in Places /\ WorkerPlace(w) \in Places /\ FrontPlace # WorkerPlace(w)
         /\ {r} \in SUBSET At(FrontPlace)
    BY <2>2, <2>5, ThePlaces
  <2>15. Apart' /\ OnTheirWay' /\ \A c \in Requesters : Answers(c)'
    BY Zenon, <1>0, <2>11, <2>12, <2>13, <2>14, Transfer
  <2> QED BY <1>r, <2>9, <2>10, <2>15 DEF BrokerInv
<1> QED BY <1>1, <1>2

\* A worker takes a request from its queue, which changes nothing of where it is.
LEMMA WorkerRecvInv == ASSUME BrokerInv, NEW w \in Workers, worker_recv(w) PROVE BrokerInv'
<1>0. /\ working[w] = {} /\ dealt[w] # <<>>
      /\ working' = [working EXCEPT ![w] = {Head(dealt[w])}]
      /\ dealt' = [dealt EXCEPT ![w] = Tail(dealt[w])]
      /\ UNCHANGED <<cpc, reqNo, frontend, backend, alive, bpc, revents, replies, lost>>
  BY DEF worker_recv
<1>t. BrokerTypes BY DEF BrokerInv
<1>1. dealt[w] \in Seq(AllRequests) /\ Once(dealt[w])
  BY <1>t DEF BrokerTypes, BrokerInv, QueuesOnce
<1>2. /\ Head(dealt[w]) \in AllRequests /\ Head(dealt[w]) \in Range(dealt[w])
      /\ Tail(dealt[w]) \in Seq(AllRequests) /\ Once(Tail(dealt[w]))
      /\ Range(Tail(dealt[w])) = Range(dealt[w]) \ {Head(dealt[w])}
  BY <1>0, <1>1, QueueTail
<1>3. \A v \in Workers : /\ dealt'[v] = IF v = w THEN Tail(dealt[w]) ELSE dealt[v]
                         /\ working'[v] = IF v = w THEN {Head(dealt[w])} ELSE working[v]
  BY <1>0, <1>t DEF BrokerTypes
<1>4. BrokerTypes'
  <2>1. /\ dealt' \in [Workers -> Seq(AllRequests)]
        /\ working' \in [Workers -> SUBSET AllRequests]
    BY <1>0, <1>t, <1>2 DEF BrokerTypes
  <2> QED BY <1>0, <1>t, <2>1 DEF BrokerTypes
<1>5. QueuesOnce' BY <1>0, <1>2, <1>3 DEF BrokerInv, QueuesOnce
<1>6. \A x \in Places : At(x)' = At(x)
  <2>1. \A v \in Workers : WorkerPlace(v) \notin {WorkerPlace(w)}
                             => dealt'[v] = dealt[v] /\ working'[v] = working[v]
    BY <1>3
  <2>2. \A x \in Places \ {WorkerPlace(w)} : At(x)' = At(x)
    BY Zenon, <1>0, <2>1, PlacesKept
  <2>3. dealt'[w] = Tail(dealt[w]) /\ working'[w] = {Head(dealt[w])} BY <1>3
  <2>4. Range(dealt'[w]) \cup working'[w] = Range(dealt[w]) \cup working[w]
    BY <1>0, <1>2, <2>3
  <2>5. At(WorkerPlace(w))' = At(WorkerPlace(w)) BY Zenon, <2>4, WhatIsAt, WhatIsAtNext
  <2> QED BY <2>2, <2>5
<1>7. Apart' /\ OnTheirWay' /\ Reported'
  BY <1>0, <1>6 DEF BrokerInv, Apart, OnTheirWay, Reported
<1>8. \A c \in Requesters : Answers(c)' BY <1>0, <1>6 DEF BrokerInv, Answers
<1> QED BY <1>4, <1>5, <1>7, <1>8 DEF BrokerInv

\* A worker answers: the request goes to the backend.
LEMMA WorkerSendInv == ASSUME BrokerInv, NEW w \in Workers, worker_send(w) PROVE BrokerInv'
<1>0. PICK r \in working[w] :
        /\ backend' = Append(backend, r) /\ working' = [working EXCEPT ![w] = {}]
        /\ UNCHANGED <<cpc, reqNo, frontend, dealt, alive, bpc, revents, replies, lost>>
  BY DEF worker_send
<1>t. BrokerTypes BY DEF BrokerInv
<1>1. /\ r \in AllRequests /\ backend \in Seq(AllRequests) /\ Once(backend)
      /\ working[w] = {r} /\ r \notin Range(dealt[w])
  BY <1>t DEF BrokerTypes, BrokerInv, QueuesOnce
<1>2. r \in At(WorkerPlace(w)) BY WhatIsAt
<1>3. r \notin At(BackPlace) BY <1>2, ThePlaces DEF BrokerInv, Apart
<1>4. r \notin Range(backend) BY <1>3, WhatIsAt
<1>5. /\ backend' \in Seq(AllRequests) /\ backend' # <<>> /\ Once(backend')
      /\ Range(backend') = Range(backend) \cup {r}
  BY <1>0, <1>1, <1>4, QueueAppend
<1>6. \A v \in Workers : working'[v] = IF v = w THEN {} ELSE working[v]
  BY <1>0, <1>t DEF BrokerTypes
<1>7. BrokerTypes'
  <2>1. working' \in [Workers -> SUBSET AllRequests] BY <1>0, <1>t DEF BrokerTypes
  <2> QED BY <1>0, <1>t, <1>5, <2>1 DEF BrokerTypes
<1>8. QueuesOnce' BY <1>0, <1>5, <1>6 DEF BrokerInv, QueuesOnce
<1>9. Reported' BY <1>0, <1>5 DEF BrokerInv, Reported
<1>10. At(WorkerPlace(w))' = At(WorkerPlace(w)) \ {r}
  BY <1>0, <1>1, <1>6, WhatIsAt, WhatIsAtNext
<1>11. At(BackPlace)' = At(BackPlace) \cup {r} BY <1>5, WhatIsAt, WhatIsAtNext
<1>12. \A z \in Places \ {WorkerPlace(w), BackPlace} : At(z)' = At(z)
  BY ZenonT(30), <1>0, <1>6, PlacesKept, ThePlaces
<1>13. /\ WorkerPlace(w) \in Places /\ BackPlace \in Places /\ WorkerPlace(w) # BackPlace
       /\ {r} \in SUBSET At(WorkerPlace(w))
  BY <1>2, ThePlaces
<1>14. Apart' /\ OnTheirWay' /\ \A c \in Requesters : Answers(c)'
  BY Zenon, <1>0, <1>10, <1>11, <1>12, <1>13, Transfer
<1> QED BY <1>7, <1>8, <1>9, <1>14 DEF BrokerInv

\* What a worker has is lost with it.
LEMMA KillWorkerInv == ASSUME BrokerInv, NEW w \in Workers, kill_worker(w) PROVE BrokerInv'
<1>0. /\ alive' = alive \ {w} /\ lost' = lost \cup working[w] \cup Range(dealt[w])
      /\ dealt' = [dealt EXCEPT ![w] = <<>>] /\ working' = [working EXCEPT ![w] = {}]
      /\ UNCHANGED <<cpc, reqNo, frontend, backend, bpc, revents, replies>>
  BY DEF kill_worker
<1>t. BrokerTypes BY DEF BrokerInv
<1>1. \A v \in Workers : /\ dealt'[v] = IF v = w THEN <<>> ELSE dealt[v]
                         /\ working'[v] = IF v = w THEN {} ELSE working[v]
  BY <1>0, <1>t DEF BrokerTypes
<1>2. Range(<<>>) = {} /\ Once(<<>>) BY DEF Range, Once
<1>3. dealt[w] \in Seq(AllRequests) /\ Range(dealt[w]) \subseteq AllRequests
  BY <1>t DEF BrokerTypes, Range
<1>4. BrokerTypes'
  <2>1. /\ dealt' \in [Workers -> Seq(AllRequests)]
        /\ working' \in [Workers -> SUBSET AllRequests] /\ lost' \subseteq AllRequests
    BY <1>0, <1>t, <1>3 DEF BrokerTypes
  <2> QED BY <1>0, <1>t, <2>1 DEF BrokerTypes
<1>5. QueuesOnce' BY <1>0, <1>1, <1>2 DEF BrokerInv, QueuesOnce
<1>6. Reported' BY <1>0 DEF BrokerInv, Reported
<1> DEFINE R == At(WorkerPlace(w))
<1>7. At(WorkerPlace(w))' = At(WorkerPlace(w)) \ R
  <2>1. At(WorkerPlace(w))' = {} BY <1>1, <1>2, WhatIsAtNext
  <2> QED BY <2>1
<1>8. At(LostPlace)' = At(LostPlace) \cup R BY <1>0, WhatIsAt, WhatIsAtNext
<1>9. \A z \in Places \ {WorkerPlace(w), LostPlace} : At(z)' = At(z)
  <2>1. \A v \in Workers : WorkerPlace(v) \notin {WorkerPlace(w), LostPlace}
                             => dealt'[v] = dealt[v] /\ working'[v] = working[v]
    BY <1>1
  <2> QED BY Zenon, <1>0, <2>1, PlacesKept, ThePlaces
<1>10. /\ WorkerPlace(w) \in Places /\ LostPlace \in Places /\ WorkerPlace(w) # LostPlace
       /\ R \in SUBSET At(WorkerPlace(w))
  BY ThePlaces
<1> HIDE DEF R
<1>11. Apart' /\ OnTheirWay' /\ \A c \in Requesters : Answers(c)'
  BY Zenon, <1>0, <1>7, <1>8, <1>9, <1>10, Transfer
<1> QED BY <1>4, <1>5, <1>6, <1>11 DEF BrokerInv


\* The first reply leaves the backend, and the client that waits for it has it.
LEMMA BackInv == ASSUME BrokerInv, broker_back PROVE BrokerInv'
<1>0. /\ bpc = "back" /\ bpc' = "poll" /\ revents' = {}
      /\ UNCHANGED <<cpc, reqNo, frontend, dealt, working, alive, lost>>
  BY DEF broker_back
<1>t. BrokerTypes BY DEF BrokerInv
<1>r. Reported' BY <1>0 DEF Reported
<1>1. CASE "back" \notin revents
  <2>1. UNCHANGED <<backend, replies>> BY <1>1 DEF broker_back
  <2>2. \A x \in Places : At(x)' = At(x) BY <1>0, <2>1, PlacesKept
  <2>3. BrokerTypes' /\ QueuesOnce' /\ Apart' /\ OnTheirWay'
    BY <1>0, <2>1, <2>2 DEF BrokerInv, BrokerTypes, QueuesOnce, Apart, OnTheirWay
  <2>4. \A c \in Requesters : Answers(c)' BY <1>0, <2>1, <2>2 DEF BrokerInv, Answers
  <2> QED BY <1>r, <2>3, <2>4 DEF BrokerInv
<1>2. CASE "back" \in revents
  <2>1. backend # <<>> /\ backend \in Seq(AllRequests) /\ Once(backend)
    BY <1>0, <1>2, <1>t DEF BrokerTypes, BrokerInv, Reported, QueuesOnce
  <2>2. PICK r \in AllRequests : r = Head(backend) BY <2>1, QueueTail
  <2>3. /\ r \in Range(backend) /\ Tail(backend) \in Seq(AllRequests)
        /\ Range(Tail(backend)) = Range(backend) \ {r} /\ Once(Tail(backend))
    BY <2>1, <2>2, QueueTail
  <2>4. PICK c \in Requesters : c = r[1] BY DEF AllRequests
  <2>5. r \in At(BackPlace) BY <2>3, WhatIsAt
  <2>6. /\ r = <<c, reqNo[c]>> /\ Len(replies[c]) = reqNo[c] /\ cpc[c] \in {"recv", "dead"}
    BY <2>4, <2>5, RequestAt, ThePlaces
  <2>7. /\ backend' = Tail(backend)
        /\ replies' = IF cpc[c] = "dead" THEN replies
                      ELSE [replies EXCEPT ![c] = Append(replies[c], reqNo[c])]
    <3>1. Head(backend)[1] = c /\ Head(backend)[2] = reqNo[c] BY <2>2, <2>6
    <3> QED BY <1>2, <3>1 DEF broker_back
  <2>8. At(BackPlace)' = At(BackPlace) \ {r} BY <2>3, <2>7, WhatIsAt, WhatIsAtNext
  <2>9. \A x \in Places \ {BackPlace} : At(x)' = At(x) BY Zenon, <1>0, PlacesKept, ThePlaces
  <2>10. \A x \in Places : At(x)' \subseteq At(x) BY <2>8, <2>9
  <2>11. \A x \in Places : \A q \in At(x)' : q[1] \in Requesters /\ q[1] # c
    <3> SUFFICES ASSUME NEW x \in Places, NEW q \in At(x)' PROVE q[1] \in Requesters /\ q[1] # c
      OBVIOUS
    <3>1. q \in At(x) BY <2>10
    <3>2. q[1] \in Requesters /\ q = <<q[1], reqNo[q[1]]>> BY <3>1, RequestAt
    <3>3. q # r
      <4>1. CASE x = BackPlace BY <2>8, <4>1
      <4>2. CASE x # BackPlace BY <2>5, <3>1, <4>2, ThePlaces DEF BrokerInv, Apart
      <4> QED BY <4>1, <4>2
    <3> QED BY <2>6, <3>2, <3>3
  <2>12. \A d \in Requesters : d # c => replies'[d] = replies[d] BY <1>t, <2>7 DEF BrokerTypes
  <2>13. reqNo[c] \in Nat /\ replies[c] \in Seq(Nat) BY <1>t DEF BrokerTypes
  <2>14. BrokerTypes'
    <3>1. replies' \in [Requesters -> Seq(Nat)] BY <1>t, <2>7, <2>13 DEF BrokerTypes
    <3> QED BY <1>0, <1>t, <2>3, <2>7, <3>1 DEF BrokerTypes
  <2>15. QueuesOnce' BY <1>0, <2>3, <2>7 DEF BrokerInv, QueuesOnce
  <2>16. Apart' BY <2>10 DEF BrokerInv, Apart
  <2>17. OnTheirWay'
    <3> SUFFICES ASSUME NEW x \in Places, NEW q \in At(x)'
                 PROVE  /\ q[2] = reqNo[q[1]] /\ Len(replies'[q[1]]) = reqNo[q[1]]
                        /\ cpc[q[1]] \in {"recv", "dead"}
      BY <1>0 DEF OnTheirWay
    <3>1. q \in At(x) /\ q[1] \in Requesters /\ q[1] # c BY <2>10, <2>11
    <3>2. replies'[q[1]] = replies[q[1]] BY <2>12, <3>1
    <3> QED BY <3>1, <3>2 DEF BrokerInv, OnTheirWay
  <2>18. ASSUME NEW d \in Requesters PROVE Answers(d)'
    <3>a. Answers(d) BY DEF BrokerInv
    <3>1. CASE d # c
      <4>1. \A x \in Places : <<d, reqNo[d]>> \in At(x) => <<d, reqNo[d]>> \in At(x)'
        <5>1. <<d, reqNo[d]>> # r BY <2>6, <3>1
        <5> QED BY <2>8, <2>9, <5>1
      <4> QED BY <1>0, <2>12, <3>1, <3>a, <4>1 DEF Answers
    <3>2. CASE d = c /\ cpc[c] = "dead"
      <4>1. replies' = replies BY <2>7, <3>2
      <4> QED BY <1>0, <3>2, <3>a, <4>1 DEF Answers
    <3>3. CASE d = c /\ cpc[c] # "dead"
      <4>1. replies'[c] = Append(replies[c], reqNo[c]) BY <1>t, <2>7, <3>3 DEF BrokerTypes
      <4>2. /\ Len(replies'[c]) = reqNo[c] + 1
            /\ \A k \in 1 .. Len(replies[c]) : replies'[c][k] = replies[c][k]
            /\ replies'[c][reqNo[c] + 1] = reqNo[c]
        BY <2>6, <2>13, <4>1
      <4>3. \A k \in 1 .. Len(replies'[c]) : replies'[c][k] = k - 1
        <5> SUFFICES ASSUME NEW k \in 1 .. reqNo[c] + 1 PROVE replies'[c][k] = k - 1
          BY <4>2
        <5>1. CASE k = reqNo[c] + 1 BY <2>13, <4>2, <5>1
        <5>2. CASE k # reqNo[c] + 1
          <6>1. k \in 1 .. Len(replies[c]) BY <2>6, <2>13, <5>2
          <6> QED BY <3>3, <3>a, <4>2, <6>1 DEF Answers
        <5> QED BY <5>1, <5>2
      <4>4. reqNo'[c] = reqNo[c] /\ cpc'[c] = "recv" BY <1>0, <2>6, <3>3
      <4>5. Len(replies'[c]) # reqNo'[c] BY <2>13, <4>2, <4>4
      <4> QED BY Zenon, <2>13, <3>3, <4>2, <4>3, <4>4, <4>5 DEF Answers
    <3> QED BY <3>1, <3>2, <3>3
  <2> QED BY <1>r, <2>14, <2>15, <2>16, <2>17, <2>18 DEF BrokerInv
<1> QED BY <1>1, <1>2

LEMMA BrokerNextInv == BrokerInv /\ [BrokerNext]_brokerVars => BrokerInv'
<1> SUFFICES ASSUME BrokerInv, [BrokerNext]_brokerVars PROVE BrokerInv' OBVIOUS
<1>1. CASE brokerStep BY <1>1, PollInv, FrontInv, BackInv DEF brokerStep
<1>2. ASSUME NEW c \in Requesters, requester(c) \/ kill_requester(c) PROVE BrokerInv'
  BY <1>2, SendInv, RecvInv, KillRequesterInv DEF requester
<1>3. ASSUME NEW w \in Workers, worker(w) \/ kill_worker(w) PROVE BrokerInv'
  BY <1>3, WorkerRecvInv, WorkerSendInv, KillWorkerInv DEF worker
<1>4. CASE UNCHANGED brokerVars
  <2>1. \A x \in Places : At(x)' = At(x) BY Zenon, <1>4, PlacesKept DEF brokerVars
  <2>2. BrokerTypes' /\ QueuesOnce' /\ Apart' /\ OnTheirWay' /\ Reported'
    BY <1>4, <2>1
    DEF brokerVars, BrokerInv, BrokerTypes, QueuesOnce, Apart, OnTheirWay, Reported
  <2>3. \A c \in Requesters : Answers(c)' BY <1>4, <2>1 DEF brokerVars, BrokerInv, Answers
  <2> QED BY <2>2, <2>3 DEF BrokerInv
<1> QED BY <1>1, <1>2, <1>3, <1>4 DEF BrokerNext

\* A request that is at one place is counted once, one that is at none not at all.
LEMMA CountedOnce ==
  ASSUME BrokerInv, NEW c \in Requesters, cpc[c] = "recv"
  PROVE  LET r == <<c, reqNo[c]>> IN
         Cardinality({x \in {"front", "back", "lost"} :
             CASE x = "front" -> r \in Range(frontend)
               [] x = "back"  -> r \in Range(backend)
               [] x = "lost"  -> r \in lost})
         + Cardinality({w \in Workers : r \in Range(dealt[w]) \cup working[w]})
         + (IF Len(replies[c]) > reqNo[c] THEN 1 ELSE 0) = 1
<1> DEFINE r == <<c, reqNo[c]>>
           S == {x \in {"front", "back", "lost"} :
                   CASE x = "front" -> r \in Range(frontend)
                     [] x = "back"  -> r \in Range(backend)
                     [] x = "lost"  -> r \in lost}
           W == {w \in Workers : r \in Range(dealt[w]) \cup working[w]}
<1>0. Cardinality({}) = 0 /\ \A e : Cardinality({e}) = 1 BY Zenon, FS_EmptySet, FS_Singleton
<1>1. /\ "front" \in S <=> r \in At(FrontPlace)
      /\ "back" \in S <=> r \in At(BackPlace)
      /\ "lost" \in S <=> r \in At(LostPlace)
  <2>1. "front" \in S <=> r \in Range(frontend) OBVIOUS
  <2>2. "back" \in S <=> r \in Range(backend) OBVIOUS
  <2>3. "lost" \in S <=> r \in lost OBVIOUS
  <2> QED BY <2>1, <2>2, <2>3, WhatIsAt
<1>2. S \subseteq {"front", "back", "lost"} BY Zenon
<1>3. \A w \in Workers : w \in W <=> r \in At(WorkerPlace(w)) BY WhatIsAt
<1>4. W \subseteq Workers OBVIOUS
<1>5. /\ Len(replies[c]) \in {reqNo[c], reqNo[c] + 1} /\ reqNo[c] \in Nat
      /\ Len(replies[c]) = reqNo[c] => \E x \in Places : r \in At(x)
  BY DEF BrokerInv, Answers, BrokerTypes
<1>6. \A x \in Places : r \in At(x) => Len(replies[c]) = reqNo[c] BY RequestAt
<1>7. \A x, y \in Places : r \in At(x) /\ r \in At(y) => x = y BY DEF BrokerInv, Apart
<1> HIDE DEF S, W, r
<1>8. CASE Len(replies[c]) > reqNo[c]
  <2>1. \A x \in Places : r \notin At(x) BY <1>5, <1>6, <1>8
  <2>2. S = {} BY <1>1, <1>2, <2>1, ThePlaces
  <2>3. W = {} BY <1>3, <1>4, <2>1, ThePlaces
  <2>4. Cardinality(S) = 0 /\ Cardinality(W) = 0 BY <1>0, <2>2, <2>3
  <2>5. Cardinality(S) + Cardinality(W) + (IF Len(replies[c]) > reqNo[c] THEN 1 ELSE 0) = 1
    BY <1>8, <2>4
  <2> QED BY Zenon, <2>5 DEF S, W, r
<1>9. CASE ~(Len(replies[c]) > reqNo[c])
  <2>1. PICK x \in Places : r \in At(x) BY <1>5, <1>9
  <2>2. CASE x \in {FrontPlace, BackPlace, LostPlace}
    <3>1. \E e : S = {e}
      <4>1. CASE x = FrontPlace
        <5>1. S = {"front"} BY Zenon, <1>1, <1>2, <1>7, <2>1, <4>1, ThePlaces
        <5> QED BY <5>1
      <4>2. CASE x = BackPlace
        <5>1. S = {"back"} BY Zenon, <1>1, <1>2, <1>7, <2>1, <4>2, ThePlaces
        <5> QED BY <5>1
      <4>3. CASE x = LostPlace
        <5>1. S = {"lost"} BY Zenon, <1>1, <1>2, <1>7, <2>1, <4>3, ThePlaces
        <5> QED BY <5>1
      <4> QED BY Zenon, <2>2, <4>1, <4>2, <4>3
    <3>2. W = {} BY <1>3, <1>4, <1>7, <2>1, <2>2, ThePlaces
    <3>3. Cardinality(S) = 1 /\ Cardinality(W) = 0 BY Zenon, <1>0, <3>1, <3>2
    <3>4. Cardinality(S) + Cardinality(W) + (IF Len(replies[c]) > reqNo[c] THEN 1 ELSE 0) = 1
      BY <1>9, <3>3
    <3> QED BY Zenon, <3>4 DEF S, W, r
  <2>3. ASSUME NEW w \in Workers, x = WorkerPlace(w)
        PROVE  Cardinality(S) + Cardinality(W)
                 + (IF Len(replies[c]) > reqNo[c] THEN 1 ELSE 0) = 1
    <3>1. S = {}
      <4>1. r \notin At(FrontPlace) /\ r \notin At(BackPlace) /\ r \notin At(LostPlace)
        BY <1>7, <2>1, <2>3, ThePlaces
      <4> QED BY <1>1, <1>2, <4>1
    <3>2. \A v \in Workers : v \in W <=> v = w BY <1>3, <1>7, <2>1, <2>3, ThePlaces
    <3>3. W = {w} BY <1>4, <3>2
    <3>4. Cardinality(S) = 0 /\ Cardinality(W) = 1 BY Zenon, <1>0, <3>1, <3>3
    <3> QED BY <1>9, <3>4
  <2>4. CASE \E w \in Workers : x = WorkerPlace(w) BY Zenon, <2>3, <2>4 DEF S, W, r
  <2> QED BY Zenon, <2>2, <2>4, ThePlaces
<1> QED BY Zenon, <1>8, <1>9

\* A client gets the replies to its own requests, in order, and a request it
\* waits for is at one place: at a socket of the broker, at one worker, answered,
\* or lost with a worker; for any number of clients, workers and requests, and
\* however clients and workers are killed.  (reqrepclient.cpp, reqrepbroker.cpp,
\* reqrepworker.cpp)
THEOREM RepliesRight == BrokerSpec => []RepliesMatch
<1>1. BrokerInv => RepliesMatch
  <2> SUFFICES ASSUME BrokerInv, NEW c \in Requesters
               PROVE  /\ \A k \in 1 .. Len(replies[c]) : replies[c][k] = k - 1
                      /\ Len(replies[c]) <= reqNo[c] + 1
    BY Zenon, CountedOnce DEF RepliesMatch
  <2>1. reqNo[c] \in Nat /\ Answers(c) BY DEF BrokerInv, BrokerTypes
  <2>2. Len(replies[c]) \in {reqNo[c], reqNo[c] + 1} BY <2>1 DEF Answers
  <2>3. Len(replies[c]) <= reqNo[c] + 1 BY <2>1, <2>2
  <2> QED BY <2>1, <2>3 DEF Answers
<1> QED BY <1>1, BrokerInitInv, BrokerNextInv, PTL DEF BrokerSpec

-----------------------------------------------------------------------------
(* The echo server (ZmqEcho)                                                 *)

EchoSpec == EchoInit /\ [][EchoNext]_echoVars

EchoTypes ==
  /\ zmain \in {"new", "running", "joined", "destroying", "destroyed"}
  /\ zpc \in {"none", "begin", "loop", "poll", "recv", "ended", "thrown"}
  /\ zheld \in BOOLEAN /\ bStop \in BOOLEAN /\ zopen \in BOOLEAN /\ zin \in Seq(Senders \X Nat)
  /\ zsent \in [Senders -> Nat] /\ zgot \in [Senders -> Seq(Nat)]

\* The destructor closes the socket, there is no thread beside an owner that has not
\* started one or has joined it, and the thread has something to receive while the
\* socket is open.
EchoSteps ==
  /\ zopen <=> zmain \in {"new", "running", "joined"}
  /\ zpc \notin {"none", "ended"} => zmain \in {"running", "destroying"}
  /\ zpc = "recv" /\ zopen => zin # <<>>
  /\ zpc = "thrown" => ~zopen

\* The messages of one client are in order.
InOrder ==
  \A k, l \in 1 .. Len(zin) : k < l /\ zin[k][1] = zin[l][1] => zin[k][2] < zin[l][2]

Echoed ==
  \A c \in Senders :
    /\ zgot[c] = [k \in 1 .. Len(zgot[c]) |-> k] /\ Len(zgot[c]) <= zsent[c]
    /\ zopen => Waiting(c) = Len(zgot[c]) + 1 .. zsent[c]

EchoInv == EchoTypes /\ EchoSteps /\ (zopen => InOrder) /\ Echoed

LEMMA EchoInitInv == EchoInit => EchoInv
<1> SUFFICES ASSUME EchoInit PROVE EchoInv OBVIOUS
<1>1. EchoTypes
  <2>1. zgot \in [Senders -> Seq(Nat)] /\ zin \in Seq(Senders \X Nat) BY DEF EchoInit
  <2> QED BY Zenon, <2>1 DEF EchoInit, EchoTypes
<1>2. EchoSteps /\ InOrder BY DEF EchoInit, EchoSteps, InOrder
<1>3. Echoed
  <2> SUFFICES ASSUME NEW c \in Senders
               PROVE  /\ zgot[c] = [k \in 1 .. Len(zgot[c]) |-> k] /\ Len(zgot[c]) <= zsent[c]
                      /\ Waiting(c) = Len(zgot[c]) + 1 .. zsent[c]
    BY DEF Echoed
  <2>1. zgot[c] = <<>> /\ Len(zgot[c]) = 0 /\ zsent[c] = 0 BY DEF EchoInit
  <2>2. Waiting(c) = {} BY DEF EchoInit, Waiting
  <2> QED BY <2>1, <2>2
<1> QED BY <1>1, <1>2, <1>3 DEF EchoInv

\* A message is sent: it comes last, with the next number.
LEMMA EchoSendInv == ASSUME EchoInv, NEW c \in Senders, client_Send(c) PROVE EchoInv'
<1>0. /\ zopen /\ zsent' = [zsent EXCEPT ![c] = zsent[c] + 1]
      /\ zin' = Append(zin, <<c, zsent[c] + 1>>) /\ UNCHANGED <<zmain, zpc, zheld, bStop, zopen, zgot>>
  BY DEF client_Send
<1>t. EchoTypes BY DEF EchoInv
<1>1. /\ zsent[c] \in Nat /\ zin \in Seq(Senders \X Nat) /\ Len(zin) \in Nat
      /\ <<c, zsent[c] + 1>> \in Senders \X Nat
  BY <1>t DEF EchoTypes
<1>2. /\ Len(zin') = Len(zin) + 1 /\ zin' \in Seq(Senders \X Nat) /\ zin' # <<>>
      /\ \A k \in 1 .. Len(zin) : zin'[k] = zin[k] /\ k \in 1 .. Len(zin) + 1
      /\ zin'[Len(zin) + 1] = <<c, zsent[c] + 1>> /\ Len(zin) + 1 \in 1 .. Len(zin) + 1
      /\ \A k \in 1 .. Len(zin) + 1 : k \in 1 .. Len(zin) \/ k = Len(zin) + 1
      /\ \A k, l \in 1 .. Len(zin) + 1 : k < l => k \in 1 .. Len(zin)
  BY <1>0, <1>1, Appended
<1>3. /\ zsent' \in [Senders -> Nat] /\ zsent'[c] = zsent[c] + 1
      /\ \A d \in Senders : d # c => zsent'[d] = zsent[d]
  BY <1>0, <1>t DEF EchoTypes
<1>4. EchoTypes' BY <1>0, <1>2, <1>3, <1>t DEF EchoTypes
<1>5. EchoSteps' BY <1>0, <1>2 DEF EchoInv, EchoSteps
<1>6. \A k \in 1 .. Len(zin) : zin[k][1] \in Senders /\ zin[k][2] \in Nat BY <1>1
<1>7. \A k \in 1 .. Len(zin) : zin[k][1] = c => zin[k][2] <= zsent[c]
  <2> SUFFICES ASSUME NEW k \in 1 .. Len(zin), zin[k][1] = c PROVE zin[k][2] <= zsent[c]
    OBVIOUS
  <2>1. zin[k][2] \in Waiting(c) BY DEF Waiting
  <2>2. Waiting(c) = Len(zgot[c]) + 1 .. zsent[c] BY Zenon, <1>0 DEF EchoInv, Echoed
  <2> QED BY <1>1, <2>1, <2>2
<1>8. InOrder'
  <2> SUFFICES ASSUME NEW k \in 1 .. Len(zin) + 1, NEW l \in 1 .. Len(zin) + 1, k < l,
                      zin'[k][1] = zin'[l][1]
               PROVE  zin'[k][2] < zin'[l][2]
    BY <1>2 DEF InOrder
  <2>1. k \in 1 .. Len(zin) /\ zin'[k] = zin[k] BY Zenon, <1>2
  <2>2. CASE l \in 1 .. Len(zin)
    <3>1. zin'[l] = zin[l] BY Zenon, <1>2, <2>2
    <3> QED BY <1>0, <2>1, <2>2, <3>1 DEF EchoInv, InOrder
  <2>3. CASE l = Len(zin) + 1
    <3>1. zin'[l] = <<c, zsent[c] + 1>> BY <1>2, <2>3
    <3>2. zin[k][1] = c BY <2>1, <3>1
    <3>3. PICK a \in Nat, z \in Nat : a = zin[k][2] /\ z = zsent[c] BY Zenon, <1>1, <1>6, <2>1
    <3>4. a <= z BY <1>7, <2>1, <3>2, <3>3
    <3>5. zin'[k][2] = a /\ zin'[l][2] = z + 1 BY <2>1, <3>1, <3>3
    <3>6. a < z + 1 BY <3>4
    <3> QED BY <3>5, <3>6
  <2> QED BY <1>2, <2>2, <2>3
<1>9. Echoed'
  <2> SUFFICES ASSUME NEW d \in Senders
               PROVE  /\ zgot[d] = [k \in 1 .. Len(zgot[d]) |-> k] /\ Len(zgot[d]) <= zsent'[d]
                      /\ Waiting(d)' = Len(zgot[d]) + 1 .. zsent'[d]
    BY <1>0 DEF Echoed
  <2>1. /\ zgot[d] = [k \in 1 .. Len(zgot[d]) |-> k] /\ Len(zgot[d]) <= zsent[d]
        /\ Waiting(d) = Len(zgot[d]) + 1 .. zsent[d] /\ Len(zgot[d]) \in Nat /\ zsent[d] \in Nat
    BY <1>0, <1>t DEF EchoInv, Echoed, EchoTypes
  <2>2. Waiting(d)' = Waiting(d) \cup (IF d = c THEN {zsent[c] + 1} ELSE {})
    <3>1. ASSUME NEW m \in Waiting(d)' PROVE m \in Waiting(d) \cup (IF d = c THEN {zsent[c] + 1} ELSE {})
      <4>1. PICK k \in 1 .. Len(zin) + 1 : zin'[k][1] = d /\ m = zin'[k][2]
        BY <1>2, <3>1 DEF Waiting
      <4>2. CASE k \in 1 .. Len(zin) BY Zenon, <1>2, <4>1, <4>2 DEF Waiting
      <4>3. CASE k = Len(zin) + 1 BY <1>2, <4>1, <4>3
      <4> QED BY <1>2, <4>2, <4>3
    <3>2. ASSUME NEW m \in Waiting(d) PROVE m \in Waiting(d)'
      <4>1. PICK k \in 1 .. Len(zin) : zin[k][1] = d /\ m = zin[k][2] BY <3>2 DEF Waiting
      <4>2. k \in 1 .. Len(zin') /\ zin'[k] = zin[k] BY <1>2
      <4> QED BY <4>1, <4>2 DEF Waiting
    <3>3. d = c => zsent[c] + 1 \in Waiting(d)'
      <4>1. PICK k : k = Len(zin) + 1 OBVIOUS
      <4>2. k \in 1 .. Len(zin') /\ zin'[k] = <<c, zsent[c] + 1>> BY <1>2, <4>1
      <4> QED BY <4>2 DEF Waiting
    <3> QED BY <3>1, <3>2, <3>3
  <2>3. CASE d = c
    <3>1. (Len(zgot[d]) + 1 .. zsent[d]) \cup {zsent[d] + 1} = Len(zgot[d]) + 1 .. zsent[d] + 1
      BY <2>1
    <3> QED BY <1>3, <2>1, <2>2, <2>3, <3>1
  <2>4. CASE d # c BY <1>3, <2>1, <2>2, <2>4
  <2> QED BY <2>3, <2>4
<1> QED BY <1>0, <1>4, <1>5, <1>8, <1>9 DEF EchoInv

\* The first message at the socket is the next one of its client.
LEMMA EchoRecvInv == ASSUME EchoInv, poll_recv PROVE EchoInv'
<1>0. /\ zpc = "recv" /\ zpc' = "loop" /\ UNCHANGED <<zmain, zheld, bStop, zopen, zsent>>
      /\ ~zopen => UNCHANGED <<zin, zgot>>
      /\ zopen => /\ zin' = Tail(zin)
                  /\ zgot' = [zgot EXCEPT ![Head(zin)[1]] = Append(zgot[Head(zin)[1]], Head(zin)[2])]
  BY DEF poll_recv
<1>t. EchoTypes BY DEF EchoInv
<1>1. CASE ~zopen
  <2>1. EchoTypes' BY <1>0, <1>1, <1>t DEF EchoTypes
  <2>2. EchoSteps' BY <1>0, <1>1 DEF EchoInv, EchoSteps
  <2>3. Echoed' BY <1>0, <1>1 DEF EchoInv, Echoed
  <2> QED BY <1>0, <1>1, <2>1, <2>2, <2>3 DEF EchoInv
<1>2. CASE zopen
  <2>1. zin # <<>> /\ zin \in Seq(Senders \X Nat)
    BY <1>0, <1>2, <1>t DEF EchoInv, EchoSteps, EchoTypes
  <2>3. /\ Len(zin) \in Nat /\ Len(zin) >= 1 /\ zin' \in Seq(Senders \X Nat)
        /\ Len(zin') = Len(zin) - 1 /\ zin[1] \in Senders \X Nat /\ 1 \in 1 .. Len(zin)
        /\ Head(zin) = zin[1]
        /\ \A k \in 1 .. Len(zin) - 1 : /\ zin'[k] = zin[k + 1] /\ k + 1 \in 1 .. Len(zin)
                                        /\ 1 < k + 1
        /\ \A k \in 1 .. Len(zin) :
             k = 1 \/ (k - 1 \in 1 .. Len(zin) - 1 /\ zin'[k - 1] = zin[k] /\ 1 < k)
    <3>1. PICK q \in Seq(Senders \X Nat) : q = zin /\ q # <<>> /\ zin' = Tail(q)
      BY Zenon, <1>0, <1>2, <2>1
    <3>2. /\ Tail(q) \in Seq(Senders \X Nat) /\ Len(q) \in Nat /\ Len(q) >= 1
          /\ Len(Tail(q)) = Len(q) - 1 /\ Head(q) = q[1] /\ q[1] \in Senders \X Nat
          /\ 1 \in 1 .. Len(q)
      BY <3>1, Tailed
    <3>3. /\ \A k \in 1 .. Len(q) - 1 : /\ Tail(q)[k] = q[k + 1] /\ k + 1 \in 1 .. Len(q)
                                        /\ 1 < k + 1
          /\ \A k \in 1 .. Len(q) :
               k = 1 \/ (k - 1 \in 1 .. Len(q) - 1 /\ Tail(q)[k - 1] = q[k] /\ 1 < k)
      BY <3>1, Tailed
    <3> QED BY <3>1, <3>2, <3>3
  <2>2. PICK c \in Senders, g \in Nat : zin[1] = <<c, g>> /\ Head(zin) = <<c, g>> BY <2>3
  <2>4. /\ zgot' = [zgot EXCEPT ![c] = Append(zgot[c], g)] /\ zgot[c] \in Seq(Nat)
    BY <1>0, <1>2, <1>t, <2>2 DEF EchoTypes
  <2>5. /\ zgot' \in [Senders -> Seq(Nat)] /\ zgot'[c] = Append(zgot[c], g)
        /\ \A d \in Senders : d # c => zgot'[d] = zgot[d]
    BY <1>t, <2>4 DEF EchoTypes
  <2>6. EchoTypes' BY Zenon, <1>0, <1>t, <2>3, <2>5 DEF EchoTypes
  <2>7. EchoSteps' BY <1>0 DEF EchoInv, EchoSteps
  <2>o. \A k, l \in 1 .. Len(zin) : k < l /\ zin[k][1] = zin[l][1] => zin[k][2] < zin[l][2]
    BY <1>2 DEF EchoInv, InOrder
  <2>8. InOrder'
    <3> SUFFICES ASSUME NEW k \in 1 .. Len(zin) - 1, NEW l \in 1 .. Len(zin) - 1, k < l,
                        zin'[k][1] = zin'[l][1]
                 PROVE  zin'[k][2] < zin'[l][2]
      BY <2>3 DEF InOrder
    <3>1. k + 1 \in 1 .. Len(zin) /\ l + 1 \in 1 .. Len(zin) BY <2>3
    <3>3. k + 1 < l + 1 OBVIOUS
    <3>2. zin'[k] = zin[k + 1] /\ zin'[l] = zin[l + 1] BY Zenon, <2>3
    <3> QED BY <2>o, <3>1, <3>2, <3>3
  <2>w. \A d \in Senders :
          /\ zgot[d] = [k \in 1 .. Len(zgot[d]) |-> k] /\ Len(zgot[d]) <= zsent[d]
          /\ Waiting(d) = Len(zgot[d]) + 1 .. zsent[d] /\ Len(zgot[d]) \in Nat /\ zsent[d] \in Nat
    BY <1>2, <1>t DEF EchoInv, Echoed, EchoTypes
  <2>9. g = Len(zgot[c]) + 1 /\ g <= zsent[c]
    <3>1. g \in Waiting(c)
      <4>1. 1 \in 1 .. Len(zin) /\ zin[1][1] = c /\ zin[1][2] = g BY <2>2, <2>3
      <4> QED BY <4>1 DEF Waiting
    <3>w. Waiting(c) = Len(zgot[c]) + 1 .. zsent[c] /\ Len(zgot[c]) \in Nat /\ zsent[c] \in Nat
      BY Zenon, <2>w
    <3>2. g >= Len(zgot[c]) + 1 /\ g <= zsent[c] BY <3>1, <3>w
    <3>3. Len(zgot[c]) + 1 \in Waiting(c) BY <3>2, <3>w
    <3>4. PICK k \in 1 .. Len(zin) : zin[k][1] = c /\ zin[k][2] = Len(zgot[c]) + 1
      BY <3>3 DEF Waiting
    <3>5. CASE k = 1 BY <2>2, <3>2, <3>4, <3>5
    <3>6. CASE k # 1
      <4>1. 1 \in 1 .. Len(zin) /\ 1 < k /\ zin[1][1] = zin[k][1] /\ zin[1][2] = g
        BY <2>2, <2>3, <3>4, <3>6
      <4>2. g < Len(zgot[c]) + 1 BY <2>o, <3>4, <4>1
      <4> QED BY <2>w, <3>2, <4>2
    <3> QED BY <3>5, <3>6
  <2>10. \A d \in Senders : Waiting(d)' = Waiting(d) \ (IF d = c THEN {g} ELSE {})
    <3> SUFFICES ASSUME NEW d \in Senders
                 PROVE  Waiting(d)' = Waiting(d) \ (IF d = c THEN {g} ELSE {})
      OBVIOUS
    <3>1. ASSUME NEW m \in Waiting(d)' PROVE m \in Waiting(d) \ (IF d = c THEN {g} ELSE {})
      <4>1. PICK k \in 1 .. Len(zin) - 1 : zin'[k][1] = d /\ m = zin'[k][2]
        BY <2>3, <3>1 DEF Waiting
      <4>2. k + 1 \in 1 .. Len(zin) /\ zin'[k] = zin[k + 1] /\ 1 < k + 1 /\ 1 \in 1 .. Len(zin)
        BY <2>3
      <4>3. m \in Waiting(d) BY <4>1, <4>2 DEF Waiting
      <4>4. d = c => g < m
        <5> SUFFICES ASSUME d = c PROVE g < m OBVIOUS
        <5>1. zin[1][1] = zin[k + 1][1] /\ zin[1][2] = g /\ zin[k + 1][2] = m
          BY <2>2, <4>1, <4>2
        <5> QED BY <2>o, <4>2, <5>1
      <4> QED BY <4>3, <4>4
    <3>2. ASSUME NEW m \in Waiting(d), ~(d = c /\ m = g) PROVE m \in Waiting(d)'
      <4>1. PICK k \in 1 .. Len(zin) : zin[k][1] = d /\ m = zin[k][2] BY <3>2 DEF Waiting
      <4>2. k # 1 BY <2>2, <3>2, <4>1
      <4>4. k - 1 \in 1 .. Len(zin') /\ zin'[k - 1] = zin[k] BY <2>3, <4>2
      <4> QED BY <4>1, <4>4 DEF Waiting
    <3> QED BY <3>1, <3>2
  <2>11. Echoed'
    <3> SUFFICES ASSUME NEW d \in Senders
                 PROVE  /\ zgot'[d] = [k \in 1 .. Len(zgot'[d]) |-> k] /\ Len(zgot'[d]) <= zsent[d]
                        /\ Waiting(d)' = Len(zgot'[d]) + 1 .. zsent[d]
      BY Zenon, <1>0 DEF Echoed
    <3>1. CASE d # c BY Zenon, <2>5, <2>10, <2>w, <3>1
    <3>2. CASE d = c
      <4>1. Len(zgot'[d]) = Len(zgot[d]) + 1 BY <2>4, <2>5, <3>2
      <4>2. zgot'[d] = [k \in 1 .. Len(zgot[d]) + 1 |-> k]
        <5>1. PICK q \in Seq(Nat) : q = zgot[d] /\ zgot'[d] = Append(q, g) BY <2>4, <2>5, <3>2
        <5>2. /\ Append(q, g) \in Seq(Nat) /\ Len(Append(q, g)) = Len(q) + 1
              /\ \A k \in 1 .. Len(q) : Append(q, g)[k] = q[k]
              /\ Append(q, g)[Len(q) + 1] = g
              /\ \A k \in 1 .. Len(q) + 1 : k \in 1 .. Len(q) \/ k = Len(q) + 1
          BY Appended
        <5>3. \A k \in 1 .. Len(q) : q[k] = k
          <6>1. q = [k \in 1 .. Len(q) |-> k] BY Zenon, <2>w, <5>1
          <6> QED BY ONLY <6>1
        <5>4. g = Len(q) + 1 BY <2>9, <3>2, <5>1
        <5>5. \A k \in 1 .. Len(q) + 1 : Append(q, g)[k] = k BY <5>2, <5>3, <5>4
        <5>6. PICK a \in Seq(Nat) : a = Append(q, g) BY Zenon, <5>2
        <5>7. a \in [1 .. Len(a) -> Nat] OBVIOUS
        <5>8. Len(a) = Len(q) + 1 /\ \A k \in 1 .. Len(q) + 1 : a[k] = k BY <5>2, <5>5, <5>6
        <5>9. a = [k \in 1 .. Len(q) + 1 |-> k] BY <5>7, <5>8
        <5> QED BY <5>1, <5>6, <5>9
      <4>3. (Len(zgot[d]) + 1 .. zsent[d]) \ {g} = Len(zgot[d]) + 2 .. zsent[d]
        BY <2>9, <2>w, <3>2
      <4>4. Waiting(d)' = Len(zgot[d]) + 2 .. zsent[d] BY Zenon, <2>10, <2>w, <3>2, <4>3
      <4> QED BY <2>9, <2>w, <3>2, <4>1, <4>2, <4>4
    <3> QED BY <3>1, <3>2
  <2> QED BY <1>0, <2>6, <2>7, <2>8, <2>11 DEF EchoInv
<1> QED BY <1>1, <1>2

LEMMA EchoKept ==
  ASSUME EchoInv, UNCHANGED <<zopen, zin, zsent, zgot>>, EchoSteps',
         zmain' \in {"new", "running", "joined", "destroying", "destroyed"},
         zpc' \in {"none", "begin", "loop", "poll", "recv", "ended", "thrown"},
         zheld' \in BOOLEAN, bStop' \in BOOLEAN
  PROVE  EchoInv'
<1>1. EchoTypes' BY DEF EchoInv, EchoTypes
<1>2. InOrder' = InOrder BY DEF InOrder
<1>3. Echoed' = Echoed BY DEF Echoed, Waiting
<1> QED BY <1>1, <1>2, <1>3 DEF EchoInv

LEMMA EchoNextInv == EchoInv /\ [EchoNext]_echoVars => EchoInv'
<1> SUFFICES ASSUME EchoInv, [EchoNext]_echoVars PROVE EchoInv' OBVIOUS
<1>0. EchoTypes /\ EchoSteps /\ Echoed BY DEF EchoInv
<1>1. CASE \E c \in Senders : client_Send(c) BY <1>1, EchoSendInv
<1>2. CASE server_Start
  BY Zenon, <1>0, <1>2, EchoKept DEF server_Start, EchoTypes, EchoSteps
<1>3. CASE server_Stop
  BY <1>0, <1>3, EchoKept DEF server_Stop, EchoTypes, EchoSteps
<1>4. CASE destroy_close
  <2>1. zin' = <<>> /\ ~zopen' /\ zin' \in Seq(Senders \X Nat) BY <1>4 DEF destroy_close
  <2>2. EchoTypes' BY Zenon, <1>0, <1>4, <2>1 DEF destroy_close, EchoTypes
  <2>3. EchoSteps' BY <1>0, <1>4, <2>1 DEF destroy_close, EchoSteps
  <2>4. Echoed' BY Zenon, <1>0, <1>4 DEF destroy_close, Echoed
  <2> QED BY <2>1, <2>2, <2>3, <2>4 DEF EchoInv
<1>5. CASE destroy_join
  BY <1>0, <1>5, EchoKept DEF destroy_join, EchoTypes, EchoSteps
<1>j. CASE server_Join
  BY <1>0, <1>j, EchoKept DEF server_Join, EchoTypes, EchoSteps
<1>b. CASE poll_begin
  BY <1>0, <1>b, EchoKept DEF poll_begin, EchoTypes, EchoSteps
<1>l. CASE poll_test
  BY <1>0, <1>l, EchoKept DEF poll_test, EchoTypes, EchoSteps
<1>6. CASE poll_wait
  BY <1>0, <1>6, EchoKept DEF poll_wait, EchoTypes, EchoSteps
<1>7. CASE poll_recv BY <1>7, EchoRecvInv
<1>8. CASE UNCHANGED echoVars
  BY <1>0, <1>8, EchoKept DEF echoVars, EchoTypes, EchoSteps
<1> QED
  BY <1>1, <1>2, <1>3, <1>4, <1>5, <1>j, <1>b, <1>l, <1>6, <1>7, <1>8
  DEF EchoNext, pollFunction

\* Whatever the server and its owner do, every client gets its own messages back in
\* order and once, none is lost while the socket is open, and the poll throws only
\* while the destructor waits for a thread that was not joined, never in a server
\* that is stopped and joined first (ZmqServerEnd::pollFunction).
THEOREM EchoesIntact == EchoSpec => []EchoIntact
<1>1. EchoSpec => []EchoInv BY EchoInitInv, EchoNextInv, PTL DEF EchoSpec
<1>2. EchoInv => EchoIntact BY DEF EchoInv, Echoed, EchoSteps, EchoIntact
<1> QED BY <1>1, <1>2, PTL
=============================================================================
