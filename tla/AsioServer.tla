----------------------------- MODULE AsioServer -----------------------------
(***************************************************************************)
(* The boost.asio server of boostAsioTest/serverEnd.cpp (class ServerEnd)   *)
(* with clients of boostAsioTest/clientEnd.cpp.  One thread runs all the    *)
(* handlers of the server, one step each.  A Client object is the number of *)
(* the accept it was created for; the pending operations of a socket are    *)
(* counted, since several reads may be under way at once.                   *)
(***************************************************************************)
EXTENDS Integers, FiniteSets

CONSTANTS
  MaxClients,  \* bound on the Client objects that are created
  HbtLimit,    \* 5 in the code
  Talking      \* bound: the objects whose client greets and answers heartbeats

ASSUME AsioAssumption == MaxClients \in Nat \ {0} /\ HbtLimit \in Nat

Clients == 1 .. MaxClients
Absent == 0    \* no entry in clientMap
Null   == -1   \* an entry whose shared_ptr was reset
NoText == ""   \* nothing under way

VARIABLES
  up,                    \* ioService.run has not been left by an exception
  nMaxCliId, avaIdSet, clientMap,
  made,                  \* how many Client objects were created
  nId, sock, nHbtCount,  \* of each Client object
  reads, writes,         \* of each socket: operations whose handler is to come
  rx, tx,                \* the first text under way to the server and to the client
  peer,                  \* the client end: hello (greeting), read, hung, gone
  recycles               \* history: how often the object's id was made available

poolVars == <<nMaxCliId, avaIdSet>>
netVars  == <<rx, tx, peer>>
asioVars == <<up, nMaxCliId, avaIdSet, clientMap, made, nId, sock, nHbtCount, reads,
              writes, rx, tx, peer, recycles>>

Live(o) == sock[o] \in {"accepting", "open"}
Stored(o) == clientMap[nId[o]] = o

AsioTypeOK ==
  /\ up \in BOOLEAN /\ nMaxCliId \in 0 .. MaxClients
  /\ avaIdSet \subseteq 1 .. nMaxCliId
  /\ clientMap \in [Clients -> Clients \cup {Absent, Null}]
  /\ \A i \in Clients : clientMap[i] \in Clients => nId[clientMap[i]] = i
  /\ made \in Clients /\ nId \in [Clients -> 1 .. MaxClients]
  /\ sock \in [Clients -> {"none", "accepting", "open", "closed"}]
  /\ nHbtCount \in [Clients -> 0 .. HbtLimit + 1]
  /\ reads \in [Clients -> Nat] /\ writes \in [Clients -> Nat]
  /\ rx \in [Clients -> {NoText, "Hello", "Beat"}] /\ tx \in [Clients -> {NoText, "Beat"}]
  /\ peer \in [Clients -> {"none", "hello", "read", "hung", "gone"}]
  /\ recycles \in [Clients -> 0 .. 2]

\* The constructor and operator(): the first Client has id 1.
AsioInit ==
  /\ up = TRUE /\ nMaxCliId = 1 /\ avaIdSet = {} /\ made = 1
  /\ clientMap = [i \in Clients |-> Absent]
  /\ nId = [o \in Clients |-> 1]
  /\ sock = [o \in Clients |-> IF o = 1 THEN "accepting" ELSE "none"]
  /\ nHbtCount = [o \in Clients |-> 0]
  /\ reads = [o \in Clients |-> 0] /\ writes = [o \in Clients |-> 0]
  /\ rx = [o \in Clients |-> NoText] /\ tx = [o \in Clients |-> NoText]
  /\ peer = [o \in Clients |-> "none"] /\ recycles = [o \in Clients |-> 0]

\* avaIdSet.insert of the ids of the objects in S.
Recycle(S) ==
  /\ avaIdSet' = avaIdSet \cup {nId[o] : o \in S}
  /\ recycles' = [o \in Clients |-> IF o \in S /\ recycles[o] < 2
                                    THEN recycles[o] + 1 ELSE recycles[o]]

\* Mutant: a recycled id stays available.
createClientIdKeeps(id) ==
  IF avaIdSet = {} THEN id = nMaxCliId + 1 /\ nMaxCliId' = id /\ UNCHANGED avaIdSet
  ELSE id \in avaIdSet /\ UNCHANGED <<avaIdSet, nMaxCliId>>

\* The smallest available id, or a new one.
createClientId(id) ==
  IF avaIdSet = {}
  THEN id = nMaxCliId + 1 /\ nMaxCliId' = id /\ UNCHANGED avaIdSet
  ELSE /\ id \in avaIdSet /\ \A i \in avaIdSet : id <= i
       /\ avaIdSet' = avaIdSet \ {id} /\ UNCHANGED nMaxCliId

\* asyncAccept for the next object, while the bound allows one.
asyncAccept(socks) ==
  IF made = MaxClients THEN sock' = socks /\ UNCHANGED <<made, nId, nMaxCliId, avaIdSet>>
  ELSE \E id \in Clients :
         /\ createClientId(id)
         /\ made' = made + 1 /\ nId' = [nId EXCEPT ![made + 1] = id]
         /\ sock' = [socks EXCEPT ![made + 1] = "accepting"]

\* acceptHandler: insert does not replace an entry, nor one that was reset.
acceptHandler(o) ==
  /\ up /\ sock[o] = "accepting"
  /\ clientMap' = [clientMap EXCEPT ![nId[o]] = IF @ = Absent THEN o ELSE @]
  /\ reads' = [reads EXCEPT ![o] = 1]
  /\ asyncAccept([sock EXCEPT ![o] = "open"])
  /\ peer' = [peer EXCEPT ![o] = IF o \in Talking THEN "hello" ELSE "hung"]
  /\ UNCHANGED <<up, nHbtCount, writes, rx, tx, recycles>>

\* An exception leaves run and main: the process and its sockets are gone.
terminate ==
  /\ up' = FALSE /\ nMaxCliId' = 0 /\ avaIdSet' = {} /\ UNCHANGED made
  /\ clientMap' = [i \in Clients |-> Absent] /\ nId' = [o \in Clients |-> 1]
  /\ sock' = [o \in Clients |-> "closed"] /\ nHbtCount' = [o \in Clients |-> 0]
  /\ reads' = [o \in Clients |-> 0] /\ writes' = [o \in Clients |-> 0]
  /\ rx' = [o \in Clients |-> NoText] /\ tx' = [o \in Clients |-> NoText]
  /\ peer' = [o \in Clients |-> "gone"] /\ recycles' = [o \in Clients |-> 0]

\* The peer is gone before the handler runs: remote_endpoint throws.
acceptHandler_throws(o) == up /\ sock[o] = "accepting" /\ terminate

\* A failed accept: no further one is started.
acceptHandler_error(o) ==
  /\ up /\ sock[o] = "accepting"
  /\ Recycle({o}) /\ clientMap' = [clientMap EXCEPT ![nId[o]] = Absent]
  /\ sock' = [sock EXCEPT ![o] = "closed"]
  /\ UNCHANGED <<up, nMaxCliId, made, nId, nHbtCount, reads, writes, netVars>>

\* The text in readBuffer up to its first NUL when the handler of o runs: its own,
\* or that of another client's read which was done in between, for all reads use
\* the one buffer.
Compared(o) ==
  {rx[o]} \cup IF \E p \in Talking : p # o /\ Live(p) THEN {"Hello", "Beat"} ELSE {}

\* readHandler without error: the text is compared.  No read is started here.
readHandler(o) ==
  /\ up /\ reads[o] > 0 /\ sock[o] = "open" /\ rx[o] # NoText
  /\ reads' = [reads EXCEPT ![o] = @ - 1] /\ rx' = [rx EXCEPT ![o] = NoText]
  /\ \E text \in Compared(o) :
       nHbtCount' = [nHbtCount EXCEPT ![o] = IF text = "Beat" THEN 0 ELSE @]
  /\ UNCHANGED <<up, poolVars, clientMap, made, nId, sock, writes, tx, peer, recycles>>

\* The peer has reset the connection after its last bytes, or the socket was closed
\* between the read and its handler: remote_endpoint throws.
readHandler_throws(o) ==
  /\ up /\ reads[o] > 0 /\ rx[o] # NoText
  /\ sock[o] = "closed" \/ (sock[o] = "open" /\ peer[o] = "gone")
  /\ terminate

\* readHandler with an error: the end of the stream, or a read that was pending
\* or started on a socket that is closed.  clientMap keeps the object.
readHandler_error(o) ==
  /\ up /\ reads[o] > 0
  /\ sock[o] = "closed" \/ (peer[o] = "gone" /\ rx[o] = NoText)
  /\ reads' = [reads EXCEPT ![o] = @ - 1] /\ sock' = [sock EXCEPT ![o] = "closed"]
  /\ Recycle({o})
  /\ UNCHANGED <<up, nMaxCliId, clientMap, made, nId, nHbtCount, writes, netVars>>

\* writeHandler without error starts a read, also on a socket closed meanwhile.
writeHandler(o) ==
  /\ up /\ writes[o] > 0
  /\ writes' = [writes EXCEPT ![o] = @ - 1] /\ reads' = [reads EXCEPT ![o] = @ + 1]
  /\ UNCHANGED <<up, poolVars, clientMap, made, nId, sock, nHbtCount, netVars, recycles>>

\* writeHandler with broken_pipe.
writeHandler_error(o) ==
  /\ up /\ writes[o] > 0 /\ peer[o] = "gone"
  /\ writes' = [writes EXCEPT ![o] = @ - 1] /\ sock' = [sock EXCEPT ![o] = "closed"]
  /\ Recycle({o})
  /\ UNCHANGED <<up, nMaxCliId, clientMap, made, nId, nHbtCount, reads, netVars>>

\* writeHandler with another error, such as a connection reset or a write cancelled
\* by close: nothing is done, and no read is started.
writeHandler_ignored(o) ==
  /\ up /\ writes[o] > 0
  /\ sock[o] = "closed" \/ peer[o] = "gone"
  /\ writes' = [writes EXCEPT ![o] = @ - 1]
  /\ UNCHANGED <<up, poolVars, clientMap, made, nId, sock, nHbtCount, reads, netVars,
                 recycles>>

\* The entries of clientMap that are not null.
Visited == {o \in 1 .. made : Stored(o)}

Expired(o) == nHbtCount[o] + 1 > HbtLimit

\* deadlineTimerHandle: every stored object is closed and its entry reset, or is
\* sent a heartbeat, which fails without effect on a closed socket.
deadlineTimerHandle ==
  /\ up
  /\ LET out == {o \in Visited : Expired(o)}
         sent == {o \in Visited \ out : sock[o] = "open"} IN
     /\ nHbtCount' = [o \in Clients |-> IF o \in Visited THEN nHbtCount[o] + 1
                                        ELSE nHbtCount[o]]
     /\ sock' = [o \in Clients |-> IF o \in out THEN "closed" ELSE sock[o]]
     /\ clientMap' = [i \in Clients |-> IF clientMap[i] \in out THEN Null ELSE clientMap[i]]
     /\ Recycle(out)
     /\ writes' = [o \in Clients |-> IF o \in sent THEN writes[o] + 1 ELSE writes[o]]
     /\ tx' = [o \in Clients |-> IF o \in sent /\ peer[o] # "gone"
                                 THEN "Beat" ELSE tx[o]]
  /\ UNCHANGED <<up, nMaxCliId, made, nId, reads, rx, peer>>

-----------------------------------------------------------------------------
\* The client end: connectHandler writes a greeting, writeHandler starts a read,
\* and readHandler answers a heartbeat; several in one read get one answer.  The
\* server compares the first text only, so a text behind another one is lost.

Under(text, t) == IF t = NoText THEN text ELSE t

client_connectHandler(o) ==
  /\ peer[o] = "hello" /\ sock[o] = "open" /\ peer' = [peer EXCEPT ![o] = "read"]
  /\ rx' = [rx EXCEPT ![o] = "Hello"]
  /\ UNCHANGED <<up, poolVars, clientMap, made, nId, sock, nHbtCount, reads, writes, tx,
                 recycles>>

client_readHandler(o) ==
  /\ peer[o] = "read" /\ sock[o] = "open" /\ tx[o] # NoText
  /\ tx' = [tx EXCEPT ![o] = NoText] /\ rx' = [rx EXCEPT ![o] = Under("Beat", @)]
  /\ UNCHANGED <<up, poolVars, clientMap, made, nId, sock, nHbtCount, reads, writes, peer,
                 recycles>>

\* A read or write error closes the socket.
client_error(o) ==
  /\ peer[o] \in {"hello", "read"} /\ sock[o] = "closed"
  /\ peer' = [peer EXCEPT ![o] = "gone"]
  /\ UNCHANGED <<up, poolVars, clientMap, made, nId, sock, nHbtCount, reads, writes, rx,
                 tx, recycles>>

\* The client process ends, or stops answering without closing its connection.
client_fails(o, how) ==
  /\ peer[o] \in {"hello", "read", "hung"} \ {how} /\ sock[o] = "open"
  /\ peer' = [peer EXCEPT ![o] = how]
  /\ UNCHANGED <<up, poolVars, clientMap, made, nId, sock, nHbtCount, reads, writes, rx,
                 tx, recycles>>

handlers(o) ==
  \/ readHandler(o) \/ readHandler_error(o)
  \/ writeHandler(o) \/ writeHandler_error(o) \/ writeHandler_ignored(o)

AsioNext ==
  \/ \E o \in Clients : acceptHandler(o) \/ acceptHandler_throws(o) \/ acceptHandler_error(o)
  \/ \E o \in Clients : handlers(o) \/ readHandler_throws(o)
  \/ deadlineTimerHandle
  \/ \E o \in Clients : client_connectHandler(o) \/ client_readHandler(o) \/ client_error(o)
  \/ \E o \in Clients, how \in {"hung", "gone"} : client_fails(o, how)

-----------------------------------------------------------------------------
\* No id is lost: one that was ever given out is available again or belongs to a
\* client that is being accepted or open.  (createClientId and every insertion
\* into avaIdSet)
IdsAccounted ==
  \A i \in 1 .. nMaxCliId : i \in avaIdSet \/ \E o \in 1 .. made : nId[o] = i /\ Live(o)

\* The id of a live client is given to or available for another one only if some
\* client with that id had it recycled twice: by a failed read and again by the
\* timer or another pending read.  (readHandler, deadlineTimerHandle)
IdExclusive ==
  \A o \in 1 .. made :
    Live(o) /\ (nId[o] \in avaIdSet \/ \E p \in 1 .. made : p # o /\ nId[p] = nId[o] /\ Live(p))
      => \E p \in 1 .. made : nId[p] = nId[o] /\ recycles[p] = 2

\* An open client is watched by the timer, unless the entry of its id was left
\* by an earlier client, which insert does not replace.  (acceptHandler)
Watched ==
  \A o \in 1 .. made : sock[o] = "open" /\ ~Stored(o) => \E p \in 1 .. o - 1 : nId[p] = nId[o]

\* A watched client that no longer answers is closed, whatever reads and writes
\* are pending.  (deadlineTimerHandle, readHandler)
Silent(o) == sock[o] = "open" /\ Stored(o) /\ peer[o] \in {"hung", "gone"}
SilentEnds(o) == sock[o] = "closed" \/ ~up
=============================================================================
