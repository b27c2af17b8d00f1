---------------------------- MODULE CachedBuffer ----------------------------
(***************************************************************************)
(* The lock-free ring buffer of solcomapi/src/CachedBuffer.h as the solcom  *)
(* client uses it: threads that post messages (postMsg) and the libuv loop  *)
(* thread that writes them to the connection (idle_cb, req_write_cb), which *)
(* may be lost and made again.  A step makes at most one access to a        *)
(* counter or flag that another thread writes.                              *)
(* nHead and nTail are uint64_t; fewer than 2^64 messages are assumed, so   *)
(* nTail = -1 of the constructor is the integer -1.                         *)
(*                                                                          *)
(* front, back and currentForward of the class have no caller; nCurrent is  *)
(* therefore nHead at every call of current().                              *)
(***************************************************************************)
EXTENDS Integers, Sequences, FiniteSets

CONSTANTS
  Cap,        \* argument of the constructor
  Producers,  \* the threads that call postMsg
  Loop,       \* the loop thread; a producer, too, if it sends heartbeats
  Messages,
  NoMessage,  \* content of a slot that was never written
  MaxPosts,   \* bound on the number of calls of postMsg
  MaxWrites,  \* bound on the number of writes to the connection
  MaxLosses   \* bound on the number of times the connection is lost

\* The constructor shifts its argument down to zero and one up again, one place
\* less: the largest power of two not above Cap.  The argument being zero by then,
\* the correction upwards (capacity < cap) never applies.
RoundDown[n \in Nat \ {0}] == IF n = 1 THEN 1 ELSE 2 * RoundDown[n \div 2]
Capacity == RoundDown[Cap]

ASSUME CapacityAssumption == Cap \in Nat \ {0}
ASSUME MessageAssumption  == NoMessage \notin Messages
ASSUME BoundsAssumption   == MaxPosts \in Nat /\ MaxWrites \in Nat /\ MaxLosses \in Nat

VARIABLES
  elements, nHead, nCurrent, nTail,
  ppc, slot, arg, tail,   \* postMsg: place, allocated slot, message, read nTail
  bReqWritereqBusy, req_uvbuf,   \* a write is under way, and of which slot
  writing,                \* libuv has req_writereq and owes its callback
  copied,                 \* what the write has passed on, or nothing
  bConnected,
  posts, losses,          \* calls of postMsg and lost connections so far
  accepted, delivered     \* history: ERR_SUCCESS returned, write completed

ringVars == <<elements, nHead, nCurrent, nTail>>
postVars == <<ppc, slot, arg, tail>>
loopVars == <<bReqWritereqBusy, req_uvbuf, writing, copied>>
connVars == <<bConnected, losses>>
vars == <<elements, nHead, nCurrent, nTail, ppc, slot, arg, tail,
          bReqWritereqBusy, req_uvbuf, writing, copied, bConnected, posts,
          losses, accepted, delivered>>

Slots == 0 .. Capacity - 1
PostPc == {"idle", "alloc", "fill", "full?", "load", "store"}

TypeOK ==
  /\ elements \in [Slots -> Messages \cup {NoMessage}]
  /\ nHead \in Nat /\ nCurrent \in Nat /\ nTail \in Nat \cup {-1}
  /\ ppc \in [Producers -> PostPc]
  /\ slot \in [Producers -> Slots]
  /\ arg \in [Producers -> Messages \cup {NoMessage}]
  /\ \A p \in Producers : ppc[p] # "idle" => arg[p] \in Messages
  /\ tail \in [Producers -> Nat \cup {-1}]
  /\ bReqWritereqBusy \in BOOLEAN
  /\ req_uvbuf \in Slots
  /\ writing \in BOOLEAN
  /\ copied \in Seq(Messages \cup {NoMessage})
  /\ bConnected \in BOOLEAN
  /\ posts \in 0 .. MaxPosts
  /\ losses \in 0 .. MaxLosses
  /\ accepted \in Seq(Messages)
  /\ delivered \in Seq(Messages \cup {NoMessage})

Init ==
  /\ elements = [i \in Slots |-> NoMessage]
  /\ nHead = 0 /\ nCurrent = 0 /\ nTail = -1
  /\ ppc = [p \in Producers |-> "idle"]
  /\ slot = [p \in Producers |-> 0]
  /\ arg = [p \in Producers |-> NoMessage]
  /\ tail = [p \in Producers |-> -1]
  /\ bReqWritereqBusy = FALSE /\ req_uvbuf = 0 /\ writing = FALSE /\ copied = <<>>
  /\ bConnected = FALSE /\ losses = 0
  /\ posts = 0 /\ accepted = <<>> /\ delivered = <<>>

\* Mutant: one message in the ring counts as none.
isEmptyOneEarly == nTail <= nHead

isEmpty == nTail + 1 = nHead

\* Mutant: the ring takes one message more than it has slots.
isFullOneLate == nTail - Capacity = nHead

isFull == nTail + 1 - Capacity = nHead

-----------------------------------------------------------------------------
(* postMsg                                                                  *)

\* Without a connection: ERR_NETWORK.
PostRefused(p) ==
  /\ ppc[p] = "idle" /\ posts < MaxPosts
  /\ ~bConnected
  /\ posts' = posts + 1
  /\ UNCHANGED <<ringVars, postVars, loopVars, connVars, accepted, delivered>>

PostBegin(p, m) ==
  /\ ppc[p] = "idle" /\ posts < MaxPosts
  /\ bConnected
  /\ posts' = posts + 1
  /\ ppc' = [ppc EXCEPT ![p] = "alloc"]
  /\ arg' = [arg EXCEPT ![p] = m]
  /\ UNCHANGED <<ringVars, slot, tail, loopVars, connVars, accepted, delivered>>

\* allocate(): no slot when the ring is full (ERR_NO_BUFFER), otherwise the slot
\* after the tail.
Allocate(p) ==
  /\ ppc[p] = "alloc"
  /\ \/ /\ isFull
        /\ ppc' = [ppc EXCEPT ![p] = "idle"]
        /\ arg' = [arg EXCEPT ![p] = NoMessage]
        /\ UNCHANGED slot
     \/ /\ ~isFull
        /\ ppc' = [ppc EXCEPT ![p] = "fill"]
        /\ slot' = [slot EXCEPT ![p] = (nTail + 1) % Capacity]
        /\ UNCHANGED arg
  /\ UNCHANGED <<ringVars, tail, loopVars, connVars, posts, accepted, delivered>>

\* Init, the encoding of the message and Prepend of its head.
Fill(p) ==
  /\ ppc[p] = "fill"
  /\ ppc' = [ppc EXCEPT ![p] = "full?"]
  /\ elements' = [elements EXCEPT ![slot[p]] = arg[p]]
  /\ UNCHANGED <<nHead, nCurrent, nTail, slot, arg, tail, loopVars, connVars,
                 posts, accepted, delivered>>

\* tailForward(): the test of isFull.  postMsg ignores the result and returns
\* ERR_SUCCESS even when the tail did not move.
TailTest(p) ==
  /\ ppc[p] = "full?"
  /\ \/ ~isFull /\ ppc' = [ppc EXCEPT ![p] = "load"] /\ UNCHANGED <<arg, accepted>>
     \/ /\ isFull
        /\ ppc' = [ppc EXCEPT ![p] = "idle"]
        /\ arg' = [arg EXCEPT ![p] = NoMessage]
        /\ accepted' = Append(accepted, arg[p])
  /\ UNCHANGED <<ringVars, slot, tail, loopVars, connVars, posts, delivered>>

\* nTail++ is a load and a store.
TailLoad(p) ==
  /\ ppc[p] = "load"
  /\ ppc' = [ppc EXCEPT ![p] = "store"]
  /\ tail' = [tail EXCEPT ![p] = nTail]
  /\ UNCHANGED <<ringVars, slot, arg, loopVars, connVars, posts, accepted, delivered>>

TailStore(p) ==
  /\ ppc[p] = "store"
  /\ ppc' = [ppc EXCEPT ![p] = "idle"]
  /\ nTail' = tail[p] + 1
  /\ arg' = [arg EXCEPT ![p] = NoMessage]
  /\ tail' = [tail EXCEPT ![p] = -1]
  /\ accepted' = Append(accepted, arg[p])
  /\ UNCHANGED <<elements, nHead, nCurrent, slot, loopVars, connVars, posts, delivered>>

PostMsg(p) == Allocate(p) \/ Fill(p) \/ TailTest(p) \/ TailLoad(p) \/ TailStore(p)

-----------------------------------------------------------------------------
(* The loop thread                                                          *)

\* The loop thread cannot run a callback while it is inside postMsg itself.
LoopFree == Loop \in Producers => ppc[Loop] = "idle"

\* idle_cb: uv_write of the bytes of current(), in place.
StartWrite ==
  /\ LoopFree /\ Len(delivered) < MaxWrites
  /\ bConnected
  /\ ~isEmpty
  /\ ~bReqWritereqBusy
  /\ bReqWritereqBusy' = TRUE
  /\ req_uvbuf' = nCurrent % Capacity
  /\ writing' = TRUE
  /\ copied' = <<>>
  /\ UNCHANGED <<ringVars, postVars, connVars, posts, accepted, delivered>>

\* libuv hands the bytes to the kernel, now or later.
CopyToKernel ==
  /\ LoopFree
  /\ bConnected
  /\ writing /\ copied = <<>>
  /\ copied' = <<elements[req_uvbuf]>>
  /\ UNCHANGED <<ringVars, postVars, bReqWritereqBusy, req_uvbuf, writing,
                 connVars, posts, accepted, delivered>>

\* Mutant: nCurrent does not follow the head.
HeadForwardKeepsCurrent ==
  /\ nHead' = IF isEmpty THEN nHead ELSE nHead + 1
  /\ UNCHANGED nCurrent

\* headForward()
HeadForward ==
  \/ /\ isEmpty
     /\ UNCHANGED <<nHead, nCurrent>>
  \/ /\ ~isEmpty
     /\ nHead' = nHead + 1
     /\ nCurrent' = IF nCurrent < nHead + 1 THEN nHead + 1 ELSE nCurrent

\* req_write_cb, status >= 0
WriteDone ==
  /\ LoopFree
  /\ writing /\ copied # <<>>
  /\ HeadForward
  /\ bReqWritereqBusy' = FALSE
  /\ writing' = FALSE
  /\ copied' = <<>>
  /\ delivered' = delivered \o copied
  /\ UNCHANGED <<elements, nTail, postVars, req_uvbuf, connVars, posts, accepted>>

\* req_write_cb, status < 0: the connection broke, or it was closed and the
\* write cancelled.  closeConnection() is all that is done.
WriteFailed ==
  /\ LoopFree
  /\ writing /\ copied = <<>>
  /\ writing' = FALSE
  /\ bConnected' = FALSE
  /\ \/ ~bConnected /\ UNCHANGED losses
     \/ bConnected /\ losses < MaxLosses /\ losses' = losses + 1
  /\ UNCHANGED <<ringVars, postVars, bReqWritereqBusy, req_uvbuf, copied, posts,
                 accepted, delivered>>

LoopStep == StartWrite \/ CopyToKernel \/ WriteDone \/ WriteFailed

\* closeConnection() after a read error.
Disconnect ==
  /\ LoopFree
  /\ bConnected /\ losses < MaxLosses
  /\ bConnected' = FALSE
  /\ losses' = losses + 1
  /\ UNCHANGED <<ringVars, postVars, loopVars, posts, accepted, delivered>>

\* connect_cb, status >= 0.  A cancelled write has had its callback when the
\* reconnect timer fires.
Connect ==
  /\ LoopFree
  /\ ~bConnected /\ ~writing
  /\ bConnected' = TRUE
  /\ UNCHANGED <<ringVars, postVars, loopVars, posts, losses, accepted, delivered>>

-----------------------------------------------------------------------------
Next ==
  \/ \E p \in Producers :
       PostRefused(p) \/ (\E m \in Messages : PostBegin(p, m)) \/ PostMsg(p)
  \/ LoopStep \/ Disconnect \/ Connect

Spec == Init /\ [][Next]_vars

(* The loop thread runs its callbacks and the connection takes what is       *)
(* written; a thread that has entered postMsg leaves it.                     *)
Fairness == WF_vars(LoopStep) /\ \A p \in Producers : WF_vars(PostMsg(p))

FairSpec == Spec /\ Fairness

-----------------------------------------------------------------------------
(* Properties                                                               *)

\* The messages in the ring, from head to tail.
Queued == [i \in 1 .. nTail + 1 - nHead |-> elements[(nHead + i - 1) % Capacity]]

Fifo == INSTANCE BoundedFifo WITH Size <- Capacity, queue <- Queued

(* The ring implements the bounded queue: what postMsg accepts reaches the   *)
(* connection once, unaltered and in order, although neither thread locks    *)
(* anything ("single producer, single consumer", CachedBuffer.h:7).          *)
RingIsFifo == Fifo!Spec

(* The bytes of a write under way belong to libuv until its callback: no     *)
(* thread encodes a message into the slot that is being written.             *)
WriteUndisturbed ==
  \A p \in Producers :
    writing /\ ppc[p] = "fill" => slot[p] # req_uvbuf

(* Everything postMsg has accepted is delivered in the end, as long as the   *)
(* connection lasts.                                                         *)
AcceptedDelivered ==
  \A n \in 1 .. MaxPosts :
    Len(accepted) >= n ~> Len(delivered) >= n \/ losses > 0

(* bReqWritereqBusy is the "busy flag of uv_write_t", which may be reused    *)
(* once its callback was called (SolcomApi.h:66-67): it is set only while    *)
(* libuv has the request.                                                    *)
BusyWhileWriting == bReqWritereqBusy => writing
=============================================================================
