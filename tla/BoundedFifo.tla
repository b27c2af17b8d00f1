----------------------------- MODULE BoundedFifo -----------------------------
(***************************************************************************)
(* What the send cache of the solcom client promises: a queue of at most    *)
(* Size messages.  A message that postMsg has accepted is delivered to the  *)
(* connection once, unchanged, in the order of acceptance.                  *)
(***************************************************************************)
EXTENDS Naturals, Sequences

CONSTANTS Size, Messages

VARIABLES
  queue,      \* accepted and not yet delivered
  accepted,   \* history: every message accepted so far
  delivered   \* history: every message delivered so far

vars == <<queue, accepted, delivered>>

Init == queue = <<>> /\ accepted = <<>> /\ delivered = <<>>

Put(m) ==
  /\ Len(queue) < Size
  /\ queue' = Append(queue, m)
  /\ accepted' = Append(accepted, m)
  /\ UNCHANGED delivered

Get ==
  /\ queue # <<>>
  /\ delivered' = Append(delivered, Head(queue))
  /\ queue' = Tail(queue)
  /\ UNCHANGED accepted

Next == (\E m \in Messages : Put(m)) \/ Get

Spec == Init /\ [][Next]_vars

(* Nothing is lost, duplicated, altered or reordered between postMsg and the *)
(* connection.                                                               *)
InOrder == accepted = delivered \o queue
=============================================================================
