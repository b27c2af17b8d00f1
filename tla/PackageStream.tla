--------------------------- MODULE PackageStream ---------------------------
(***************************************************************************)
(* The byte arrays of solcomapi/src/CByteArray.h, the packages encoded into *)
(* them by postMsg and PackageCodec.h, and the receive machine that SolcomApi*)
(* and SolConnServer run in their read callbacks.                           *)
(*                                                                          *)
(* A byte array is a function from offsets to cells with the two positions; *)
(* what Init leaves in the memory stays readable, as in the code.  A cell is *)
(* the k-th piece of a head, which carries the body length, or of the body  *)
(* of a message.  Arrays are as long as the longest package: Reallocate     *)
(* sees to that, and CByteArray starts with more than any command needs.    *)
(***************************************************************************)
EXTENDS Integers, Sequences

CONSTANTS
  HeadLen,   \* PackageHeadLen in cells
  Messages,  \* what ISerializable objects can be
  MaxBody,   \* cells of the longest body
  BodyLen,   \* cells of the body of each message, its type first
  Garbage,   \* an object made of other bytes
  Crash      \* no object for a type: the null pointer is dereferenced

ASSUME StreamAssumption ==
  /\ HeadLen \in Nat \ {0} /\ MaxBody \in Nat \ {0}
  /\ BodyLen \in [Messages -> 1 .. MaxBody]
  /\ Garbage \notin Messages /\ Crash \notin Messages /\ Garbage # Crash

Offsets == 0 .. HeadLen + MaxBody - 1

NoCell == <<"none", 0, 0>>            \* memory nothing was received into
HeadCell(n, k) == <<"head", n, k>>
BodyCell(m, k) == <<"body", m, k>>
Cells == {NoCell} \cup {HeadCell(n, k) : n \in 0 .. MaxBody, k \in 1 .. HeadLen}
                  \cup {BodyCell(m, k) : m \in Messages, k \in 1 .. MaxBody}

ByteArrays == [arr : [Offsets -> Cells], nLeft : Nat, nRight : Nat]

NewArray == [arr |-> [i \in Offsets |-> NoCell], nLeft |-> 0, nRight |-> 0]
InitArray(b) == [b EXCEPT !.nLeft = 0, !.nRight = 0]
LeftForward(b, n) == [b EXCEPT !.nLeft = @ + n]
RightForward(b, n) == [b EXCEPT !.nRight = @ + n]

\* memcpy of cells to an offset of the array.
Copied(b, at, cells) ==
  [b EXCEPT !.arr = [i \in Offsets |-> IF i \in at .. at + Len(cells) - 1
                                       THEN cells[i - at + 1] ELSE b.arr[i]]]
AppendCells(b, cells) == RightForward(Copied(b, b.nRight, cells), Len(cells))
Prepend(b, cells) == LeftForward(Copied(b, b.nLeft - Len(cells), cells), -Len(cells))

\* Serialize: the type, then the members.
Serialize(m) == [k \in 1 .. BodyLen[m] |-> BodyCell(m, k)]

\* postMsg: room for the head, the body after it, then the head with the
\* length of the body in front.
Encode(b, m) ==
  LET room == LeftForward(RightForward(InitArray(b), HeadLen), HeadLen)
      body == AppendCells(room, Serialize(m))
  IN  Prepend(body, [k \in 1 .. HeadLen |-> HeadCell(body.nRight - HeadLen, k)])

\* The cells uv_write is given: from the start of the memory to nRight.
Package(m) ==
  LET b == Encode(NewArray, m) IN [k \in 1 .. b.nRight |-> b.arr[k - 1]]

\* decodeHead: the body length at nLeft; any length if no head is there.
HeadLengths(b) ==
  LET here(n) == \A k \in 1 .. HeadLen : b.arr[b.nLeft + k - 1] = HeadCell(n, k)
  IN  IF \E n \in 0 .. MaxBody : here(n)
      THEN {n \in 0 .. MaxBody : here(n)} ELSE 0 .. MaxBody

\* The type at nLeft selects the object, Deserialize reads its members there.
\* Cells that are no type give an object of any kind or, for most values, the
\* null pointer of GetCachedObj or CreateObject, which is dereferenced.
Decoded(b) ==
  LET typed(m) == b.arr[b.nLeft] = BodyCell(m, 1)
      whole(m) == \A k \in 1 .. BodyLen[m] :
                    b.nLeft + k - 1 \in Offsets /\ b.arr[b.nLeft + k - 1] = BodyCell(m, k)
  IN  IF \E m \in Messages : typed(m)
      THEN {IF whole(m) THEN m ELSE Garbage : m \in {x \in Messages : typed(x)}}
      ELSE {Garbage, Crash}

-----------------------------------------------------------------------------
(* The receive machine: recvBuffer, recvStat and nNeedRead.                 *)

Receivers == [buf : ByteArrays, recvStat : {"Head", "Body"}, nNeedRead : Nat]

NewReceiver == [buf |-> NewArray, recvStat |-> "Head", nNeedRead |-> HeadLen]

\* Mutant: a partial read does not lower what is still needed.
ReceivedNeedKept(r, cells) ==
  {[rx |-> [r EXCEPT !.buf = RightForward(Copied(r.buf, r.buf.nRight, cells), Len(cells))],
    out |-> <<>>]}

\* What a read of some cells, at most nNeedRead of them, leads to: the machine
\* afterwards and the objects handed to the application.
Received(r, cells) ==
  LET b == RightForward(Copied(r.buf, r.buf.nRight, cells), Len(cells))
      body == LeftForward(b, HeadLen)
  IN  IF Len(cells) < r.nNeedRead
      THEN {[rx |-> [r EXCEPT !.buf = b, !.nNeedRead = @ - Len(cells)], out |-> <<>>]}
      ELSE IF r.recvStat = "Head"
      THEN {[rx |-> [buf |-> b, recvStat |-> "Body", nNeedRead |-> n], out |-> <<>>] :
              n \in HeadLengths(b)}
      ELSE {[rx |-> [buf |-> InitArray(body), recvStat |-> "Head", nNeedRead |-> HeadLen],
             out |-> <<m>>] : m \in Decoded(body)}
=============================================================================
