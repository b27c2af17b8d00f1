--------------------------- MODULE SolcomApiProofs ---------------------------
(***************************************************************************)
(* Proofs about the solcom client, for every set of messages and lengths of *)
(* their bodies, every length of the head, every size of the cache and any  *)
(* number of messages, failures and reconnects.                             *)
(***************************************************************************)
EXTENDS SolcomApi, TLAPS, SequenceTheorems

-----------------------------------------------------------------------------
(* Packages and the receive machine                                          *)

PackageLen(m) == HeadLen + BodyLen[m]

(* What the operations on a byte array do to its memory and positions.       *)
LEMMA InitFields ==
  ASSUME NEW b \in ByteArrays
  PROVE  /\ InitArray(b).arr = b.arr /\ InitArray(b).nLeft = 0 /\ InitArray(b).nRight = 0
         /\ InitArray(b) \in ByteArrays
  BY DEF InitArray, ByteArrays

(* Moving the left position ...                                              *)
LEMMA LeftFields ==
  ASSUME NEW b \in ByteArrays, NEW n \in Int, b.nLeft + n \in Nat
  PROVE  /\ LeftForward(b, n).arr = b.arr /\ LeftForward(b, n).nRight = b.nRight
         /\ LeftForward(b, n).nLeft = b.nLeft + n /\ LeftForward(b, n) \in ByteArrays
  BY DEF LeftForward, ByteArrays

(* ... and the right one.                                                    *)
LEMMA RightFields ==
  ASSUME NEW b \in ByteArrays, NEW n \in Nat
  PROVE  /\ RightForward(b, n).arr = b.arr /\ RightForward(b, n).nLeft = b.nLeft
         /\ RightForward(b, n).nRight = b.nRight + n /\ RightForward(b, n) \in ByteArrays
  BY DEF RightForward, ByteArrays

(* A copy changes the cells it covers, inside the array, and nothing else.   *)
LEMMA CopiedFields ==
  ASSUME NEW b \in ByteArrays, NEW at \in Nat, NEW cells \in Seq(Cells)
  PROVE  /\ Copied(b, at, cells) \in ByteArrays
         /\ Copied(b, at, cells).nLeft = b.nLeft /\ Copied(b, at, cells).nRight = b.nRight
         /\ \A i \in Offsets :
              Copied(b, at, cells).arr[i] = IF i \in at .. at + Len(cells) - 1
                                            THEN cells[i - at + 1] ELSE b.arr[i]
<1> DEFINE arr == [i \in Offsets |-> IF i \in at .. at + Len(cells) - 1
                                     THEN cells[i - at + 1] ELSE b.arr[i]]
<1>1. Copied(b, at, cells) = [b EXCEPT !.arr = arr]
  BY DEF Copied
<1>2. arr \in [Offsets -> Cells]
  <2>1. \A j \in 1 .. Len(cells) : cells[j] \in Cells
    BY ElementOfSeq
  <2>2. \A i \in Offsets : i \in at .. at + Len(cells) - 1 => i - at + 1 \in 1 .. Len(cells)
    BY LenProperties, StreamAssumption DEF Offsets
  <2>3. \A i \in Offsets : b.arr[i] \in Cells
    BY DEF ByteArrays
  <2>4. QED
    BY <2>1, <2>2, <2>3
<1>3. \A i \in Offsets : arr[i] = IF i \in at .. at + Len(cells) - 1
                                  THEN cells[i - at + 1] ELSE b.arr[i]
  OBVIOUS
<1> HIDE DEF arr
<1>4. QED
  BY <1>1, <1>2, <1>3 DEF ByteArrays

(* A package is its head, which carries the length of the body, and then the *)
(* body: postMsg leaves nothing else in the array.                           *)
LEMMA PackageLayout ==
  ASSUME NEW m \in Messages
  PROVE  /\ BodyLen[m] \in 1 .. MaxBody /\ PackageLen(m) \in Nat
         /\ Package(m) \in Seq(Cells) /\ Len(Package(m)) = PackageLen(m)
         /\ \A k \in 1 .. HeadLen : Package(m)[k] = HeadCell(BodyLen[m], k)
         /\ \A k \in 1 .. BodyLen[m] : Package(m)[HeadLen + k] = BodyCell(m, k)
<1> DEFINE n == BodyLen[m]
           fresh == InitArray(NewArray)
           right == RightForward(fresh, HeadLen)
           room == LeftForward(right, HeadLen)
           copy == Copied(room, room.nRight, Serialize(m))
           body == RightForward(copy, Len(Serialize(m)))
           head == [k \in 1 .. HeadLen |-> HeadCell(body.nRight - HeadLen, k)]
           full == Copied(body, body.nLeft - Len(head), head)
           b == LeftForward(full, -Len(head))
<1>1. HeadLen \in Nat \ {0} /\ MaxBody \in Nat \ {0} /\ n \in 1 .. MaxBody
  BY StreamAssumption
<1>2. Package(m) = [k \in 1 .. b.nRight |-> b.arr[k - 1]]
  BY DEF Package, Encode, AppendCells, Prepend
<1>3. NewArray \in ByteArrays
  BY DEF NewArray, ByteArrays, Cells
<1>4. fresh \in ByteArrays /\ fresh.nLeft = 0 /\ fresh.nRight = 0
  BY <1>3, InitFields
<1> HIDE DEF fresh
<1>5. right \in ByteArrays /\ right.nLeft = 0 /\ right.nRight = HeadLen
  <2>1. HeadLen \in Nat /\ fresh.nRight + HeadLen = HeadLen
    BY <1>1, <1>4
  <2>2. /\ right \in ByteArrays /\ right.nLeft = fresh.nLeft
        /\ right.nRight = fresh.nRight + HeadLen
    BY <1>4, <2>1, RightFields
  <2>3. QED
    BY <1>4, <2>1, <2>2
<1> HIDE DEF right
<1>6. room \in ByteArrays /\ room.nLeft = HeadLen /\ room.nRight = HeadLen
  <2>1. HeadLen \in Int /\ right.nLeft + HeadLen \in Nat /\ right.nLeft + HeadLen = HeadLen
    BY <1>1, <1>5
  <2>2. /\ LeftForward(right, HeadLen) \in ByteArrays
        /\ LeftForward(right, HeadLen).nLeft = right.nLeft + HeadLen
        /\ LeftForward(right, HeadLen).nRight = right.nRight
    BY <1>5, <2>1, LeftFields
  <2>3. QED
    BY <1>5, <2>1, <2>2
<1> HIDE DEF room
<1>7. /\ Serialize(m) \in Seq(Cells) /\ Len(Serialize(m)) = n
      /\ \A k \in 1 .. n : Serialize(m)[k] = BodyCell(m, k)
  <2>1. \A k \in 1 .. n : BodyCell(m, k) \in Cells
    BY <1>1 DEF Cells
  <2>2. QED
    BY <1>1, <2>1 DEF Serialize
<1>8. /\ copy \in ByteArrays /\ copy.nLeft = HeadLen /\ copy.nRight = HeadLen
      /\ \A k \in 1 .. n : copy.arr[HeadLen + k - 1] = BodyCell(m, k)
  <2>0. room.nRight \in Nat
    BY <1>1, <1>6
  <2>1. /\ copy \in ByteArrays /\ copy.nLeft = room.nLeft /\ copy.nRight = room.nRight
        /\ \A i \in Offsets :
              copy.arr[i] = IF i \in room.nRight .. room.nRight + Len(Serialize(m)) - 1
                            THEN Serialize(m)[i - room.nRight + 1] ELSE room.arr[i]
    BY <1>6, <1>7, <2>0, CopiedFields
  <2> HIDE DEF copy
  <2>2. \A i \in Offsets :
           copy.arr[i] = IF i \in HeadLen .. HeadLen + n - 1
                         THEN Serialize(m)[i - HeadLen + 1] ELSE room.arr[i]
    BY <1>6, <1>7, <2>1
  <2>3. ASSUME NEW k \in 1 .. n PROVE copy.arr[HeadLen + k - 1] = BodyCell(m, k)
    <3>1. /\ HeadLen + k - 1 \in Offsets /\ HeadLen + k - 1 \in HeadLen .. HeadLen + n - 1
          /\ (HeadLen + k - 1) - HeadLen + 1 = k
      BY <1>1 DEF Offsets
    <3>2. QED
      BY <1>7, <2>2, <3>1
  <2>4. QED
    BY <1>6, <2>1, <2>3
<1> HIDE DEF copy
<1>9. /\ body \in ByteArrays /\ body.nLeft = HeadLen /\ body.nRight = HeadLen + n
      /\ body.arr = copy.arr
  <2>1. Len(Serialize(m)) \in Nat
    BY <1>1, <1>7
  <2>2. /\ body \in ByteArrays /\ body.nLeft = copy.nLeft
        /\ body.nRight = copy.nRight + Len(Serialize(m)) /\ body.arr = copy.arr
    BY <1>8, <2>1, RightFields
  <2> HIDE DEF body
  <2>3. QED
    BY <1>7, <1>8, <2>2
<1> HIDE DEF body
<1>10. /\ head \in Seq(Cells) /\ Len(head) = HeadLen
       /\ \A k \in 1 .. HeadLen : head[k] = HeadCell(n, k)
  <2>1. body.nRight - HeadLen = n
    BY <1>1, <1>9
  <2>2. \A k \in 1 .. HeadLen : HeadCell(n, k) \in Cells
    BY <1>1 DEF Cells
  <2>3. QED
    BY <1>1, <2>1, <2>2
<1> HIDE DEF head
<1>11. /\ full \in ByteArrays /\ full.nLeft = HeadLen /\ full.nRight = HeadLen + n
       /\ \A k \in 1 .. HeadLen : full.arr[k - 1] = HeadCell(n, k)
       /\ \A k \in 1 .. n : full.arr[HeadLen + k - 1] = BodyCell(m, k)
  <2>1. body.nLeft - Len(head) = 0
    BY <1>1, <1>9, <1>10
  <2>2. /\ full \in ByteArrays /\ full.nLeft = body.nLeft /\ full.nRight = body.nRight
        /\ \A i \in Offsets :
              full.arr[i] = IF i \in body.nLeft - Len(head) .. body.nLeft - Len(head) + Len(head) - 1
                            THEN head[i - (body.nLeft - Len(head)) + 1] ELSE body.arr[i]
    <3>1. body.nLeft - Len(head) \in Nat
      BY <2>1
    <3>2. QED
      BY <1>9, <1>10, <3>1, CopiedFields
  <2> HIDE DEF full
  <2>3. \A i \in Offsets : full.arr[i] = IF i \in 0 .. 0 + HeadLen - 1 THEN head[i - 0 + 1]
                                         ELSE body.arr[i]
    BY <1>10, <2>1, <2>2
  <2>4. ASSUME NEW k \in 1 .. HeadLen PROVE full.arr[k - 1] = HeadCell(n, k)
    <3>1. /\ k - 1 \in Offsets /\ k - 1 \in 0 .. 0 + HeadLen - 1
          /\ (k - 1) - 0 + 1 = k
      BY <1>1 DEF Offsets
    <3>2. QED
      BY <1>10, <2>3, <3>1
  <2>5. ASSUME NEW k \in 1 .. n PROVE full.arr[HeadLen + k - 1] = BodyCell(m, k)
    <3>1. HeadLen + k - 1 \in Offsets /\ HeadLen + k - 1 \notin 0 .. 0 + HeadLen - 1
      BY <1>1 DEF Offsets
    <3>2. QED
      BY <1>8, <1>9, <2>3, <3>1
  <2>6. QED
    BY <1>9, <2>2, <2>4, <2>5
<1> HIDE DEF full
<1>12. b.nRight = HeadLen + n /\ b.arr = full.arr
  <2>1. -Len(head) \in Int /\ full.nLeft + (-Len(head)) \in Nat
    BY <1>1, <1>10, <1>11
  <2>2. b.nRight = full.nRight /\ b.arr = full.arr
    BY <1>11, <2>1, LeftFields
  <2>3. QED
    BY <1>11, <2>2
<1> HIDE DEF b
<1>13. \A k \in 1 .. HeadLen : Package(m)[k] = HeadCell(n, k)
  BY <1>1, <1>2, <1>11, <1>12
<1>14. \A k \in 1 .. n : Package(m)[HeadLen + k] = BodyCell(m, k)
  BY <1>1, <1>2, <1>11, <1>12
<1>15. \A k \in 1 .. HeadLen + n : Package(m)[k] \in Cells
  <2> SUFFICES ASSUME NEW k \in 1 .. HeadLen + n PROVE Package(m)[k] \in Cells
    OBVIOUS
  <2>1. k - 1 \in Offsets
    BY <1>1, k \in 1 .. HeadLen + n DEF Offsets
  <2>2. full.arr[k - 1] \in Cells
    BY <1>11, <2>1 DEF ByteArrays
  <2>3. QED
    BY <1>2, <1>12, <2>2
<1>16. Package(m) \in Seq(Cells) /\ Len(Package(m)) = HeadLen + n
  <2>1. HeadLen + n \in Nat
    BY <1>1
  <2>2. Package(m) = [k \in 1 .. HeadLen + n |-> full.arr[k - 1]]
    BY <1>2, <1>12
  <2>3. \A k \in 1 .. HeadLen + n : full.arr[k - 1] \in Cells
    BY <1>15, <2>2
  <2>4. Package(m) \in [1 .. HeadLen + n -> Cells]
    BY <2>2, <2>3
  <2> HIDE DEF n
  <2>5. QED
    BY <2>1, <2>4
<1>17. QED
  BY <1>1, <1>13, <1>14, <1>16 DEF PackageLen

\* The array after a read of some cells at nRight.
Filled(r, cells) == RightForward(Copied(r.buf, r.buf.nRight, cells), Len(cells))

(* A read adds its cells behind the ones already there.                      *)
LEMMA FilledFields ==
  ASSUME NEW r \in Receivers, NEW cells \in Seq(Cells)
  PROVE  /\ Filled(r, cells) \in ByteArrays
         /\ Filled(r, cells).nLeft = r.buf.nLeft
         /\ Filled(r, cells).nRight = r.buf.nRight + Len(cells)
         /\ \A i \in Offsets :
              Filled(r, cells).arr[i] =
                IF i \in r.buf.nRight .. r.buf.nRight + Len(cells) - 1
                THEN cells[i - r.buf.nRight + 1] ELSE r.buf.arr[i]
<1> DEFINE c == Copied(r.buf, r.buf.nRight, cells)
<1>1. r.buf \in ByteArrays /\ r.buf.nRight \in Nat /\ Len(cells) \in Nat
  BY DEF Receivers, ByteArrays
<1>2. /\ c \in ByteArrays /\ c.nLeft = r.buf.nLeft /\ c.nRight = r.buf.nRight
      /\ \A i \in Offsets : c.arr[i] = IF i \in r.buf.nRight .. r.buf.nRight + Len(cells) - 1
                                       THEN cells[i - r.buf.nRight + 1] ELSE r.buf.arr[i]
  BY <1>1, CopiedFields, ZenonT(60)
<1>3. Filled(r, cells) = RightForward(c, Len(cells))
  BY DEF Filled
<1> HIDE DEF c
<1>4. /\ RightForward(c, Len(cells)) \in ByteArrays
      /\ RightForward(c, Len(cells)).nLeft = c.nLeft
      /\ RightForward(c, Len(cells)).nRight = c.nRight + Len(cells)
      /\ RightForward(c, Len(cells)).arr = c.arr
  BY <1>1, <1>2, RightFields
<1>5. QED
  BY <1>2, <1>3, <1>4

(* The three ways a read can end: more of the same part is needed, the head  *)
(* is complete, or the body is.                                              *)
LEMMA ReceivedCases ==
  ASSUME NEW r \in Receivers, NEW cells \in Seq(Cells), Len(cells) <= r.nNeedRead,
         NEW x \in Received(r, cells)
  PROVE  \/ /\ Len(cells) < r.nNeedRead /\ x.out = <<>>
            /\ x.rx = [buf |-> Filled(r, cells), recvStat |-> r.recvStat,
                       nNeedRead |-> r.nNeedRead - Len(cells)]
         \/ /\ Len(cells) = r.nNeedRead /\ r.recvStat = "Head" /\ x.out = <<>>
            /\ \E n \in HeadLengths(Filled(r, cells)) :
                 x.rx = [buf |-> Filled(r, cells), recvStat |-> "Body", nNeedRead |-> n]
         \/ /\ Len(cells) = r.nNeedRead /\ r.recvStat = "Body"
            /\ \E m \in Decoded(LeftForward(Filled(r, cells), HeadLen)) : x.out = <<m>>
            /\ x.rx = [buf |-> InitArray(LeftForward(Filled(r, cells), HeadLen)),
                       recvStat |-> "Head", nNeedRead |-> HeadLen]
<1> DEFINE b == Filled(r, cells)
           body == LeftForward(b, HeadLen)
<1>1. Received(r, cells) =
        IF Len(cells) < r.nNeedRead
        THEN {[rx |-> [r EXCEPT !.buf = b, !.nNeedRead = @ - Len(cells)], out |-> <<>>]}
        ELSE IF r.recvStat = "Head"
        THEN {[rx |-> [buf |-> b, recvStat |-> "Body", nNeedRead |-> n], out |-> <<>>] :
                n \in HeadLengths(b)}
        ELSE {[rx |-> [buf |-> InitArray(body), recvStat |-> "Head", nNeedRead |-> HeadLen],
               out |-> <<m>>] : m \in Decoded(body)}
  BY DEF Received, Filled
<1> HIDE DEF b, body
<1>2. r.nNeedRead \in Nat /\ Len(cells) \in Nat /\ r.recvStat \in {"Head", "Body"}
  BY DEF Receivers
<1>3. CASE Len(cells) < r.nNeedRead
  <2>1. x.rx = [r EXCEPT !.buf = b, !.nNeedRead = @ - Len(cells)] /\ x.out = <<>>
    BY <1>1, <1>3
  <2>2. x.rx = [buf |-> b, recvStat |-> r.recvStat, nNeedRead |-> r.nNeedRead - Len(cells)]
    BY <2>1 DEF Receivers
  <2>3. QED
    BY <1>3, <2>1, <2>2 DEF b
<1>4. CASE ~(Len(cells) < r.nNeedRead) /\ r.recvStat = "Head"
  <2>1. \E n \in HeadLengths(b) :
          x = [rx |-> [buf |-> b, recvStat |-> "Body", nNeedRead |-> n], out |-> <<>>]
    BY <1>1, <1>4
  <2>2. x.out = <<>> /\ \E n \in HeadLengths(b) :
                           x.rx = [buf |-> b, recvStat |-> "Body", nNeedRead |-> n]
    BY <2>1
  <2>3. Len(cells) = r.nNeedRead
    BY <1>2, <1>4
  <2>4. QED
    BY <1>4, <2>2, <2>3 DEF b
<1>5. CASE ~(Len(cells) < r.nNeedRead) /\ r.recvStat # "Head"
  <2>1. \E m \in Decoded(body) :
          x = [rx |-> [buf |-> InitArray(body), recvStat |-> "Head", nNeedRead |-> HeadLen],
               out |-> <<m>>]
    BY <1>1, <1>5
  <2>2. /\ \E m \in Decoded(body) : x.out = <<m>>
        /\ x.rx = [buf |-> InitArray(body), recvStat |-> "Head", nNeedRead |-> HeadLen]
    BY <2>1
  <2>3. Len(cells) = r.nNeedRead /\ r.recvStat = "Body"
    BY <1>2, <1>5
  <2>4. QED
    BY <2>2, <2>3 DEF b, body
<1>6. QED
  BY <1>3, <1>4, <1>5

\* What holds of the receive machine however it was fed: recvStat may lag behind
\* after a connection that ended inside a body, the bounds do not.
MachineOK(r) ==
  /\ r \in Receivers /\ r.buf.nLeft = 0
  /\ r.buf.nRight + r.nNeedRead <= HeadLen + MaxBody
  /\ r.recvStat = "Head" => r.buf.nRight + r.nNeedRead = HeadLen

(* A read never runs past the end of the array, whatever its cells are.      *)
LEMMA ReceivedOK ==
  ASSUME NEW r, MachineOK(r), NEW cells \in Seq(Cells), Len(cells) <= r.nNeedRead,
         NEW x \in Received(r, cells)
  PROVE  /\ MachineOK(x.rx)
         /\ \/ x.out = <<>>
            \/ \E m \in Messages \cup {Garbage, Crash} : x.out = <<m>>
<1>1. HeadLen \in Nat \ {0} /\ MaxBody \in Nat \ {0}
  BY StreamAssumption
<1>2. r \in Receivers /\ r.buf \in ByteArrays /\ r.nNeedRead \in Nat /\ r.buf.nRight \in Nat
      /\ Len(cells) \in Nat /\ r.recvStat \in {"Head", "Body"}
  BY DEF MachineOK, Receivers, ByteArrays
<1> DEFINE b == Filled(r, cells)
<1>3. b \in ByteArrays /\ b.nLeft = 0 /\ b.nRight = r.buf.nRight + Len(cells)
  BY <1>2, FilledFields DEF MachineOK
<1> HIDE DEF b
<1>4. CASE /\ Len(cells) < r.nNeedRead /\ x.out = <<>>
           /\ x.rx = [buf |-> b, recvStat |-> r.recvStat, nNeedRead |-> r.nNeedRead - Len(cells)]
  <2>1. r.nNeedRead - Len(cells) \in Nat
        /\ b.nRight + (r.nNeedRead - Len(cells)) = r.buf.nRight + r.nNeedRead
    BY <1>2, <1>3, <1>4
  <2>2. QED
    BY <1>2, <1>3, <1>4, <2>1 DEF MachineOK, Receivers
<1>5. ASSUME Len(cells) = r.nNeedRead, r.recvStat = "Head", x.out = <<>>,
             NEW n \in HeadLengths(b),
             x.rx = [buf |-> b, recvStat |-> "Body", nNeedRead |-> n]
      PROVE  MachineOK(x.rx)
  <2>1. n \in 0 .. MaxBody
    BY DEF HeadLengths
  <2>2. b.nRight = HeadLen
    BY <1>2, <1>3, <1>5 DEF MachineOK
  <2>3. n \in Nat /\ b.nRight + n <= HeadLen + MaxBody
    BY <1>1, <2>1, <2>2
  <2>4. QED
    BY <1>3, <1>5, <2>3 DEF MachineOK, Receivers
<1>6. ASSUME NEW m \in Decoded(LeftForward(b, HeadLen)), x.out = <<m>>,
             x.rx = [buf |-> InitArray(LeftForward(b, HeadLen)),
                     recvStat |-> "Head", nNeedRead |-> HeadLen]
      PROVE  MachineOK(x.rx) /\ m \in Messages \cup {Garbage, Crash}
  <2>1. HeadLen \in Int /\ b.nLeft + HeadLen \in Nat
    BY <1>1, <1>3
  <2>2. LeftForward(b, HeadLen) \in ByteArrays
    BY <1>3, <2>1, LeftFields
  <2> DEFINE body == LeftForward(b, HeadLen)
  <2>3. m \in Messages \cup {Garbage, Crash}
    BY DEF Decoded
  <2> HIDE DEF body
  <2>4. InitArray(body) \in ByteArrays /\ InitArray(body).nLeft = 0 /\ InitArray(body).nRight = 0
    BY <2>2, InitFields DEF body
  <2>5. x.rx = [buf |-> InitArray(body), recvStat |-> "Head", nNeedRead |-> HeadLen]
    BY <1>6 DEF body
  <2>6. MachineOK(x.rx)
    BY <1>1, <2>4, <2>5 DEF MachineOK, Receivers
  <2>7. QED
    BY <2>3, <2>6
<1>7. QED
  BY <1>2, <1>4, <1>5, <1>6, ReceivedCases DEF b

-----------------------------------------------------------------------------
(* The handles                                                               *)

\* Which timers can be active in which state of tcpHandle.
TimersFit ==
  /\ thread \in {"none", "new"} => tcp = "init" /\ ~recnTimer /\ ~initTimer
  /\ initTimer => tcp = "init" /\ ~recnTimer
  /\ recnTimer => tcp \in {"closing", "closed", "failed"}

\* A write that libuv owes a callback is the one the busy flag stands for.
WriteOwned == writing => bReqWritereqBusy

HandleInv ==
  /\ HandleDiscipline /\ MachineOK(rx) /\ TimersFit /\ WriteOwned /\ NeverStranded

\* The parts of the state that the receive machine works on.
RecvTypes ==
  /\ MachineOK(rx) /\ wire \in Seq(Cells)
  /\ srvLog \in Seq(Messages) /\ spiLog \in Seq(Messages \cup {Garbage})

\* The parts that the sending side works on.
SendTypes ==
  /\ sendCache \in Seq(Posts \cup {Heartbeat}) /\ Len(sendCache) <= CacheSize
  /\ bReqWritereqBusy \in BOOLEAN /\ writing \in BOOLEAN
  /\ bReqWritereqBusy => sendCache # <<>> \/ raced
  /\ writing => bReqWritereqBusy
  /\ raced \in BOOLEAN
  /\ posting # {} => Len(sendCache) < CacheSize \/ raced
  /\ writeAge \in 0 .. MaxWriteIdle + 1 /\ failedWrite \in BOOLEAN

\* The parts that the handles and the threads work on.
LinkTypes ==
  /\ thread \in {"none", "new", "run", "ended", "crashed"}
  /\ bStop \in BOOLEAN /\ bAutoReconn \in BOOLEAN /\ bConnected \in BOOLEAN
  /\ tcp \in {"init", "connecting", "up", "closing", "closed", "failed"}
  /\ bConnected <=> tcp = "up"
  /\ idle \in BOOLEAN /\ initTimer \in BOOLEAN /\ recnTimer \in BOOLEAN
  /\ posted \subseteq Posts /\ posting \subseteq posted /\ losses \in 0 .. MaxLosses /\ sends \in 0 .. MaxSent
  /\ torn \in BOOLEAN /\ resigned \in BOOLEAN
  /\ TimersFit /\ NeverStranded

(* The inductive invariant is the three parts together.                      *)
LEMMA HandleInvParts == HandleInv <=> LinkTypes /\ SendTypes /\ RecvTypes
  BY DEF HandleInv, HandleDiscipline, TypeOK, LinkTypes, SendTypes, RecvTypes, MachineOK,
         WriteOwned

(* The client starts with everything idle.                                   *)
LEMMA HandleInit == Init => HandleInv
<1> SUFFICES ASSUME Init PROVE HandleInv
  OBVIOUS
<1>1. LinkTypes
  <2>1. losses \in 0 .. MaxLosses /\ sends \in 0 .. MaxSent
    BY ClientAssumption DEF Init
  <2>2. QED
    BY <2>1 DEF Init, LinkTypes, TimersFit, NeverStranded
<1>2. SendTypes
  <2>1. /\ writeAge \in 0 .. MaxWriteIdle + 1
        /\ sendCache \in Seq(Posts \cup {Heartbeat}) /\ Len(sendCache) <= CacheSize
    BY ClientAssumption DEF Init
  <2>2. QED
    BY <2>1 DEF Init, SendTypes
<1>3. RecvTypes
  <2>1. NewArray \in ByteArrays /\ NewArray.nLeft = 0 /\ NewArray.nRight = 0
    BY DEF NewArray, ByteArrays, Cells
  <2>2. MachineOK(rx)
    BY <2>1, StreamAssumption DEF Init, NewReceiver, MachineOK, Receivers
  <2>3. QED
    BY <2>2 DEF Init, RecvTypes
<1>4. QED
  BY <1>1, <1>2, <1>3, HandleInvParts

(* What connectServer does from a handle that may be connected.              *)
LEMMA ConnectServerOK ==
  ASSUME LinkTypes, connectServer, tcp \in {"init", "closed", "failed"}
  PROVE  /\ tcp' = "connecting" \/ (tcp' = "failed" /\ resigned')
         /\ resigned' \in BOOLEAN /\ losses' \in 0 .. MaxLosses
<1>1. losses < MaxLosses => losses + 1 \in 0 .. MaxLosses
  BY ClientAssumption DEF LinkTypes
<1>2. QED
  BY <1>1 DEF connectServer, LinkTypes

(* closeConnection closes an open handle, and only that one.                 *)
LEMMA CloseConnectionOK ==
  ASSUME LinkTypes, closeConnection
  PROVE  /\ tcp' = IF tcp = "up" THEN "closing" ELSE tcp
         /\ bConnected' = FALSE /\ torn' \in BOOLEAN
  BY DEF closeConnection, uv_close, LinkTypes

(* Every callback leaves the handles as libuv wants them, and never forgets  *)
(* to reconnect.                                                             *)
LEMMA LinkStep ==
  ASSUME LinkTypes, SendTypes, [Next]_vars
  PROVE  LinkTypes'
<1> USE DEF TimersFit, NeverStranded
<1>1. CASE App
  <2>1. posted' \subseteq Posts /\ posting' \subseteq posted'
    <3>1. ASSUME NEW m \in Posts, postMsg(m)
          PROVE  posted' = posted \cup {m} /\ (posting' = {m} \/ posting' = {})
      BY <3>1 DEF postMsg
    <3>2. QED
      BY <1>1, <3>1 DEF App, Start, Stop, SetAutoReconnect, tailForward, LinkTypes
  <2>2. CASE Start
    BY <2>2 DEF Start, LinkTypes, loopVars, recvVars
  <2>3. CASE Stop
    BY <2>3 DEF Stop, LinkTypes, loopVars, recvVars
  <2>4. ASSUME NEW recon \in BOOLEAN, SetAutoReconnect(recon) PROVE LinkTypes'
    BY <2>4 DEF SetAutoReconnect, LinkTypes, loopVars, recvVars
  <2>5. ASSUME NEW m \in Posts, postMsg(m) PROVE LinkTypes'
    BY <2>1, <2>5 DEF postMsg, LinkTypes, loopVars, recvVars
  <2>6. ASSUME NEW m \in Posts, tailForward(m) PROVE LinkTypes'
    BY <2>1, <2>6 DEF tailForward, LinkTypes, loopVars, recvVars
  <2>7. QED
    BY <1>1, <2>2, <2>3, <2>4, <2>5, <2>6 DEF App
<1>2. CASE loopFunction
  BY <1>2 DEF loopFunction, LinkTypes, appVars, recvVars
<1>3. CASE uv_run_returns
  BY <1>3 DEF uv_run_returns, InLoop, LinkTypes, appVars, loopVars, recvVars
<1>4. CASE init_timer_cb
  <2>1. /\ tcp' = "connecting" \/ (tcp' = "failed" /\ resigned')
        /\ resigned' \in BOOLEAN /\ losses' \in 0 .. MaxLosses
    BY <1>4, ConnectServerOK DEF init_timer_cb, LinkTypes
  <2>2. QED
    BY <1>4, <2>1 DEF init_timer_cb, InLoop, LinkTypes, appVars, recvVars
<1>5. CASE reconn_timer_cb
  <2>1. ~bConnected /\ connectServer /\ tcp \in {"init", "closed", "failed"}
    BY <1>5 DEF reconn_timer_cb, InLoop, LinkTypes
  <2>2. /\ tcp' = "connecting" \/ (tcp' = "failed" /\ resigned')
        /\ resigned' \in BOOLEAN /\ losses' \in 0 .. MaxLosses
    BY <2>1, ConnectServerOK
  <2>3. QED
    BY <1>5, <2>1, <2>2 DEF reconn_timer_cb, InLoop, LinkTypes, appVars, recvVars
<1>6. CASE connect_cb
  BY <1>6 DEF connect_cb, InLoop, LinkTypes, appVars
<1>7. CASE connect_cb_error
  <2>1. losses' \in 0 .. MaxLosses
    BY <1>7, ClientAssumption DEF connect_cb_error, LinkTypes
  <2>2. QED
    BY <1>7, <2>1 DEF connect_cb_error, startReconnTimer, InLoop, LinkTypes, appVars,
                      recvVars
<1>8. CASE read_cb
  <2>1. thread' \in {thread, "crashed"} /\ thread = "run"
    BY <1>8 DEF read_cb, InLoop
  <2>2. QED
    BY <1>8, <2>1 DEF read_cb, LinkTypes, appVars, loopVars
<1>9. CASE read_cb_error
  <2>1. tcp' = "closing" /\ bConnected' = FALSE /\ torn' \in BOOLEAN
    BY <1>9, CloseConnectionOK DEF read_cb_error
  <2>2. losses' \in 0 .. MaxLosses
    BY <1>9, ClientAssumption DEF read_cb_error, LinkTypes
  <2>3. QED
    BY <1>9, <2>1, <2>2 DEF read_cb_error, startReconnTimer, InLoop, LinkTypes, appVars
<1>10. CASE req_write_cb
  BY <1>10 DEF req_write_cb, InLoop, LinkTypes, appVars, loopVars, recvVars
<1>11. CASE req_write_cb_error
  <2>1. tcp' = "closing" /\ bConnected' = FALSE /\ torn' \in BOOLEAN
    BY <1>11, CloseConnectionOK DEF req_write_cb_error
  <2>2. losses' \in 0 .. MaxLosses
    BY <1>11, ClientAssumption DEF req_write_cb_error, LinkTypes
  <2>3. QED
    BY <1>11, <2>1, <2>2 DEF req_write_cb_error, startReconnTimer, LinkTypes, appVars
<1>12. CASE close_done
  BY <1>12 DEF close_done, LinkTypes, appVars, loopVars
<1>13. CASE idle_cb
  <2>1. \/ /\ bStop /\ idle' = FALSE /\ bConnected' = FALSE /\ torn' \in BOOLEAN
           /\ tcp' = IF tcp = "up" THEN "closing" ELSE tcp
        \/ UNCHANGED <<idle, tcp, torn, bConnected>>
    BY <1>13, CloseConnectionOK DEF idle_cb, idle_ends
  <2>2. /\ thread = "run" /\ thread' \in {"run", "crashed"}
        /\ UNCHANGED <<bStop, bAutoReconn, posted, posting, initTimer, recnTimer,
                       losses, sends, resigned>>
    BY <1>13 DEF idle_cb, sendHeartbeat, InLoop, appVars
  <2>3. CASE UNCHANGED <<idle, tcp, torn, bConnected>>
    BY <2>2, <2>3 DEF LinkTypes
  <2>4. CASE tcp = "up" /\ bStop /\ idle' = FALSE /\ bConnected' = FALSE
             /\ torn' \in BOOLEAN /\ tcp' = "closing"
    BY <2>2, <2>4 DEF LinkTypes
  <2>5. CASE tcp # "up" /\ bStop /\ idle' = FALSE /\ bConnected' = FALSE
             /\ torn' \in BOOLEAN /\ tcp' = tcp
    BY <2>2, <2>5 DEF LinkTypes
  <2>6. QED
    BY <2>1, <2>3, <2>4, <2>5
<1>14. CASE \E m \in Messages : server_sends(m)
  BY <1>14, ClientAssumption DEF server_sends, LinkTypes, appVars, loopVars
<1>15. CASE second_passes
  BY <1>15 DEF second_passes, LinkTypes, appVars, loopVars, recvVars
<1>16. CASE UNCHANGED vars
  BY <1>16 DEF vars, LinkTypes
<1>17. QED
  BY <1>1, <1>2, <1>3, <1>4, <1>5, <1>6, <1>7, <1>8, <1>9, <1>10, <1>11, <1>12, <1>13,
     <1>14, <1>15, <1>16 DEF Next, Loop

(* The cache is popped only for a write that it holds, and never overfilled. *)
LEMMA SendStep ==
  ASSUME LinkTypes, SendTypes, [Next]_vars
  PROVE  SendTypes'
<1>1. CASE UNCHANGED sendVars /\ UNCHANGED posting
  BY <1>1 DEF SendTypes, sendVars
<1>2. ASSUME NEW m \in Posts, postMsg(m) \/ tailForward(m) PROVE SendTypes'
  <2>1. UNCHANGED <<bReqWritereqBusy, raced, writing, writeAge, failedWrite>>
    BY <1>2 DEF postMsg, tailForward, sendVars
  <2>2. Len(sendCache) \in 0 .. CacheSize
    BY DEF SendTypes
  <2>3. CASE postMsg(m)
    <3>1. sendCache' = sendCache
      BY <2>3 DEF postMsg, sendVars
    <3>2. posting' # {} => Len(sendCache) # CacheSize \/ raced
      BY <2>3 DEF postMsg, Full
    <3>3. posting' # {} => Len(sendCache') < CacheSize \/ raced'
      BY <2>1, <2>2, <3>1, <3>2, ClientAssumption
    <3>4. QED
      BY <2>1, <3>1, <3>3 DEF SendTypes
  <2>4. CASE tailForward(m)
    <3>1. posting' = {} /\ sendCache' = IF raced THEN <<>> ELSE Append(sendCache, m)
      BY <2>4 DEF tailForward
    <3>2. Len(sendCache) < CacheSize \/ raced
      BY <2>4 DEF tailForward, SendTypes
    <3>3. CASE raced
      BY <2>1, <3>1, <3>3, ClientAssumption DEF SendTypes
    <3>4. CASE ~raced
      <4>1. sendCache' = Append(sendCache, m) /\ Len(sendCache) < CacheSize
        BY <3>1, <3>2, <3>4
      <4>2. /\ sendCache' \in Seq(Posts \cup {Heartbeat}) /\ Len(sendCache') <= CacheSize
            /\ sendCache' # <<>>
        BY <4>1, ClientAssumption DEF SendTypes
      <4>3. QED
        BY <2>1, <3>1, <4>2 DEF SendTypes
    <3>5. QED
      BY <3>3, <3>4
  <2>5. QED
    BY <1>2, <2>3, <2>4
<1>3. CASE loopFunction
  BY <1>3, ClientAssumption DEF loopFunction, SendTypes, appVars
<1>4. CASE req_write_cb
  <2>1. sendCache # <<>> \/ raced
    BY <1>4 DEF req_write_cb, SendTypes
  <2>2. /\ sendCache' \in Seq(Posts \cup {Heartbeat}) /\ Len(sendCache') <= CacheSize
        /\ posting' # {} => Len(sendCache') < CacheSize \/ raced'
    <3>1. /\ sendCache' = IF raced THEN <<>> ELSE Tail(sendCache)
          /\ UNCHANGED <<posting, raced>>
      BY <1>4 DEF req_write_cb, headForward, appVars
    <3>2. CASE raced
      BY <3>1, <3>2, ClientAssumption
    <3>3. CASE ~raced
      <4>1. /\ sendCache' \in Seq(Posts \cup {Heartbeat})
            /\ Len(sendCache') = Len(sendCache) - 1 /\ Len(sendCache) \in Nat
        BY <2>1, <3>1, <3>3 DEF SendTypes
      <4>2. Len(sendCache') <= CacheSize /\ Len(sendCache') < CacheSize
        BY <4>1, ClientAssumption DEF SendTypes
      <4>3. QED
        BY <4>1, <4>2
    <3>4. QED
      BY <3>2, <3>3
  <2>3. writeAge' \in 0 .. MaxWriteIdle + 1
    BY <1>4, ClientAssumption DEF req_write_cb
  <2>4. QED
    BY <1>4, <2>2, <2>3 DEF req_write_cb, SendTypes
<1>5. CASE req_write_cb_error
  BY <1>5 DEF req_write_cb_error, SendTypes, appVars
<1>6. CASE idle_cb
  <2>1. /\ raced' \in BOOLEAN /\ (raced => raced')
        /\ UNCHANGED <<failedWrite, posting>>
    BY <1>6 DEF idle_cb, sendHeartbeat, appVars, SendTypes
  <2>2. PICK empty \in Empty :
          LET write == bConnected /\ ~empty /\ ~bReqWritereqBusy
          IN  /\ bReqWritereqBusy' = (bReqWritereqBusy \/ write)
              /\ writing' = (writing \/ write)
    BY <1>6 DEF idle_cb
  <2>3. empty \in BOOLEAN /\ (~raced => empty = (sendCache = <<>>))
    BY <2>2 DEF Empty, SendTypes
  <2>4. /\ bReqWritereqBusy' \in BOOLEAN /\ writing' \in BOOLEAN
        /\ writing' => bReqWritereqBusy'
        /\ bReqWritereqBusy' => sendCache # <<>> \/ raced
    BY <2>2, <2>3 DEF SendTypes, LinkTypes
  <2>5. /\ sendCache' \in Seq(Posts \cup {Heartbeat}) /\ Len(sendCache') <= CacheSize
        /\ (sendCache # <<>> => sendCache' # <<>> \/ raced')
        /\ (posting' # {} => Len(sendCache') < CacheSize \/ raced')
    <3>1. CASE sendCache' = sendCache
      BY <2>1, <3>1 DEF SendTypes
    <3>2. CASE raced' /\ sendCache' = <<>>
      BY <3>2, ClientAssumption
    <3>3. CASE ~raced' /\ Len(sendCache) # CacheSize /\ sendCache' = Append(sendCache, Heartbeat)
               /\ posting = {}
      BY <2>1, <3>3, ClientAssumption DEF SendTypes
    <3>4. QED
      BY <1>6, <3>1, <3>2, <3>3 DEF idle_cb, sendHeartbeat
  <2>6. writeAge' \in 0 .. MaxWriteIdle + 1
    BY <1>6, ClientAssumption DEF idle_cb, SendTypes
  <2>7. QED
    BY <2>1, <2>4, <2>5, <2>6 DEF SendTypes
<1>7. CASE second_passes
  BY <1>7, ClientAssumption DEF second_passes, SendTypes, appVars
<1>8. QED
  BY <1>1, <1>2, <1>3, <1>4, <1>5, <1>6, <1>7 DEF Next, App, Loop, Start, Stop,
     SetAutoReconnect, uv_run_returns, init_timer_cb, reconn_timer_cb, connect_cb,
     connect_cb_error, read_cb, read_cb_error, close_done, server_sends, vars, sendVars,
     appVars

(* The first cells of the wire are cells, and so is what they leave behind.  *)
LEMMA WireSplit ==
  ASSUME wire \in Seq(Cells), NEW n \in 1 .. Len(wire)
  PROVE  /\ SubSeq(wire, 1, n) \in Seq(Cells) /\ Len(SubSeq(wire, 1, n)) = n
         /\ \A k \in 1 .. n : SubSeq(wire, 1, n)[k] = wire[k]
         /\ SubSeq(wire, n + 1, Len(wire)) \in Seq(Cells)
         /\ Len(SubSeq(wire, n + 1, Len(wire))) = Len(wire) - n
         /\ \A k \in 1 .. Len(wire) - n : SubSeq(wire, n + 1, Len(wire))[k] = wire[n + k]
<1>1. Len(wire) \in Nat /\ \A k \in 1 .. Len(wire) : wire[k] \in Cells
  BY LenProperties, ElementOfSeq
<1>2. \A k \in 1 .. n : wire[k] \in Cells
  BY <1>1
<1>3. \A k \in n + 1 .. Len(wire) : wire[k] \in Cells
  BY <1>1
<1>4. SubSeq(wire, 1, n) \in Seq(Cells) /\ SubSeq(wire, n + 1, Len(wire)) \in Seq(Cells)
  BY <1>1, <1>2, <1>3, SubSeqProperties
<1>5. QED
  BY <1>1, <1>4

(* A read takes some cells off the wire and feeds them to the machine.       *)
LEMMA ReadEffect ==
  ASSUME RecvTypes, read_cb
  PROVE  \E n \in 1 .. Len(wire) :
           /\ n <= rx.nNeedRead /\ wire' = SubSeq(wire, n + 1, Len(wire))
           /\ \E x \in Received(rx, SubSeq(wire, 1, n)) :
                /\ rx' = x.rx
                /\ IF x.out = <<Crash>> THEN UNCHANGED spiLog ELSE spiLog' = spiLog \o x.out
<1>1. PICK n \in 1 .. rx.nNeedRead :
        /\ n <= Len(wire) /\ wire' = SubSeq(wire, n + 1, Len(wire))
        /\ \E x \in Received(rx, SubSeq(wire, 1, n)) :
             /\ rx' = x.rx
             /\ IF x.out = <<Crash>> THEN UNCHANGED spiLog ELSE spiLog' = spiLog \o x.out
  BY DEF read_cb
<1>2. rx.nNeedRead \in Nat /\ Len(wire) \in Nat
  BY DEF RecvTypes, MachineOK, Receivers
<1>3. n \in 1 .. Len(wire) /\ n <= rx.nNeedRead
  BY <1>1, <1>2
<1>4. QED
  BY <1>1, <1>3

(* Whatever arrives, the machine stays inside its array.                     *)
LEMMA RecvStep ==
  ASSUME RecvTypes, [Next]_vars
  PROVE  RecvTypes'
<1>1. CASE UNCHANGED <<rx, wire, srvLog, spiLog>>
  BY <1>1 DEF RecvTypes, MachineOK
<1>2. CASE connect_cb
  <2>1. rx' = [rx EXCEPT !.buf = InitArray(@), !.nNeedRead = HeadLen]
    BY <1>2 DEF connect_cb, ReceiverConnected
  <2>2. rx \in Receivers /\ rx.buf \in ByteArrays
    BY DEF RecvTypes, MachineOK, Receivers
  <2>3. /\ InitArray(rx.buf) \in ByteArrays /\ InitArray(rx.buf).nLeft = 0
        /\ InitArray(rx.buf).nRight = 0
    BY <2>2, InitFields
  <2>4. rx' = [buf |-> InitArray(rx.buf), recvStat |-> rx.recvStat, nNeedRead |-> HeadLen]
    BY <2>1, <2>2 DEF Receivers
  <2>5. rx.recvStat \in {"Head", "Body"}
    BY <2>2 DEF Receivers
  <2>6. MachineOK(rx')
    BY <2>3, <2>4, <2>5, StreamAssumption DEF MachineOK, Receivers
  <2>7. QED
    BY <1>2, <2>6 DEF connect_cb, RecvTypes, MachineOK
<1>3. CASE read_cb
  <2>0. PICK n \in 1 .. Len(wire) :
           /\ n <= rx.nNeedRead /\ wire' = SubSeq(wire, n + 1, Len(wire))
           /\ \E x \in Received(rx, SubSeq(wire, 1, n)) :
                /\ rx' = x.rx
                /\ IF x.out = <<Crash>> THEN UNCHANGED spiLog ELSE spiLog' = spiLog \o x.out
    BY <1>3, ReadEffect
  <2>1. PICK x \in Received(rx, SubSeq(wire, 1, n)) :
           /\ rx' = x.rx
           /\ IF x.out = <<Crash>> THEN UNCHANGED spiLog ELSE spiLog' = spiLog \o x.out
    BY <2>0
  <2> DEFINE cells == SubSeq(wire, 1, n)
  <2>2. cells \in Seq(Cells) /\ Len(cells) = n /\ wire' \in Seq(Cells)
    BY <2>0, WireSplit DEF RecvTypes
  <2>3. Len(cells) <= rx.nNeedRead
    BY <2>0, <2>2
  <2> HIDE DEF cells
  <2>4. /\ MachineOK(x.rx)
        /\ \/ x.out = <<>>
           \/ \E m \in Messages \cup {Garbage, Crash} : x.out = <<m>>
    <3>1. x \in Received(rx, cells)
      BY <2>1 DEF cells
    <3>2. QED
      BY <2>2, <2>3, <3>1, ReceivedOK DEF RecvTypes
  <2>5. spiLog' \in Seq(Messages \cup {Garbage})
    <3>1. CASE x.out = <<Crash>>
      BY <2>1, <3>1 DEF RecvTypes
    <3>2. CASE x.out = <<>>
      <4>1. spiLog' = spiLog \o <<>>
        BY <2>1, <3>2
      <4>2. QED
        BY <4>1, EmptySeq, ConcatProperties DEF RecvTypes
    <3>3. ASSUME NEW m \in Messages \cup {Garbage, Crash}, x.out = <<m>>, x.out # <<Crash>>
          PROVE  spiLog' \in Seq(Messages \cup {Garbage})
      <4>1. m \in Messages \cup {Garbage}
        BY <3>3
      <4>2. spiLog' = spiLog \o <<m>> /\ <<m>> \in Seq(Messages \cup {Garbage})
        BY <2>1, <3>3, <4>1
      <4>3. QED
        BY <4>2, ConcatProperties DEF RecvTypes
    <3>4. QED
      BY <2>4, <3>1, <3>2, <3>3
  <2>6. UNCHANGED srvLog /\ MachineOK(rx')
    BY <1>3, <2>1, <2>4 DEF read_cb
  <2>7. QED
    BY <2>2, <2>5, <2>6 DEF RecvTypes, MachineOK
<1>4. ASSUME NEW m \in Messages, server_sends(m) PROVE RecvTypes'
  <2>1. /\ wire' = wire \o Package(m) /\ srvLog' = Append(srvLog, m)
        /\ UNCHANGED <<rx, spiLog>>
    BY <1>4 DEF server_sends
  <2>2. Package(m) \in Seq(Cells)
    BY PackageLayout
  <2>3. wire' \in Seq(Cells)
    BY <2>1, <2>2, ConcatProperties DEF RecvTypes
  <2>4. srvLog' \in Seq(Messages)
    BY <2>1 DEF RecvTypes
  <2>5. QED
    BY <2>1, <2>3, <2>4 DEF RecvTypes, MachineOK
<1>5. CASE close_done
  BY <1>5 DEF close_done, RecvTypes, MachineOK
<1>6. QED
  BY <1>1, <1>2, <1>3, <1>4, <1>5 DEF Next, App, Loop, Start, Stop, SetAutoReconnect,
     postMsg, tailForward, loopFunction, uv_run_returns, init_timer_cb, reconn_timer_cb,
     connect_cb_error, read_cb_error, req_write_cb, req_write_cb_error, idle_cb,
     second_passes, vars, recvVars

(* The invariant holds in every reachable state.                             *)
LEMMA HandleInvHolds == Spec => []HandleInv
<1>1. HandleInv /\ [Next]_vars => HandleInv'
  <2> SUFFICES ASSUME HandleInv, [Next]_vars PROVE HandleInv'
    OBVIOUS
  <2>1. LinkTypes /\ SendTypes /\ RecvTypes
    BY HandleInvParts
  <2>2. LinkTypes' /\ SendTypes' /\ RecvTypes'
    BY <2>1, LinkStep, SendStep, RecvStep
  <2>3. QED
    BY <2>2, HandleInvParts, PTL
<1>2. QED
  BY <1>1, HandleInit, PTL DEF Spec

(* libuv never aborts the process: whichever order errors, cancelled writes, *)
(* timers and Stop come in, tcpHandle is closed once and connected only when *)
(* it is not open; and no read runs past recvBuffer.                         *)
THEOREM HandlesKept == Spec => []HandleDiscipline
<1>1. HandleInv => HandleDiscipline
  BY DEF HandleInv
<1>2. QED
  BY <1>1, HandleInvHolds, PTL

(* The client never sits without a connection, an attempt to get one and a   *)
(* timer, unless reconnecting was off when an error was reported.            *)
THEOREM NeverForgetsToReconnect == Spec => []NeverStranded
<1>1. HandleInv => NeverStranded
  BY DEF HandleInv
<1>2. QED
  BY <1>1, HandleInvHolds, PTL

-----------------------------------------------------------------------------
(* Framing                                                                   *)

\* The messages the application was told are the first ones the server sent.
ToldInOrder == /\ Len(spiLog) <= Len(srvLog)
               /\ \A i \in 1 .. Len(spiLog) : spiLog[i] = srvLog[i]

\* start[i] is the position of the i-th package in everything the server sends.
Positions(start, log) ==
  /\ start \in [1 .. Len(log) + 1 -> Nat]
  /\ \A i \in 1 .. Len(log) : start[i + 1] = start[i] + PackageLen(log[i])
  /\ \A i \in 1 .. Len(log) + 1 : start[i] <= start[Len(log) + 1]

\* The wire holds all that follows the first "read" cells.
WireHolds(start, log, w, read) ==
  /\ read \in Nat /\ Len(w) = start[Len(log) + 1] - read
  /\ \A i \in 1 .. Len(log) : \A k \in 1 .. PackageLen(log[i]) :
       read < start[i] + k => w[start[i] + k - read] = Package(log[i])[k]

\* The machine has read the first told messages, and nRight cells of the next
\* package: it is in step with the sender.
InStep(r, log, told) ==
  /\ r.recvStat = "Head" => r.buf.nRight + r.nNeedRead = HeadLen /\ r.nNeedRead > 0
  /\ r.recvStat = "Body" => /\ told < Len(log) /\ HeadLen <= r.buf.nRight
                            /\ r.buf.nRight + r.nNeedRead = PackageLen(log[told + 1])
  /\ \A k \in 1 .. r.buf.nRight : r.buf.arr[k - 1] = Package(log[told + 1])[k]

Framing(start) ==
  /\ Positions(start, srvLog)
  /\ WireHolds(start, srvLog, wire, start[Len(spiLog) + 1] + rx.buf.nRight)
  /\ InStep(rx, srvLog, Len(spiLog))

FrameInv ==
  ~torn => /\ ToldInOrder
           /\ ~bConnected => rx.recvStat = "Head"
           /\ bConnected => \E start \in [1 .. Len(srvLog) + 1 -> Nat] : Framing(start)

(* A complete head is decoded to the length of the body it announces.        *)
LEMMA HeadDecoded ==
  ASSUME NEW b \in ByteArrays, b.nLeft = 0, NEW m \in Messages,
         \A k \in 1 .. HeadLen : b.arr[k - 1] = Package(m)[k]
  PROVE  HeadLengths(b) = {BodyLen[m]}
<1> DEFINE here(n) == \A k \in 1 .. HeadLen : b.arr[b.nLeft + k - 1] = HeadCell(n, k)
<1>1. HeadLen \in Nat \ {0} /\ MaxBody \in Nat /\ BodyLen[m] \in 1 .. MaxBody
  BY StreamAssumption
<1>2. \A k \in 1 .. HeadLen : b.arr[b.nLeft + k - 1] = HeadCell(BodyLen[m], k)
  <2> SUFFICES ASSUME NEW k \in 1 .. HeadLen
               PROVE  b.arr[b.nLeft + k - 1] = HeadCell(BodyLen[m], k)
    OBVIOUS
  <2>1. b.nLeft + k - 1 = k - 1
    BY <1>1
  <2>2. QED
    BY <2>1, PackageLayout
<1>3. here(BodyLen[m])
  BY <1>2
<1>4. ASSUME NEW n, here(n) PROVE n = BodyLen[m]
  <2>1. HeadCell(n, 1) = HeadCell(BodyLen[m], 1)
    BY <1>1, <1>2, <1>4
  <2>2. QED
    BY <2>1 DEF HeadCell
<1>5. HeadLengths(b) = IF \E n \in 0 .. MaxBody : here(n)
                       THEN {n \in 0 .. MaxBody : here(n)} ELSE 0 .. MaxBody
  BY DEF HeadLengths
<1>6. BodyLen[m] \in 0 .. MaxBody
  BY <1>1
<1> HIDE DEF here
<1>7. QED
  BY <1>3, <1>4, <1>5, <1>6

(* A complete body is decoded to the message that was encoded.               *)
LEMMA BodyDecoded ==
  ASSUME NEW b \in ByteArrays, b.nLeft = HeadLen, NEW m \in Messages,
         \A k \in 1 .. PackageLen(m) : b.arr[k - 1] = Package(m)[k]
  PROVE  Decoded(b) = {m}
<1> DEFINE typed(x) == b.arr[b.nLeft] = BodyCell(x, 1)
           whole(x) == \A k \in 1 .. BodyLen[x] :
                         b.nLeft + k - 1 \in Offsets /\ b.arr[b.nLeft + k - 1] = BodyCell(x, k)
<1>1. /\ HeadLen \in Nat \ {0} /\ MaxBody \in Nat /\ BodyLen[m] \in 1 .. MaxBody
      /\ PackageLen(m) = HeadLen + BodyLen[m]
  BY StreamAssumption DEF PackageLen
<1>2. \A k \in 1 .. BodyLen[m] : /\ b.nLeft + k - 1 \in Offsets
                                 /\ b.arr[b.nLeft + k - 1] = BodyCell(m, k)
  <2> SUFFICES ASSUME NEW k \in 1 .. BodyLen[m]
               PROVE  /\ b.nLeft + k - 1 \in Offsets
                      /\ b.arr[b.nLeft + k - 1] = BodyCell(m, k)
    OBVIOUS
  <2>1. HeadLen + k \in 1 .. PackageLen(m) /\ b.nLeft + k - 1 = (HeadLen + k) - 1
    BY <1>1
  <2>2. b.arr[(HeadLen + k) - 1] = Package(m)[HeadLen + k]
    BY <2>1
  <2>3. Package(m)[HeadLen + k] = BodyCell(m, k)
    BY PackageLayout
  <2>4. b.nLeft + k - 1 \in Offsets
    BY <1>1 DEF Offsets
  <2>5. QED
    BY <2>1, <2>2, <2>3, <2>4
<1>3. whole(m)
  BY <1>2
<1>4. typed(m)
  <2>1. 1 \in 1 .. BodyLen[m] /\ b.nLeft + 1 - 1 = b.nLeft
    BY <1>1
  <2>2. QED
    BY <1>2, <2>1
<1>5. ASSUME NEW x, typed(x) PROVE x = m
  <2>1. BodyCell(x, 1) = BodyCell(m, 1)
    BY <1>4, <1>5
  <2>2. QED
    BY <2>1 DEF BodyCell
<1>6. Decoded(b) = IF \E x \in Messages : typed(x)
                   THEN {IF whole(x) THEN x ELSE Garbage : x \in {y \in Messages : typed(y)}}
                   ELSE {Garbage, Crash}
  BY DEF Decoded
<1> HIDE DEF typed, whole
<1>7. {y \in Messages : typed(y)} = {m}
  BY <1>4, <1>5
<1>8. QED
  BY <1>3, <1>4, <1>6, <1>7

(* What has been read leaves the wire, and the rest stays where it was.      *)
LEMMA WireAdvances ==
  ASSUME NEW log \in Seq(Messages), NEW start, Positions(start, log), wire \in Seq(Cells),
         NEW read, WireHolds(start, log, wire, read), NEW n \in 1 .. Len(wire)
  PROVE  WireHolds(start, log, SubSeq(wire, n + 1, Len(wire)), read + n)
<1> DEFINE w == SubSeq(wire, n + 1, Len(wire))
<1>1. Len(wire) \in Nat /\ read \in Nat /\ Len(log) \in Nat
  BY DEF WireHolds
<1>2. Len(w) = Len(wire) - n /\ \A k \in 1 .. Len(wire) - n : w[k] = wire[n + k]
  BY WireSplit
<1> HIDE DEF w
<1>3. start[Len(log) + 1] \in Nat /\ Len(wire) = start[Len(log) + 1] - read
  BY <1>1 DEF WireHolds, Positions
<1>4. ASSUME NEW i \in 1 .. Len(log), NEW k \in 1 .. PackageLen(log[i]),
             read + n < start[i] + k
      PROVE  w[start[i] + k - (read + n)] = Package(log[i])[k]
  <2>1. PackageLen(log[i]) \in Nat
    BY ElementOfSeq, PackageLayout
  <2>2. /\ start[i] \in Nat /\ start[i + 1] = start[i] + PackageLen(log[i])
        /\ start[i + 1] <= start[Len(log) + 1]
    <3>1. i \in 1 .. Len(log) + 1 /\ i + 1 \in 1 .. Len(log) + 1
      BY <1>1
    <3>2. QED
      BY <3>1 DEF Positions
  <2>3. /\ start[i] + k - (read + n) \in 1 .. Len(wire) - n
        /\ n + (start[i] + k - (read + n)) = start[i] + k - read
        /\ read < start[i] + k
    <3>1. n \in Nat /\ k \in Nat /\ k <= PackageLen(log[i])
      BY <1>1, <2>1
    <3> DEFINE s == start[i]
               e == start[Len(log) + 1]
               W == Len(wire)
    <3>2. /\ s \in Nat /\ e \in Nat /\ W \in Nat /\ read \in Nat /\ n \in Nat /\ k \in Nat
          /\ s + k <= e /\ W = e - read /\ read + n < s + k
      BY <1>1, <1>3, <1>4, <2>1, <2>2, <3>1, SMTT(40)
    <3> HIDE DEF s, e, W
    <3>3. s + k - (read + n) \in 1 .. W - n /\ n + (s + k - (read + n)) = s + k - read
          /\ read < s + k
      BY <3>2
    <3>4. QED
      BY <3>3 DEF s, e, W
  <2>4. read < start[i] + k
    BY <2>3
  <2>5. wire[start[i] + k - read] = Package(log[i])[k]
    BY <2>4 DEF WireHolds
  <2>6. QED
    BY <1>2, <2>3, <2>5
<1>5. read + n \in Nat /\ Len(w) = start[Len(log) + 1] - (read + n)
  BY <1>1, <1>2, <1>3
<1>6. QED
  BY <1>4, <1>5 DEF WireHolds, w

\* The k-th byte of a frame is byte k - a of what is appended to a bytes of it.
LEMMA ShiftedIndex ==
  ASSUME NEW a \in Nat, NEW n \in Nat, NEW k \in 1 .. a + n, k > a
  PROVE  k - 1 \in a .. a + n - 1 /\ (k - 1) - a + 1 \in 1 .. n /\ a + ((k - 1) - a + 1) = k
OBVIOUS

(* A read of any length keeps the machine in step: it can end inside a head, *)
(* at its end, inside a body or at its end.                                  *)
LEMMA FrameRead ==
  ASSUME RecvTypes, ToldInOrder, NEW start, Framing(start), read_cb
  PROVE  ToldInOrder' /\ Framing(start)'
<1> DEFINE d == Len(spiLog)
           N == rx.buf.nRight
           m == srvLog[d + 1]
<1>1. PICK n \in 1 .. Len(wire) :
         /\ n <= rx.nNeedRead /\ wire' = SubSeq(wire, n + 1, Len(wire))
         /\ \E x \in Received(rx, SubSeq(wire, 1, n)) :
              /\ rx' = x.rx
              /\ IF x.out = <<Crash>> THEN UNCHANGED spiLog ELSE spiLog' = spiLog \o x.out
  BY ReadEffect
<1>2. PICK x \in Received(rx, SubSeq(wire, 1, n)) :
         /\ rx' = x.rx
         /\ IF x.out = <<Crash>> THEN UNCHANGED spiLog ELSE spiLog' = spiLog \o x.out
  BY <1>1
<1> DEFINE cells == SubSeq(wire, 1, n)
<1>3. /\ rx \in Receivers /\ rx.buf \in ByteArrays /\ N \in Nat /\ rx.nNeedRead \in Nat
      /\ rx.buf.nLeft = 0 /\ N + rx.nNeedRead <= HeadLen + MaxBody
      /\ rx.recvStat \in {"Head", "Body"}
      /\ HeadLen \in Nat \ {0} /\ MaxBody \in Nat \ {0}
  BY StreamAssumption DEF RecvTypes, MachineOK, Receivers, ByteArrays
<1>4. /\ d \in Nat /\ Len(srvLog) \in Nat /\ Len(wire) \in Nat /\ d <= Len(srvLog)
      /\ wire \in Seq(Cells) /\ srvLog \in Seq(Messages)
  BY DEF RecvTypes, ToldInOrder
<1>5. /\ cells \in Seq(Cells) /\ Len(cells) = n
      /\ \A k \in 1 .. n : cells[k] = wire[k]
  BY <1>4, WireSplit
<1>6. Positions(start, srvLog) /\ WireHolds(start, srvLog, wire, start[d + 1] + N)
      /\ InStep(rx, srvLog, d)
  BY DEF Framing
<1>7. start[d + 1] \in Nat /\ d < Len(srvLog) /\ d + 1 \in 1 .. Len(srvLog)
  <2>1. start[d + 1] \in Nat /\ start[Len(srvLog) + 1] \in Nat
    BY <1>4, <1>6 DEF Positions
  <2>2. Len(wire) = start[Len(srvLog) + 1] - (start[d + 1] + N)
    BY <1>6 DEF WireHolds
  <2>3. ASSUME d = Len(srvLog) PROVE FALSE
    <3>1. Len(wire) = start[d + 1] - (start[d + 1] + N)
      BY <2>2, <2>3
    <3>2. Len(wire) >= 1
      BY <1>4
    <3> HIDE DEF d, N
    <3>3. QED
      BY <1>3, <2>1, <3>1, <3>2
  <2>4. d # Len(srvLog)
    BY <2>3
  <2> HIDE DEF d
  <2>5. QED
    BY <1>4, <2>1, <2>4
<1>8. m \in Messages /\ BodyLen[m] \in 1 .. MaxBody /\ PackageLen(m) = HeadLen + BodyLen[m]
  BY <1>4, <1>7, ElementOfSeq, PackageLayout DEF PackageLen
<1> HIDE DEF m, d, N, cells
<1>0. n \in Nat \ {0} /\ BodyLen[m] \in Nat \ {0} /\ PackageLen(m) \in Nat
  BY <1>3, <1>4, <1>8
<1>9. N + n <= PackageLen(m)
  <2>1. CASE rx.recvStat = "Head"
    <3>1. N + rx.nNeedRead = HeadLen
      BY <1>6, <2>1 DEF InStep, N
    <3>2. N \in Nat /\ rx.nNeedRead \in Nat /\ n <= rx.nNeedRead /\ HeadLen \in Nat
      BY <1>1, <1>3
    <3>3. QED
      BY <1>0, <1>8, <3>1, <3>2
  <2>2. CASE rx.recvStat = "Body"
    <3>1. N + rx.nNeedRead = PackageLen(m)
      BY <1>6, <2>2 DEF InStep, N, m
    <3>2. N \in Nat /\ rx.nNeedRead \in Nat /\ n <= rx.nNeedRead
      BY <1>1, <1>3
    <3>3. QED
      BY <1>0, <3>1, <3>2
  <2>3. QED
    BY <1>3, <2>1, <2>2
<1>10. \A j \in 1 .. n : cells[j] = Package(m)[N + j]
  <2> SUFFICES ASSUME NEW j \in 1 .. n PROVE cells[j] = Package(m)[N + j]
    OBVIOUS
  <2>1. /\ N + j \in 1 .. PackageLen(m) /\ start[d + 1] + N < start[d + 1] + (N + j)
        /\ start[d + 1] + (N + j) - (start[d + 1] + N) = j
    <3>1. N \in Nat /\ start[d + 1] \in Nat /\ j \in Nat \ {0} /\ N + j <= PackageLen(m)
      BY <1>0, <1>3, <1>7, <1>9
    <3>2. QED
      BY <1>0, <3>1
  <2>2. wire[start[d + 1] + (N + j) - (start[d + 1] + N)] = Package(m)[N + j]
    BY <1>6, <1>7, <2>1 DEF WireHolds, m
  <2>3. QED
    BY <1>5, <2>1, <2>2
<1> DEFINE b == Filled(rx, cells)
<1>11. /\ b \in ByteArrays /\ b.nLeft = 0 /\ b.nRight = N + n
       /\ \A i \in Offsets : b.arr[i] = IF i \in N .. N + n - 1 THEN cells[i - N + 1]
                                        ELSE rx.buf.arr[i]
  BY <1>3, <1>5, FilledFields DEF N
<1> HIDE DEF b
<1>12. \A k \in 1 .. N + n : b.arr[k - 1] = Package(m)[k]
  <2> SUFFICES ASSUME NEW k \in 1 .. N + n PROVE b.arr[k - 1] = Package(m)[k]
    OBVIOUS
  <2>1. k - 1 \in Offsets
    BY <1>3, <1>4, <1>8, <1>9 DEF Offsets
  <2>2. CASE k <= N
    <3>1. k - 1 \notin N .. N + n - 1 /\ k \in 1 .. N
      BY <1>3, <1>4, <2>2
    <3>2. QED
      BY <1>6, <1>11, <2>1, <3>1 DEF InStep, N, m
  <2>3. CASE k > N
    <3>0. N \in Nat /\ n \in Nat
      BY <1>0, <1>3
    <3>1. k - 1 \in N .. N + n - 1 /\ (k - 1) - N + 1 \in 1 .. n /\ N + ((k - 1) - N + 1) = k
      BY <2>3, <3>0, ShiftedIndex, Zenon
    <3>2. b.arr[k - 1] = cells[(k - 1) - N + 1]
      BY <1>11, <2>1, <3>1
    <3>3. QED
      BY <1>10, <3>1, <3>2
  <2>4. QED
    BY <1>3, <1>4, <2>2, <2>3
<1>13. WireHolds(start, srvLog, wire', (start[d + 1] + N) + n)
  BY <1>1, <1>4, <1>6, WireAdvances
<1>14. UNCHANGED srvLog
  BY DEF read_cb
<1>15. CASE /\ Len(cells) < rx.nNeedRead /\ x.out = <<>>
            /\ x.rx = [buf |-> b, recvStat |-> rx.recvStat,
                       nNeedRead |-> rx.nNeedRead - Len(cells)]
  <2>1. /\ rx'.buf = b /\ rx'.recvStat = rx.recvStat /\ rx'.nNeedRead = rx.nNeedRead - n
        /\ n < rx.nNeedRead
    BY <1>2, <1>5, <1>15
  <2>2. spiLog' = spiLog
    <3>1. x.out # <<Crash>> /\ spiLog \in Seq(Messages \cup {Garbage})
      BY <1>15 DEF RecvTypes
    <3>2. QED
      BY <1>2, <1>15, <3>1, ConcatEmptySeq
  <2>3. /\ N + n + (rx.nNeedRead - n) = N + rx.nNeedRead /\ rx.nNeedRead - n > 0
        /\ HeadLen <= N => HeadLen <= N + n
        /\ start[d + 1] + (N + n) = (start[d + 1] + N) + n
    <3>1. /\ N \in Nat /\ start[d + 1] \in Nat /\ rx.nNeedRead \in Nat /\ HeadLen \in Nat
          /\ n < rx.nNeedRead
      BY <1>3, <1>7, <2>1
    <3>2. QED
      BY <1>0, <3>1
  <2>4. InStep(rx', srvLog, d)
    BY <1>6, <1>11, <1>12, <2>1, <2>3 DEF InStep, N, m
  <2>5. QED
    BY <1>6, <1>11, <1>13, <1>14, <2>1, <2>2, <2>3, <2>4 DEF ToldInOrder, Framing, d
<1>16. ASSUME Len(cells) = rx.nNeedRead, rx.recvStat = "Head", x.out = <<>>,
              NEW need \in HeadLengths(b),
              x.rx = [buf |-> b, recvStat |-> "Body", nNeedRead |-> need]
       PROVE  ToldInOrder' /\ Framing(start)'
  <2>1. N + n = HeadLen
    BY <1>5, <1>6, <1>16 DEF InStep, N
  <2>2. need = BodyLen[m]
    BY <1>8, <1>11, <1>12, <1>16, <2>1, HeadDecoded
  <2>3. rx'.buf = b /\ rx'.recvStat = "Body" /\ rx'.nNeedRead = BodyLen[m]
    BY <1>2, <1>16, <2>2
  <2>4. spiLog' = spiLog
    <3>1. x.out # <<Crash>> /\ spiLog \in Seq(Messages \cup {Garbage})
      BY <1>16 DEF RecvTypes
    <3>2. QED
      BY <1>2, <1>16, <3>1, ConcatEmptySeq
  <2>5. InStep(rx', srvLog, d)
    <3>1. rx'.buf.nRight = HeadLen /\ rx'.recvStat # "Head" /\ d < Len(srvLog)
      BY <1>7, <1>11, <2>1, <2>3
    <3>2. HeadLen + BodyLen[m] = PackageLen(m) /\ HeadLen <= HeadLen
      BY <1>3, <1>8
    <3>3. \A k \in 1 .. rx'.buf.nRight : rx'.buf.arr[k - 1] = Package(m)[k]
      BY <1>11, <1>12, <2>3
    <3>4. QED
      BY <2>3, <3>1, <3>2, <3>3 DEF InStep, m
  <2>6. start[d + 1] + (N + n) = (start[d + 1] + N) + n
    BY <1>3, <1>4, <1>7
  <2>7. QED
    BY <1>6, <1>11, <1>13, <1>14, <2>3, <2>4, <2>5, <2>6 DEF ToldInOrder, Framing, d
<1>17. ASSUME Len(cells) = rx.nNeedRead, rx.recvStat = "Body",
              NEW obj \in Decoded(LeftForward(b, HeadLen)), x.out = <<obj>>,
              x.rx = [buf |-> InitArray(LeftForward(b, HeadLen)),
                      recvStat |-> "Head", nNeedRead |-> HeadLen]
       PROVE  ToldInOrder' /\ Framing(start)'
  <2>1. N + n = PackageLen(m)
    BY <1>5, <1>6, <1>17 DEF InStep, N, m
  <2> DEFINE body == LeftForward(b, HeadLen)
  <2>2. body \in ByteArrays /\ body.nLeft = HeadLen /\ body.arr = b.arr
    <3>1. HeadLen \in Int /\ b.nLeft + HeadLen \in Nat /\ b.nLeft + HeadLen = HeadLen
      BY <1>3, <1>11
    <3>2. /\ LeftForward(b, HeadLen) \in ByteArrays
          /\ LeftForward(b, HeadLen).nLeft = b.nLeft + HeadLen
          /\ LeftForward(b, HeadLen).arr = b.arr
      BY <1>11, <3>1, LeftFields
    <3>3. QED
      BY <3>1, <3>2
  <2> HIDE DEF body
  <2>3. obj = m
    <3>1. Decoded(body) = {m}
      BY <1>8, <1>12, <2>1, <2>2, BodyDecoded
    <3>2. QED
      BY <1>17, <3>1 DEF body
  <2>4. spiLog' = spiLog \o <<m>>
    <3>1. m # Crash
      BY <1>8, StreamAssumption
    <3>2. x.out = <<m>> /\ <<m>> # <<Crash>>
      BY <1>17, <2>3, <3>1
    <3>3. QED
      BY <1>2, <3>2
  <2>5. /\ Len(spiLog') = d + 1 /\ \A i \in 1 .. d : spiLog'[i] = spiLog[i]
        /\ spiLog'[d + 1] = m
    <3>1. spiLog \in Seq(Messages \cup {Garbage}) /\ <<m>> \in Seq(Messages \cup {Garbage})
          /\ Len(<<m>>) = 1
      BY <1>8 DEF RecvTypes
    <3>2. QED
      BY <2>4, <3>1, ConcatProperties DEF d
  <2>6. ToldInOrder'
    <3>1. \A i \in 1 .. d + 1 : i \in 1 .. d \/ i = d + 1
      BY <1>4
    <3>2. Len(spiLog') <= Len(srvLog)
      BY <1>4, <1>7, <2>5
    <3>3. \A i \in 1 .. Len(spiLog') : spiLog'[i] = srvLog[i]
      BY <2>5, <3>1 DEF ToldInOrder, d, m
    <3>4. QED
      BY <1>14, <3>2, <3>3 DEF ToldInOrder
  <2>7. rx'.recvStat = "Head" /\ rx'.nNeedRead = HeadLen /\ rx'.buf.nRight = 0
    <3>1. InitArray(body).nRight = 0
      BY <2>2, InitFields
    <3>2. QED
      BY <1>2, <1>17, <3>1 DEF body
  <2>8. InStep(rx', srvLog, d + 1)
    BY <1>3, <2>7 DEF InStep
  <2>9. start[(d + 1) + 1] + 0 = (start[d + 1] + N) + n
    <3>1. start[(d + 1) + 1] = start[d + 1] + PackageLen(m)
      BY <1>6, <1>7 DEF Positions, m
    <3>2. QED
      BY <1>3, <1>4, <1>7, <1>8, <2>1, <3>1
  <2>10. QED
    BY <1>6, <1>13, <1>14, <2>5, <2>6, <2>7, <2>8, <2>9 DEF Framing
<1>18. QED
  <2>1. x \in Received(rx, cells) /\ Len(cells) <= rx.nNeedRead
    BY <1>1, <1>2, <1>5 DEF cells
  <2>2. \/ /\ Len(cells) < rx.nNeedRead /\ x.out = <<>>
           /\ x.rx = [buf |-> b, recvStat |-> rx.recvStat,
                      nNeedRead |-> rx.nNeedRead - Len(cells)]
        \/ /\ Len(cells) = rx.nNeedRead /\ rx.recvStat = "Head" /\ x.out = <<>>
           /\ \E need \in HeadLengths(b) :
                x.rx = [buf |-> b, recvStat |-> "Body", nNeedRead |-> need]
        \/ /\ Len(cells) = rx.nNeedRead /\ rx.recvStat = "Body"
           /\ \E obj \in Decoded(LeftForward(b, HeadLen)) : x.out = <<obj>>
           /\ x.rx = [buf |-> InitArray(LeftForward(b, HeadLen)),
                      recvStat |-> "Head", nNeedRead |-> HeadLen]
    <3>1. rx \in Receivers /\ cells \in Seq(Cells)
      BY <1>3, <1>5
    <3>2. QED
      BY <2>1, <3>1, ReceivedCases, ZenonT(60) DEF b
  <2>3. QED
    BY <1>15, <1>16, <1>17, <2>2

(* A package the server sends follows everything that is already under way.  *)
LEMMA FrameSend ==
  ASSUME RecvTypes, ToldInOrder, NEW start, Framing(start),
         NEW m \in Messages, server_sends(m)
  PROVE  /\ ToldInOrder'
         /\ \E next \in [1 .. Len(srvLog') + 1 -> Nat] : Framing(next)'
<1> DEFINE L == Len(srvLog)
           d == Len(spiLog)
           read == start[d + 1] + rx.buf.nRight
           next == [i \in 1 .. L + 2 |-> IF i = L + 2 THEN start[L + 1] + PackageLen(m)
                                         ELSE start[i]]
<1>1. /\ wire' = wire \o Package(m) /\ srvLog' = Append(srvLog, m)
      /\ UNCHANGED <<rx, spiLog>>
  BY DEF server_sends
<1>2. /\ L \in Nat /\ d \in Nat /\ d <= L /\ srvLog \in Seq(Messages)
      /\ wire \in Seq(Cells) /\ Len(wire) \in Nat /\ rx.buf.nRight \in Nat
  BY DEF RecvTypes, ToldInOrder, MachineOK, Receivers, ByteArrays
<1>3. /\ Len(srvLog') = L + 1 /\ srvLog'[L + 1] = m
      /\ \A i \in 1 .. L : srvLog'[i] = srvLog[i]
  BY <1>1, <1>2
<1>4. /\ Package(m) \in Seq(Cells) /\ Len(Package(m)) = PackageLen(m) /\ PackageLen(m) \in Nat
  BY PackageLayout
<1>5. /\ Len(wire') = Len(wire) + PackageLen(m)
      /\ \A k \in 1 .. Len(wire) : wire'[k] = wire[k]
      /\ \A k \in 1 .. PackageLen(m) : wire'[Len(wire) + k] = Package(m)[k]
  <2>1. /\ Len(wire \o Package(m)) = Len(wire) + Len(Package(m))
        /\ \A i \in 1 .. Len(wire) + Len(Package(m)) :
             (wire \o Package(m))[i] = IF i <= Len(wire) THEN wire[i]
                                       ELSE Package(m)[i - Len(wire)]
    BY <1>2, <1>4, ConcatProperties
  <2>2. \A k \in 1 .. Len(wire) : k \in 1 .. Len(wire) + PackageLen(m) /\ k <= Len(wire)
    BY <1>2, <1>4
  <2>3. \A k \in 1 .. PackageLen(m) : /\ Len(wire) + k \in 1 .. Len(wire) + PackageLen(m)
                                      /\ ~(Len(wire) + k <= Len(wire))
                                      /\ Len(wire) + k - Len(wire) = k
    BY <1>2, <1>4
  <2>4. QED
    BY <1>1, <1>4, <2>1, <2>2, <2>3
<1>6. Positions(start, srvLog) /\ WireHolds(start, srvLog, wire, read)
      /\ InStep(rx, srvLog, d)
  BY DEF Framing
<1>7. /\ start \in [1 .. L + 1 -> Nat]
      /\ \A i \in 1 .. L : start[i + 1] = start[i] + PackageLen(srvLog[i])
      /\ \A i \in 1 .. L + 1 : start[i] <= start[L + 1]
  BY <1>6 DEF Positions
<1>8. read \in Nat /\ Len(wire) = start[L + 1] - read
  BY <1>6 DEF WireHolds
<1>9. start[L + 1] \in Nat
  BY <1>2, <1>7
<1>0. /\ next \in [1 .. L + 2 -> Nat]
      /\ next[L + 2] = start[L + 1] + PackageLen(m)
      /\ \A i \in 1 .. L + 1 : next[i] = start[i]
  <2>1. \A i \in 1 .. L + 2 : i = L + 2 \/ i \in 1 .. L + 1
    BY <1>2
  <2>2. \A i \in 1 .. L + 1 : i \in 1 .. L + 2 /\ i # L + 2
    BY <1>2
  <2>3. L + 2 \in 1 .. L + 2 /\ start[L + 1] + PackageLen(m) \in Nat
    BY <1>2, <1>4, <1>9
  <2>4. QED
    BY <1>7, <2>1, <2>2, <2>3
<1> HIDE DEF next, read, d, L
<1>10. PICK to \in [1 .. L + 2 -> Nat] :
         /\ to[L + 2] = start[L + 1] + PackageLen(m)
         /\ \A i \in 1 .. L + 1 : to[i] = start[i]
  BY <1>0
<1>11. \A i \in 1 .. L + 1 : i \in 1 .. L \/ i = L + 1
  BY <1>2
<1>12. \A i \in 1 .. L : i \in 1 .. L + 1 /\ i + 1 \in 1 .. L + 1
  BY <1>2
<1>13. L + 1 \in 1 .. L + 1 /\ (L + 1) + 1 = L + 2
  BY <1>2
<1>14. Positions(to, srvLog')
  <2>1. \A i \in 1 .. L + 1 : to[i + 1] = to[i] + PackageLen(srvLog'[i])
    <3> SUFFICES ASSUME NEW i \in 1 .. L + 1
                 PROVE  to[i + 1] = to[i] + PackageLen(srvLog'[i])
      OBVIOUS
    <3>1. CASE i = L + 1
      BY <1>3, <1>10, <1>13, <3>1
    <3>2. CASE i \in 1 .. L
      BY <1>3, <1>7, <1>10, <1>12, <3>2
    <3>3. QED
      BY <1>11, <3>1, <3>2
  <2>2. \A i \in 1 .. L + 2 : to[i] <= to[L + 2]
    <3> SUFFICES ASSUME NEW i \in 1 .. L + 2 PROVE to[i] <= to[L + 2]
      OBVIOUS
    <3>1. CASE i = L + 2
      BY <1>4, <1>9, <1>10, <3>1
    <3>2. CASE i # L + 2
      <4>1. i \in 1 .. L + 1
        BY <1>2, <3>2
      <4>2. start[i] \in Nat /\ start[i] <= start[L + 1]
        BY <1>7, <4>1
      <4>3. start[i] <= start[L + 1] + PackageLen(m)
        BY <1>4, <1>9, <4>2
      <4>4. QED
        BY <1>10, <4>1, <4>3
    <3>3. QED
      BY <3>1, <3>2
  <2>3. QED
    BY <1>3, <1>10, <1>13, <2>1, <2>2 DEF Positions
<1>15. WireHolds(to, srvLog', wire', read)
  <2>1. Len(wire') = to[L + 2] - read
    <3> DEFINE e == start[L + 1]
               w == PackageLen(m)
    <3>1. Len(wire') = (e - read) + w /\ to[L + 2] = e + w
      BY <1>5, <1>8, <1>10
    <3>2. e \in Nat /\ w \in Nat /\ read \in Nat
      BY <1>4, <1>8, <1>9
    <3> HIDE DEF e, w
    <3>3. QED
      BY <3>1, <3>2
  <2>2. ASSUME NEW i \in 1 .. L + 1, NEW k \in 1 .. PackageLen(srvLog'[i]),
               read < to[i] + k
        PROVE  wire'[to[i] + k - read] = Package(srvLog'[i])[k]
    <3>1. CASE i = L + 1
      <4>1. srvLog'[i] = m /\ to[i] = start[L + 1] /\ k \in 1 .. PackageLen(m)
        BY <1>3, <1>10, <1>13, <3>1
      <4>2. start[L + 1] + k - read = Len(wire) + k
        BY <1>4, <1>8, <1>9, <4>1
      <4>3. QED
        BY <1>5, <4>1, <4>2
    <3>2. CASE i \in 1 .. L
      <4>1. /\ srvLog'[i] = srvLog[i] /\ to[i] = start[i]
            /\ k \in 1 .. PackageLen(srvLog[i])
        BY <1>3, <1>10, <1>12, <3>2
      <4>2. wire[start[i] + k - read] = Package(srvLog[i])[k]
        BY <1>6, <2>2, <3>2, <4>1 DEF WireHolds, L
      <4>3. /\ start[i] \in Nat /\ start[i + 1] = start[i] + PackageLen(srvLog[i])
            /\ start[i + 1] <= start[L + 1]
        BY <1>7, <1>12, <3>2
      <4>4. PackageLen(srvLog[i]) \in Nat
        BY <1>2, <3>2, ElementOfSeq, PackageLayout DEF L
      <4>5. k \in Nat /\ k <= PackageLen(srvLog[i]) /\ read < start[i] + k
        BY <2>2, <4>1, <4>4
      <4>6. start[i] + k - read \in 1 .. Len(wire)
        <5>1. start[i] + k <= start[L + 1]
          BY <1>9, <4>3, <4>4, <4>5
        <5> DEFINE s == start[i]
                   e == start[L + 1]
                   W == Len(wire)
        <5>2. /\ s \in Nat /\ e \in Nat /\ W \in Nat /\ read \in Nat /\ k \in Nat
              /\ s + k <= e /\ W = e - read /\ read < s + k
          BY <1>2, <1>8, <1>9, <4>3, <4>5, <5>1
        <5> HIDE DEF s, e, W
        <5>3. s + k - read \in 1 .. W
          BY <5>2
        <5>4. QED
          BY <5>3 DEF s, W
      <4>7. QED
        BY <1>5, <4>1, <4>2, <4>6
    <3>3. QED
      BY <1>11, <3>1, <3>2
  <2>3. QED
    BY <1>3, <1>8, <1>13, <2>1, <2>2 DEF WireHolds
<1>16. InStep(rx', srvLog', d)
  <2>1. rx.buf.nRight > 0 => d < L
    <3>1. CASE d = L
      <4>1. Len(wire) = start[d + 1] - (start[d + 1] + rx.buf.nRight)
        BY <1>8, <3>1 DEF read
      <4>2. start[d + 1] \in Nat
        BY <1>9, <3>1
      <4>3. QED
        BY <1>2, <4>1, <4>2
    <3>2. CASE d # L
      BY <1>2, <3>2
    <3>3. QED
      BY <3>1, <3>2
  <2>2. d < L => srvLog'[d + 1] = srvLog[d + 1]
    <3>1. d < L => d + 1 \in 1 .. L
      BY <1>2
    <3>2. QED
      BY <1>3, <3>1
  <2>3. \A k \in 1 .. rx.buf.nRight : rx.buf.arr[k - 1] = Package(srvLog'[d + 1])[k]
    <3> SUFFICES ASSUME NEW k \in 1 .. rx.buf.nRight
                 PROVE  rx.buf.arr[k - 1] = Package(srvLog'[d + 1])[k]
      OBVIOUS
    <3>1. rx.buf.nRight > 0
      BY <1>2
    <3>2. QED
      BY <1>6, <2>1, <2>2, <3>1 DEF InStep
  <2>4. d < L => d < L + 1
    BY <1>2
  <2>5. QED
    BY <1>1, <1>3, <1>6, <2>2, <2>3, <2>4 DEF InStep, L
<1>17. to[d + 1] + rx.buf.nRight = read
  <2>1. d + 1 \in 1 .. L + 1
    BY <1>2
  <2>2. QED
    BY <1>10, <2>1 DEF read
<1>18. Framing(to)'
  BY <1>1, <1>14, <1>15, <1>16, <1>17 DEF Framing, d
<1>19. ToldInOrder'
  <2>1. Len(spiLog') <= Len(srvLog')
    BY <1>1, <1>2, <1>3 DEF d
  <2>2. \A i \in 1 .. d : i \in 1 .. L
    BY <1>2
  <2>3. QED
    BY <1>1, <1>3, <2>1, <2>2 DEF ToldInOrder, d
<1>20. to \in [1 .. Len(srvLog') + 1 -> Nat]
  BY <1>3, <1>10, <1>13
<1>21. QED
  BY <1>18, <1>19, <1>20

(* A new connection starts in step when the last one did not end in a body.  *)
LEMMA FrameConnect ==
  ASSUME LinkTypes, RecvTypes, FrameInv, connect_cb, ~torn
  PROVE  /\ ToldInOrder'
         /\ \E start \in [1 .. Len(srvLog') + 1 -> Nat] : Framing(start)'
<1>1. /\ wire' = <<>> /\ srvLog' = <<>> /\ spiLog' = <<>>
      /\ Len(wire') = 0 /\ Len(srvLog') = 0 /\ Len(spiLog') = 0
  BY DEF connect_cb
<1>2. rx' = [rx EXCEPT !.buf = InitArray(@), !.nNeedRead = HeadLen]
  BY DEF connect_cb, ReceiverConnected
<1>3. rx \in Receivers /\ rx.buf \in ByteArrays
  BY DEF RecvTypes, MachineOK, Receivers
<1>4. rx.recvStat = "Head"
  BY DEF FrameInv, LinkTypes, connect_cb
<1>5. InitArray(rx.buf).nRight = 0
  BY <1>3, InitFields
<1>6. rx'.recvStat = "Head" /\ rx'.nNeedRead = HeadLen /\ rx'.buf.nRight = 0
  BY <1>2, <1>3, <1>4, <1>5 DEF Receivers
<1>7. PICK start \in [1 .. 1 -> Nat] : start[1] = 0
  <2> WITNESS [i \in 1 .. 1 |-> 0] \in [1 .. 1 -> Nat]
  <2>1. QED
    OBVIOUS
<1>8. Positions(start, srvLog')
  BY <1>1, <1>7 DEF Positions
<1>9. InStep(rx', srvLog', 0)
  BY <1>6, StreamAssumption DEF InStep
<1>10. WireHolds(start, srvLog', wire', start[0 + 1] + rx'.buf.nRight)
  BY <1>1, <1>6, <1>7 DEF WireHolds
<1>11. Framing(start)' /\ ToldInOrder'
  BY <1>1, <1>8, <1>9, <1>10 DEF Framing, ToldInOrder
<1>12. QED
  BY <1>1, <1>7, <1>11

(* The steps that close a connection notice when it ends inside a body.      *)
LEMMA FrameClose ==
  ASSUME LinkTypes, RecvTypes, FrameInv, closeConnection, UNCHANGED <<rx, srvLog, spiLog>>
  PROVE  FrameInv'
<1>1. bConnected' = FALSE /\ torn' = (torn \/ (bConnected /\ rx.recvStat = "Body"))
  BY DEF closeConnection
<1>2. rx.recvStat \in {"Head", "Body"}
  BY DEF RecvTypes, MachineOK, Receivers
<1> SUFFICES ASSUME ~torn' PROVE ToldInOrder' /\ rx'.recvStat = "Head"
  BY <1>1 DEF FrameInv
<1>3. ~torn /\ (~bConnected \/ rx.recvStat = "Head")
  BY <1>1, <1>2
<1>4. QED
  BY <1>3 DEF FrameInv, ToldInOrder

(* Every step keeps the machine in step with the server.                     *)
LEMMA FrameStep ==
  ASSUME LinkTypes, RecvTypes, FrameInv, [Next]_vars
  PROVE  FrameInv'
<1>1. CASE UNCHANGED <<rx, wire, srvLog, spiLog, torn, bConnected>>
  BY <1>1 DEF FrameInv, ToldInOrder, Framing
<1>2. CASE connect_cb
  <2>1. UNCHANGED torn /\ bConnected' = TRUE
    BY <1>2 DEF connect_cb
  <2>2. QED
    BY <1>2, <2>1, FrameConnect DEF FrameInv
<1>3. CASE read_cb
  <2>1. UNCHANGED <<torn, bConnected, srvLog>> /\ bConnected
    BY <1>3 DEF read_cb, LinkTypes
  <2>2. ASSUME ~torn
        PROVE  ToldInOrder' /\ \E start \in [1 .. Len(srvLog') + 1 -> Nat] : Framing(start)'
    <3>1. PICK start \in [1 .. Len(srvLog) + 1 -> Nat] : Framing(start)
      BY <2>1, <2>2 DEF FrameInv
    <3>2. ToldInOrder' /\ Framing(start)'
      BY <1>3, <2>2, <3>1, FrameRead DEF FrameInv
    <3>3. QED
      BY <2>1, <3>2
  <2>3. QED
    BY <2>1, <2>2 DEF FrameInv
<1>4. ASSUME NEW m \in Messages, server_sends(m) PROVE FrameInv'
  <2>1. UNCHANGED <<torn, bConnected>> /\ bConnected
    BY <1>4 DEF server_sends, LinkTypes, recvVars
  <2>2. ASSUME ~torn
        PROVE  ToldInOrder' /\ \E start \in [1 .. Len(srvLog') + 1 -> Nat] : Framing(start)'
    <3>1. PICK start \in [1 .. Len(srvLog) + 1 -> Nat] : Framing(start)
      BY <2>1, <2>2 DEF FrameInv
    <3>2. QED
      BY <1>4, <2>2, <3>1, FrameSend DEF FrameInv
  <2>3. QED
    BY <2>1, <2>2 DEF FrameInv
<1>5. CASE read_cb_error \/ req_write_cb_error
  BY <1>5, FrameClose DEF read_cb_error, req_write_cb_error
<1>6. CASE idle_cb
  <2>1. UNCHANGED <<rx, wire, srvLog, spiLog>>
    BY <1>6 DEF idle_cb
  <2>2. closeConnection \/ UNCHANGED <<torn, bConnected>>
    BY <1>6 DEF idle_cb
  <2>3. QED
    BY <1>1, <2>1, <2>2, FrameClose
<1>7. CASE close_done
  <2>1. UNCHANGED <<rx, srvLog, spiLog, torn, bConnected>> /\ ~bConnected
    BY <1>7 DEF close_done, LinkTypes
  <2>2. QED
    BY <2>1 DEF FrameInv, ToldInOrder
<1>8. QED
  BY <1>1, <1>2, <1>3, <1>4, <1>5, <1>6, <1>7 DEF Next, App, Loop, Start, Stop,
     SetAutoReconnect, postMsg, tailForward, loopFunction, uv_run_returns, init_timer_cb,
     reconn_timer_cb, connect_cb_error, req_write_cb, second_passes, vars, recvVars

(* The application is told what the server sent, in order and nothing else,  *)
(* for packages of any length cut into reads of any length, as long as no    *)
(* connection ended inside a body.                                           *)
THEOREM MessagesFramed == Spec => []Framed
<1>1. Init => FrameInv
  <2> SUFFICES ASSUME Init PROVE FrameInv
    OBVIOUS
  <2>1. Len(spiLog) = 0 /\ Len(srvLog) = 0 /\ ~bConnected
    BY DEF Init
  <2>2. rx.recvStat = "Head"
    BY DEF Init, NewReceiver
  <2>3. QED
    BY <2>1, <2>2 DEF FrameInv, ToldInOrder
<1>2. HandleInv /\ FrameInv /\ [Next]_vars => FrameInv'
  BY HandleInvParts, FrameStep
<1>3. HandleInv /\ FrameInv => Framed
  <2> SUFFICES ASSUME HandleInv, FrameInv, ~torn PROVE IsPrefixOf(spiLog, srvLog)
    BY DEF Framed
  <2>1. /\ spiLog \in Seq(Messages \cup {Garbage}) /\ srvLog \in Seq(Messages)
        /\ Len(spiLog) <= Len(srvLog) /\ \A i \in 1 .. Len(spiLog) : spiLog[i] = srvLog[i]
    BY HandleInvParts DEF RecvTypes, FrameInv, ToldInOrder
  <2>2. Len(spiLog) \in Nat /\ Len(srvLog) \in Nat
    BY <2>1
  <2> DEFINE s == SubSeq(srvLog, 1, Len(spiLog))
  <2>3. \A i \in 1 .. Len(spiLog) : srvLog[i] \in Messages
    <3>1. \A i \in 1 .. Len(spiLog) : i \in 1 .. Len(srvLog)
      BY <2>1, <2>2
    <3>2. QED
      BY <2>1, <3>1, ElementOfSeq
  <2>4. /\ s \in Seq(Messages) /\ Len(s) = Len(spiLog)
        /\ \A i \in 1 .. Len(spiLog) : s[i] = srvLog[i]
    BY <2>1, <2>2, <2>3
  <2> HIDE DEF s
  <2>5. s \in Seq(Messages \cup {Garbage})
    BY <2>4
  <2>6. spiLog = s
    BY <2>1, <2>4, <2>5, SeqEqual
  <2>7. QED
    BY <2>1, <2>6 DEF IsPrefixOf, s
<1>4. QED
  BY <1>1, <1>2, <1>3, HandleInvHolds, PTL DEF Spec
=============================================================================
