------------------------- MODULE CachedBufferProofs -------------------------
(***************************************************************************)
(* Proofs that the ring buffer implements the bounded queue as long as no   *)
(* two threads are inside postMsg together, for every capacity, every set   *)
(* of messages and any threads that post in turn.                           *)
(***************************************************************************)
EXTENDS CachedBuffer, TLAPS, SequenceTheorems, WellFoundedInduction

\* No two threads are inside postMsg: always so when there is but one.
OneAtATime ==
  \A p, q \in Producers : ppc[p] # "idle" /\ ppc[q] # "idle" => p = q

\* The ring never holds fewer than no and more than Capacity messages.
CountersInRange ==
  /\ nHead =< nTail + 1
  /\ nTail + 1 - nHead =< Capacity
  /\ nCurrent = nHead

\* A thread inside postMsg owns the slot after the tail.
PosterOwnsSlot ==
  \A p \in Producers :
    /\ ppc[p] \notin {"idle", "alloc"} =>
                          /\ slot[p] = (nTail + 1) % Capacity
                          /\ nTail + 1 - nHead < Capacity
    /\ ppc[p] \in {"full?", "load", "store"} => elements[slot[p]] = arg[p]
    /\ ppc[p] = "store" => tail[p] = nTail

\* The write under way is that of the slot at the head.
WriterOwnsHead ==
  /\ writing => bReqWritereqBusy
  /\ bReqWritereqBusy => nHead < nTail + 1 /\ req_uvbuf = nHead % Capacity
  /\ copied # <<>> => writing /\ copied = <<elements[req_uvbuf]>>

(* The inductive invariant.                                                  *)
RingInv == TypeOK /\ CountersInRange /\ PosterOwnsSlot /\ WriterOwnsHead

-----------------------------------------------------------------------------
(* Remainders                                                               *)

(* Division with remainder.                                                  *)
LEMMA DivMod ==
  ASSUME NEW c \in Nat \ {0}, NEW a \in Nat
  PROVE  a = c * (a \div c) + (a % c) /\ a \div c \in Nat /\ a % c \in 0 .. c - 1
  OBVIOUS

(* No positive multiple of c is smaller than c.                              *)
LEMMA NoSmallMultiple ==
  ASSUME NEW c \in Nat \ {0}, NEW k \in Int, c * k > 0, c * k < c
  PROVE  FALSE
  OBVIOUS

(* Positions less than a full turn apart lie in different slots.             *)
LEMMA SlotsDiffer ==
  ASSUME NEW c \in Nat \ {0}, NEW a \in Nat, NEW b \in Nat, a < b, b - a < c
  PROVE  a % c # b % c
<1> SUFFICES ASSUME a % c = b % c PROVE FALSE
  OBVIOUS
<1> DEFINE k == b \div c - a \div c
<1>1. /\ a = c * (a \div c) + (a % c) /\ a \div c \in Nat /\ a % c \in 0 .. c - 1
      /\ b = c * (b \div c) + (b % c) /\ b \div c \in Nat
  BY DivMod
<1>2. b - a = c * k
  BY <1>1
<1>3. k \in Int
  BY <1>1
<1> HIDE DEF k
<1>4. QED
  BY <1>2, <1>3, NoSmallMultiple

-----------------------------------------------------------------------------
(* The capacity                                                             *)

(* A set of natural numbers has a least element.                             *)
LEMMA LeastNat ==
  ASSUME NEW T \in SUBSET Nat, T # {}
  PROVE  \E n \in T : \A m \in T : n <= m
<1> DEFINE R == {ss \in Nat \X Nat : ss[1] < ss[2]}
<1>1. IsWellFoundedOn(R, Nat)
  BY NatLessThanWellFounded DEF OpToRel
<1>2. \A m, n \in Nat : m < n => <<m, n>> \in R
  OBVIOUS
<1> HIDE DEF R
<1>3. PICK n \in T : \A m \in T : ~(<<m, n>> \in R)
  BY <1>1, WFMin, Zenon
<1>4. ASSUME NEW m \in T PROVE n <= m
  <2>1. m \in Nat /\ n \in Nat /\ ~(m < n)
    BY <1>2, <1>3
  <2> QED BY <2>1
<1>5. QED
  BY <1>4

\* The powers of two: the numbers of every set that has 1 and all doubles of its numbers.
Doubling(S) == 1 \in S /\ \A x \in S : 2 * x \in S
Powers == {k \in Nat : \A S \in SUBSET Nat : Doubling(S) => k \in S}

(* A power of two is 1 or the double of one.                                 *)
LEMMA PowersFacts ==
  /\ 1 \in Powers
  /\ \A p \in Powers : p \in Nat /\ p >= 1 /\ 2 * p \in Powers
  /\ \A p \in Powers : p = 1 \/ \E q \in Powers : p = 2 * q
<1>1. 1 \in Powers
  BY DEF Powers, Doubling
<1>2. ASSUME NEW p \in Powers PROVE p \in Nat /\ p >= 1 /\ 2 * p \in Powers
  <2>1. p \in Nat
    BY DEF Powers
  <2>2. p \in Nat \ {0}
    <3>1. Doubling(Nat \ {0})
      BY DEF Doubling
    <3> QED BY <3>1 DEF Powers
  <2>3. 2 * p \in Powers
    BY <2>1 DEF Powers, Doubling
  <2> QED BY <2>2, <2>3
<1>3. ASSUME NEW p \in Powers PROVE p = 1 \/ \E q \in Powers : p = 2 * q
  <2> DEFINE S == {1} \cup {2 * q : q \in Powers}
  <2>1. S \in SUBSET Nat
    BY <1>2
  <2>2. ASSUME NEW x \in S PROVE 2 * x \in S
    <3>1. x \in Powers
      BY <1>1, <1>2
    <3> QED BY <3>1
  <2>3. Doubling(S)
    BY <2>2 DEF Doubling
  <2>4. p \in S
    <3> HIDE DEF S
    <3> QED BY <2>1, <2>3 DEF Powers
  <2> QED BY <2>4
<1>4. QED
  BY <1>1, <1>2, <1>3

\* p is the largest power of two not above n.
Largest(p, n) == p \in Powers /\ p <= n /\ \A q \in Powers : q <= n => q <= p

(* There is one.                                                             *)
LEMMA LargestExists ==
  ASSUME NEW n \in Nat \ {0}
  PROVE  \E p : Largest(p, n)
<1> DEFINE T == {d \in Nat : \E p \in Powers : d = n - p}
<1>1. n - 1 \in T
  BY PowersFacts
<1>2. T \in SUBSET Nat /\ T # {}
  BY <1>1
<1>3. PICK d \in T : \A e \in T : d <= e
  <2> HIDE DEF T
  <2> QED BY <1>2, LeastNat
<1>4. PICK p \in Powers : d = n - p /\ d \in Nat
  BY <1>3
<1>5. p \in Nat /\ p <= n
  BY <1>4, PowersFacts
<1>6. ASSUME NEW q \in Powers, q <= n PROVE q <= p
  <2>1. q \in Nat
    BY PowersFacts
  <2>2. n - q \in T
    BY <1>6, <2>1
  <2>3. d <= n - q
    BY <1>3, <2>2
  <2> QED BY <1>4, <1>5, <2>1, <2>3
<1>7. QED
  BY <1>5, <1>6 DEF Largest

(* Halving.                                                                  *)
LEMMA Half ==
  ASSUME NEW n \in Nat \ {0}, n # 1
  PROVE  /\ n \div 2 \in Nat \ {0} /\ n \div 2 < n
         /\ n = 2 * (n \div 2) \/ n = 2 * (n \div 2) + 1
  OBVIOUS

(* The largest power of two follows the recursion.                           *)
LEMMA LargestDoubles ==
  ASSUME NEW n \in Nat \ {0}, n # 1, NEW p, Largest(p, n \div 2)
  PROVE  Largest(2 * p, n)
<1> DEFINE h == n \div 2
<1>1. h \in Nat \ {0} /\ (n = 2 * h \/ n = 2 * h + 1)
  BY Half
<1>2. p \in Powers /\ p <= h /\ \A q \in Powers : q <= h => q <= p
  BY DEF Largest
<1> HIDE DEF h
<1>3. p \in Nat /\ p >= 1 /\ 2 * p \in Powers
  BY <1>2, PowersFacts
<1>4. 2 * p <= n
  BY <1>1, <1>2, <1>3
<1>5. ASSUME NEW q \in Powers, q <= n PROVE q <= 2 * p
  <2>1. CASE q = 1
    BY <1>3, <2>1
  <2>2. ASSUME NEW r \in Powers, q = 2 * r PROVE q <= 2 * p
    <3>1. r \in Nat
      BY PowersFacts
    <3>2. r <= h
      BY <1>1, <1>5, <2>2, <3>1
    <3>3. r <= p
      BY <1>2, <3>2
    <3> QED BY <1>3, <2>2, <3>1, <3>3
  <2>3. QED
    BY <2>1, <2>2, PowersFacts
<1>6. QED
  BY <1>3, <1>4, <1>5 DEF Largest

(* There is only one.                                                        *)
LEMMA LargestUnique ==
  ASSUME NEW n, NEW p, NEW q, Largest(p, n), Largest(q, n)
  PROVE  p = q
<1>1. p \in Nat /\ q \in Nat /\ p <= q /\ q <= p
  BY PowersFacts DEF Largest
<1>2. QED
  BY <1>1

(* The recursion of RoundDown has a solution, so RoundDown is one.           *)
LEMMA RoundDownEquation ==
  \A n \in Nat \ {0} : RoundDown[n] = IF n = 1 THEN 1 ELSE 2 * RoundDown[n \div 2]
<1> DEFINE g == [n \in Nat \ {0} |-> CHOOSE p : Largest(p, n)]
<1>1. ASSUME NEW n \in Nat \ {0} PROVE Largest(g[n], n)
  BY LargestExists
<1>2. \A n \in Nat \ {0} : g[n] = g[n] /\ g = [k \in Nat \ {0} |-> g[k]]
  OBVIOUS
<1> HIDE DEF g
<1>3. ASSUME NEW n \in Nat \ {0} PROVE g[n] = IF n = 1 THEN 1 ELSE 2 * g[n \div 2]
  <2>1. CASE n = 1
    <3>1. Largest(1, 1)
      BY PowersFacts DEF Largest
    <3> QED BY <1>1, <2>1, <3>1, LargestUnique
  <2>2. CASE n # 1
    <3>1. n \div 2 \in Nat \ {0}
      BY <2>2, Half
    <3>2. Largest(2 * g[n \div 2], n)
      BY <1>1, <2>2, <3>1, LargestDoubles
    <3> QED BY <1>1, <2>2, <3>2, LargestUnique
  <2> QED BY <2>1, <2>2
<1>4. g = [n \in Nat \ {0} |-> IF n = 1 THEN 1 ELSE 2 * g[n \div 2]]
  <2>1. g = [n \in Nat \ {0} |-> g[n]]
    BY <1>2
  <2> QED BY <1>3, <2>1
<1> DEFINE f == CHOOSE f : f = [n \in Nat \ {0} |-> IF n = 1 THEN 1 ELSE 2 * f[n \div 2]]
<1>5. f = [n \in Nat \ {0} |-> IF n = 1 THEN 1 ELSE 2 * f[n \div 2]]
  BY <1>4
<1>6. RoundDown = f
  BY DEF RoundDown
<1> HIDE DEF f
<1>7. QED
  BY <1>5, <1>6

(* RoundDown gives the largest power of two.                                 *)
LEMMA RoundDownLargest == \A n \in Nat \ {0} : Largest(RoundDown[n], n)
<1> SUFFICES ASSUME NEW z \in Nat \ {0}, ~Largest(RoundDown[z], z) PROVE FALSE
  OBVIOUS
<1> DEFINE T == {n \in Nat \ {0} : ~Largest(RoundDown[n], n)}
<1>1. T \in SUBSET Nat /\ T # {}
  OBVIOUS
<1>2. PICK n \in T : \A m \in T : n <= m
  <2> HIDE DEF T
  <2> QED BY <1>1, LeastNat
<1>3. n \in Nat \ {0} /\ ~Largest(RoundDown[n], n)
  OBVIOUS
<1>4. CASE n = 1
  <2>1. RoundDown[1] = 1 /\ Largest(1, 1)
    BY RoundDownEquation, PowersFacts DEF Largest
  <2> QED BY <1>3, <1>4, <2>1
<1>5. CASE n # 1
  <2>1. n \div 2 \in Nat \ {0} /\ n \div 2 < n
    BY <1>3, <1>5, Half
  <2>2. n \div 2 \notin T
    BY <1>2, <1>3, <2>1
  <2>3. Largest(RoundDown[n \div 2], n \div 2)
    BY <2>1, <2>2
  <2>4. Largest(2 * RoundDown[n \div 2], n)
    BY <1>3, <1>5, <2>3, LargestDoubles
  <2> QED BY <1>3, <1>5, <2>4, RoundDownEquation
<1>6. QED
  BY <1>4, <1>5

(* Whatever the constructor is given, the ring has at least one slot, no     *)
(* more than asked for, more than half of it, and a power of two: the mask   *)
(* capacity - 1 is the remainder modulo capacity.  (CachedBuffer.h 19-33)    *)
THEOREM CapacityRounded ==
  Capacity \in 1 .. Cap /\ Cap < 2 * Capacity /\ Capacity \in Powers
<1>1. Largest(Capacity, Cap)
  BY RoundDownLargest, CapacityAssumption DEF Capacity
<1> HIDE DEF Capacity
<1>2. /\ Capacity \in Powers /\ Capacity <= Cap /\ \A q \in Powers : q <= Cap => q <= Capacity
  BY <1>1 DEF Largest
<1>3. Capacity \in Nat /\ Capacity >= 1 /\ 2 * Capacity \in Powers
  BY <1>2, PowersFacts
<1>4. Cap < 2 * Capacity
  BY <1>2, <1>3, CapacityAssumption
<1>5. QED
  BY <1>2, <1>3, <1>4, CapacityAssumption

(* The capacity is positive.                                                 *)
LEMMA CapacityPositive == Capacity \in Nat \ {0}
<1> HIDE DEF Capacity
<1> QED BY CapacityRounded

(* Every position has a slot.                                                *)
LEMMA SlotOf == \A n \in Nat : n % Capacity \in Slots
<1> HIDE DEF Capacity
<1>1. QED
  BY CapacityPositive, DivMod DEF Slots

-----------------------------------------------------------------------------
(* The invariant                                                            *)

(* The empty ring satisfies the invariant.                                   *)
LEMMA RingInit == Init => RingInv
<1> SUFFICES ASSUME Init PROVE RingInv
  OBVIOUS
<1> USE CapacityPositive
<1> HIDE DEF Capacity
<1>1. 0 \in Slots
  BY DEF Slots
<1>2. TypeOK
  BY <1>1, BoundsAssumption, EmptySeq DEF Init, TypeOK, PostPc
<1>3. CountersInRange /\ PosterOwnsSlot /\ WriterOwnsHead
  BY DEF Init, CountersInRange, PosterOwnsSlot, WriterOwnsHead
<1>4. QED
  BY <1>2, <1>3 DEF RingInv

(* The steps of postMsg keep the invariant.                                  *)
LEMMA RingPost ==
  ASSUME OneAtATime, OneAtATime', RingInv, NEW p \in Producers,
         PostRefused(p) \/ (\E m \in Messages : PostBegin(p, m)) \/ PostMsg(p)
  PROVE  RingInv'
<1> USE CapacityPositive
<1> HIDE DEF Capacity
<1>b. /\ TypeOK /\ CountersInRange /\ PosterOwnsSlot /\ WriterOwnsHead
      /\ nTail \in Int /\ nTail + 1 \in Nat
  BY DEF RingInv, TypeOK
<1>a. PostMsg(p) => \A q \in Producers : q # p => ppc[q] = "idle"
  BY DEF OneAtATime, PostMsg, Allocate, Fill, TailTest, TailLoad, TailStore
<1>c. (nTail + 1) % Capacity \in Slots
  BY <1>b, SlotOf
<1>1. CASE PostRefused(p)
  <2>1. posts' \in 0 .. MaxPosts
    BY <1>1, <1>b, BoundsAssumption DEF PostRefused, TypeOK
  <2>2. QED
    BY <1>1, <2>1 DEF PostRefused, RingInv, TypeOK, CountersInRange,
         PosterOwnsSlot, WriterOwnsHead, ringVars, postVars, loopVars, connVars
<1>2. ASSUME NEW m \in Messages, PostBegin(p, m) PROVE RingInv'
  <2>1. posts' \in 0 .. MaxPosts
    BY <1>2, <1>b, BoundsAssumption DEF PostBegin, TypeOK
  <2>2. /\ ppc' \in [Producers -> PostPc]
        /\ arg' \in [Producers -> Messages \cup {NoMessage}]
        /\ \A q \in Producers : IF q = p THEN ppc'[q] = "alloc" /\ arg'[q] \in Messages
                                            ELSE ppc'[q] = "idle"
    <3>1. /\ ppc' = [ppc EXCEPT ![p] = "alloc"] /\ arg' = [arg EXCEPT ![p] = m]
          /\ ppc \in [Producers -> PostPc]
          /\ arg \in [Producers -> Messages \cup {NoMessage}]
      BY <1>2, <1>b DEF PostBegin, TypeOK
    <3>2. \A q \in Producers : q # p => ppc'[q] = "idle"
      BY <3>1 DEF OneAtATime
    <3>3. QED
      BY <3>1, <3>2 DEF PostPc
  <2>3. TypeOK'
    BY <1>2, <1>b, <2>1, <2>2 DEF PostBegin, TypeOK, ringVars, loopVars, connVars
  <2>4. PosterOwnsSlot'
    BY <2>2 DEF PosterOwnsSlot
  <2>5. CountersInRange' /\ WriterOwnsHead'
    BY <1>2, <1>b DEF PostBegin, CountersInRange, WriterOwnsHead, ringVars, loopVars
  <2>6. QED
    BY <2>3, <2>4, <2>5 DEF RingInv
<1>A. CASE Allocate(p)
  <2>0. \A q \in Producers : q # p => ppc[q] = "idle"
    BY <1>a, <1>A DEF PostMsg
  <2>1. CASE isFull
    <3>1. /\ ppc' \in [Producers -> PostPc]
          /\ arg' \in [Producers -> Messages \cup {NoMessage}]
          /\ \A q \in Producers : ppc'[q] = "idle"
          /\ UNCHANGED slot
      BY <1>A, <1>b, <2>0, <2>1 DEF Allocate, TypeOK, PostPc
    <3>2. TypeOK'
      BY <1>A, <1>b, <3>1 DEF Allocate, TypeOK, ringVars, loopVars, connVars
    <3>3. PosterOwnsSlot'
      BY <3>1 DEF PosterOwnsSlot
    <3>4. CountersInRange' /\ WriterOwnsHead'
      BY <1>A, <1>b DEF Allocate, CountersInRange, WriterOwnsHead, ringVars, loopVars
    <3>5. QED
      BY <3>2, <3>3, <3>4 DEF RingInv
  <2>2. CASE ~isFull
    <3>1. /\ slot' \in [Producers -> Slots]
          /\ ppc' \in [Producers -> PostPc]
          /\ UNCHANGED arg /\ arg[p] \in Messages
          /\ \A q \in Producers : q # p => ppc'[q] = "idle"
      BY <1>A, <1>b, <1>c, <2>0, <2>2 DEF Allocate, TypeOK, PostPc
    <3>2. TypeOK'
      BY <1>A, <1>b, <3>1 DEF Allocate, TypeOK, ringVars, loopVars, connVars
    <3>3. nTail + 1 - nHead < Capacity
      BY <1>b, <2>2 DEF isFull, CountersInRange, TypeOK
    <3>4. PosterOwnsSlot'
      BY <1>A, <1>b, <2>2, <3>1, <3>3 DEF Allocate, PosterOwnsSlot, TypeOK, ringVars
    <3>5. CountersInRange' /\ WriterOwnsHead'
      BY <1>A, <1>b DEF Allocate, CountersInRange, WriterOwnsHead, ringVars, loopVars
    <3>6. QED
      BY <3>2, <3>4, <3>5 DEF RingInv
  <2>3. QED
    BY <2>1, <2>2
<1>3. CASE Fill(p)
  <2>0. \A q \in Producers : q # p => ppc[q] = "idle"
    BY <1>a, <1>3 DEF PostMsg
  <2>1. arg[p] \in Messages /\ slot[p] \in Slots
    BY <1>3, <1>b DEF Fill, TypeOK
  <2>2. TypeOK'
    <3>1. /\ elements' \in [Slots -> Messages \cup {NoMessage}]
          /\ ppc' \in [Producers -> PostPc]
          /\ \A q \in Producers : ppc'[q] # "idle" => arg[q] \in Messages
      BY <1>3, <1>b, <2>1 DEF Fill, TypeOK, PostPc
    <3>2. QED
      BY <1>3, <1>b, <3>1 DEF Fill, TypeOK, loopVars, connVars
  <2>3. PosterOwnsSlot'
    BY <1>3, <1>b, <2>0, <2>1 DEF Fill, PosterOwnsSlot, TypeOK
  <2>4. ASSUME bReqWritereqBusy PROVE slot[p] # req_uvbuf
    <3>1. slot[p] = (nTail + 1) % Capacity /\ req_uvbuf = nHead % Capacity
      BY <1>3, <1>b, <2>4 DEF Fill, PosterOwnsSlot, WriterOwnsHead
    <3>a. nTail + 1 - nHead < Capacity /\ nHead < nTail + 1 /\ nHead \in Nat
      BY <1>3, <1>b, <2>4 DEF Fill, PosterOwnsSlot, WriterOwnsHead, TypeOK
    <3>2. nHead % Capacity # (nTail + 1) % Capacity
      <4> DEFINE b == nTail + 1
      <4>1. b \in Nat /\ nHead \in Nat /\ nHead < b /\ b - nHead < Capacity
        BY <1>b, <3>a
      <4> HIDE DEF b
      <4>2. nHead % Capacity # b % Capacity
        BY <4>1, SlotsDiffer
      <4>3. QED
        BY <4>2 DEF b
    <3>3. QED
      BY <3>1, <3>2
  <2>5. WriterOwnsHead' /\ CountersInRange'
    BY <1>3, <1>b, <2>1, <2>4 DEF Fill, WriterOwnsHead, CountersInRange, TypeOK, loopVars
  <2>6. QED
    BY <2>2, <2>3, <2>5 DEF RingInv
<1>4. CASE TailTest(p)
  <2>1. ~isFull
    <3>1. nTail + 1 - nHead < Capacity
      BY <1>4, <1>b DEF TailTest, PosterOwnsSlot
    <3>2. QED
      BY <1>b, <3>1 DEF isFull, TypeOK
  <2>2. ppc' = [ppc EXCEPT ![p] = "load"] /\ UNCHANGED <<arg, accepted>> /\ ppc[p] = "full?"
    BY <1>4, <2>1 DEF TailTest
  <2>3. TypeOK'
    BY <1>4, <1>b, <2>2 DEF TailTest, TypeOK, PostPc, ringVars, loopVars, connVars
  <2>4. PosterOwnsSlot'
    BY <1>4, <1>b, <2>2 DEF TailTest, PosterOwnsSlot, TypeOK, ringVars
  <2>5. WriterOwnsHead' /\ CountersInRange'
    BY <1>4, <1>b DEF TailTest, WriterOwnsHead, CountersInRange, ringVars, loopVars
  <2>6. QED
    BY <2>3, <2>4, <2>5 DEF RingInv
<1>5. CASE TailLoad(p)
  <2>1. TypeOK'
    BY <1>5, <1>b DEF TailLoad, TypeOK, PostPc, ringVars, loopVars, connVars
  <2>2. PosterOwnsSlot'
    BY <1>5, <1>b DEF TailLoad, PosterOwnsSlot, TypeOK, ringVars
  <2>3. WriterOwnsHead' /\ CountersInRange'
    BY <1>5, <1>b DEF TailLoad, WriterOwnsHead, CountersInRange, ringVars, loopVars
  <2>4. QED
    BY <2>1, <2>2, <2>3 DEF RingInv
<1>6. CASE TailStore(p)
  <2>0. \A q \in Producers : q # p => ppc[q] = "idle"
    BY <1>a, <1>6 DEF PostMsg
  <2>1. /\ arg[p] \in Messages /\ nTail' = nTail + 1 /\ nTail + 1 - nHead < Capacity
    BY <1>6, <1>b DEF TailStore, PosterOwnsSlot, TypeOK
  <2>2. /\ accepted' \in Seq(Messages) /\ nTail' \in Nat
        /\ ppc' \in [Producers -> PostPc]
        /\ arg' \in [Producers -> Messages \cup {NoMessage}]
        /\ tail' \in [Producers -> Nat \cup {-1}]
        /\ \A q \in Producers : ppc'[q] = "idle"
    BY <1>6, <1>b, <2>0, <2>1 DEF TailStore, TypeOK, PostPc
  <2>3. TypeOK'
    BY <1>6, <1>b, <2>2 DEF TailStore, TypeOK, loopVars, connVars
  <2>4. PosterOwnsSlot'
    BY <2>2 DEF PosterOwnsSlot
  <2>5. CountersInRange'
    BY <1>6, <1>b, <2>1 DEF TailStore, CountersInRange, TypeOK
  <2>6. WriterOwnsHead'
    BY <1>6, <1>b, <2>1 DEF TailStore, WriterOwnsHead, TypeOK, loopVars
  <2>7. QED
    BY <2>3, <2>4, <2>5, <2>6 DEF RingInv
<1>7. QED
  BY <1>1, <1>2, <1>A, <1>3, <1>4, <1>5, <1>6 DEF PostMsg

(* The steps of the loop thread keep the invariant.                          *)
LEMMA RingLoop ==
  ASSUME RingInv, LoopStep \/ Disconnect \/ Connect
  PROVE  RingInv'
<1> USE CapacityPositive
<1> HIDE DEF Capacity
<1>b. /\ TypeOK /\ CountersInRange /\ PosterOwnsSlot /\ WriterOwnsHead
      /\ nTail \in Int /\ nHead \in Nat
  BY DEF RingInv, TypeOK
<1>1. CASE StartWrite
  <2>1. nHead % Capacity \in Slots
    BY <1>b, SlotOf
  <2>2. nHead < nTail + 1 /\ nCurrent = nHead
    BY <1>1, <1>b DEF StartWrite, isEmpty, CountersInRange
  <2>3. bReqWritereqBusy' = TRUE /\ req_uvbuf' = nHead % Capacity
        /\ writing' = TRUE /\ copied' = <<>>
    BY <1>1, <2>2 DEF StartWrite
  <2>4. TypeOK'
    BY <1>1, <1>b, <2>1, <2>3, EmptySeq DEF StartWrite, TypeOK, ringVars, postVars, connVars
  <2>5. WriterOwnsHead'
    BY <1>1, <2>2, <2>3 DEF StartWrite, WriterOwnsHead, ringVars
  <2>6. CountersInRange' /\ PosterOwnsSlot'
    BY <1>1, <1>b DEF StartWrite, CountersInRange, PosterOwnsSlot, ringVars, postVars
  <2>7. QED
    BY <2>4, <2>5, <2>6 DEF RingInv
<1>2. CASE CopyToKernel
  <2>1. copied' = <<elements[req_uvbuf]>> /\ writing
        /\ UNCHANGED <<ringVars, postVars, bReqWritereqBusy, req_uvbuf, writing,
                       connVars, posts, accepted, delivered>>
    BY <1>2 DEF CopyToKernel
  <2>2. elements[req_uvbuf] \in Messages \cup {NoMessage}
    BY <1>b DEF TypeOK
  <2>3. TypeOK'
    BY <1>b, <2>1, <2>2 DEF TypeOK, ringVars, postVars, connVars
  <2>4. WriterOwnsHead'
    BY <1>b, <2>1 DEF WriterOwnsHead, ringVars
  <2>5. CountersInRange' /\ PosterOwnsSlot'
    BY <1>b, <2>1 DEF CountersInRange, PosterOwnsSlot, ringVars, postVars
  <2>6. QED
    BY <2>3, <2>4, <2>5 DEF RingInv
<1>3. CASE WriteDone
  <2>1. bReqWritereqBusy /\ copied # <<>> /\ nHead < nTail + 1
    BY <1>3, <1>b DEF WriteDone, WriterOwnsHead
  <2>2. nHead' = nHead + 1 /\ nCurrent' = nHead + 1
    BY <1>3, <1>b, <2>1 DEF WriteDone, HeadForward, isEmpty, CountersInRange
  <2>3. bReqWritereqBusy' = FALSE /\ writing' = FALSE /\ copied' = <<>>
        /\ delivered' = delivered \o copied
        /\ UNCHANGED <<elements, nTail, postVars, req_uvbuf, connVars, posts, accepted>>
    BY <1>3 DEF WriteDone
  <2>4. copied \in Seq(Messages \cup {NoMessage})
    BY <1>b DEF TypeOK
  <2>5. delivered' \in Seq(Messages \cup {NoMessage})
    BY <1>b, <2>3, <2>4, ConcatProperties DEF TypeOK
  <2>a. nHead' \in Nat /\ nCurrent' \in Nat
    BY <1>b, <2>2
  <2>c. copied' \in Seq(Messages \cup {NoMessage})
    BY <2>3, EmptySeq
  <2>6. TypeOK'
    BY <1>b, <2>a, <2>c, <2>3, <2>5 DEF TypeOK, postVars, connVars
  <2>7. CountersInRange' /\ WriterOwnsHead'
    BY <1>b, <2>1, <2>2, <2>3 DEF CountersInRange, WriterOwnsHead
  <2>8. PosterOwnsSlot'
    <3>1. \A p \in Producers : ppc[p] \notin {"idle", "alloc"} =>
                              nTail + 1 - (nHead + 1) < Capacity
      BY <1>b DEF PosterOwnsSlot
    <3>2. QED
      BY <1>b, <2>2, <2>3, <3>1 DEF PosterOwnsSlot, postVars
  <2>9. QED
    BY <2>6, <2>7, <2>8 DEF RingInv
<1>4. CASE WriteFailed \/ Disconnect \/ Connect
  <2>1. /\ UNCHANGED <<ringVars, postVars, bReqWritereqBusy, req_uvbuf, copied, posts,
                       accepted, delivered>>
    BY <1>4 DEF WriteFailed, Disconnect, Connect, loopVars
  <2>a. UNCHANGED writing \/ (writing' = FALSE /\ copied = <<>>)
    BY <1>4 DEF WriteFailed, Disconnect, Connect, loopVars
  <2>2. bConnected' \in BOOLEAN
    BY <1>4 DEF WriteFailed, Disconnect, Connect
  <2>3. losses' \in 0 .. MaxLosses
    BY <1>4, <1>b, BoundsAssumption DEF WriteFailed, Disconnect, Connect, TypeOK
  <2>4. TypeOK'
    BY <1>b, <2>1, <2>a, <2>2, <2>3 DEF TypeOK, ringVars, postVars
  <2>5. CountersInRange' /\ PosterOwnsSlot'
    BY <1>b, <2>1 DEF CountersInRange, PosterOwnsSlot, ringVars, postVars
  <2>6. WriterOwnsHead'
    BY <1>b, <2>1, <2>a DEF WriterOwnsHead, ringVars
  <2>7. QED
    BY <2>4, <2>5, <2>6 DEF RingInv
<1>5. QED
  BY <1>1, <1>2, <1>3, <1>4 DEF LoopStep

(* The invariant is inductive as long as threads post in turn.               *)
LEMMA RingStep == OneAtATime /\ OneAtATime' /\ RingInv /\ [Next]_vars => RingInv'
<1> SUFFICES ASSUME OneAtATime, OneAtATime', RingInv, [Next]_vars PROVE RingInv'
  OBVIOUS
<1>1. CASE UNCHANGED vars
  BY <1>1 DEF vars, RingInv, TypeOK, CountersInRange, PosterOwnsSlot, WriterOwnsHead
<1>2. QED
  BY <1>1, RingPost, RingLoop DEF Next

(* The invariant holds in every state of a behaviour without overlaps.       *)
LEMMA RingInvHolds == Spec /\ []OneAtATime => []RingInv
<1>1. QED
  BY RingInit, RingStep, PTL DEF Spec

-----------------------------------------------------------------------------
(* The refinement                                                           *)

\* The queue a ring stands for, as a sequence.
QueuedSeq ==
  /\ Queued \in Seq(Messages \cup {NoMessage})
  /\ Len(Queued) = nTail + 1 - nHead
  /\ \A i \in 1 .. nTail + 1 - nHead :
       Queued[i] = elements[(nHead + i - 1) % Capacity]

(* The occupied slots form a sequence, from head to tail.                    *)
LEMMA QueuedIsSeq == RingInv => QueuedSeq
<1> HIDE DEF Capacity
<1> SUFFICES ASSUME RingInv PROVE QueuedSeq
  OBVIOUS
<1> DEFINE n == nTail + 1 - nHead
<1>1. n \in Nat /\ nHead \in Nat
  BY DEF RingInv, TypeOK, CountersInRange
<1> HIDE DEF n
<1>2. ASSUME NEW i \in 1 .. n
      PROVE  elements[(nHead + i - 1) % Capacity] \in Messages \cup {NoMessage}
  <2>1. nHead + i - 1 \in Nat
    BY <1>1
  <2>2. (nHead + i - 1) % Capacity \in Slots
    BY <2>1, SlotOf
  <2>3. QED
    BY <2>2 DEF RingInv, TypeOK
<1>3. Queued = [i \in 1 .. n |-> elements[(nHead + i - 1) % Capacity]]
  BY DEF Queued, n
<1>4. Queued \in Seq(Messages \cup {NoMessage}) /\ Len(Queued) = n
  BY <1>1, <1>2, <1>3
<1>5. \A i \in 1 .. n : Queued[i] = elements[(nHead + i - 1) % Capacity]
  BY <1>3
<1>6. QED
  BY <1>4, <1>5 DEF n, QueuedSeq

(* The same in the next state.                                               *)
LEMMA QueuedIsSeqNext == RingInv' => QueuedSeq'
  BY QueuedIsSeq, PTL

(* A step that leaves the counters and the occupied slots alone leaves the   *)
(* queue alone.                                                              *)
LEMMA QueuedUnchanged ==
  ASSUME RingInv, RingInv', UNCHANGED <<nHead, nTail>>,
         \A i \in 1 .. nTail + 1 - nHead :
            elements'[(nHead + i - 1) % Capacity] = elements[(nHead + i - 1) % Capacity]
  PROVE  Queued' = Queued
<1> HIDE DEF Capacity
<1> DEFINE n == nTail + 1 - nHead
           S == Messages \cup {NoMessage}
<1>1. Queued \in Seq(S) /\ Len(Queued) = n
      /\ \A i \in 1 .. n : Queued[i] = elements[(nHead + i - 1) % Capacity]
  BY QueuedIsSeq DEF QueuedSeq
<1>2. Queued' \in Seq(S) /\ Len(Queued') = n
      /\ \A i \in 1 .. n : Queued'[i] = elements'[(nHead + i - 1) % Capacity]
  BY QueuedIsSeqNext DEF QueuedSeq
<1> HIDE DEF n
<1>3. \A i \in 1 .. n : Queued'[i] = Queued[i]
  BY <1>1, <1>2 DEF n
<1>4. QED
  BY <1>1, <1>2, <1>3, SeqEqual

(* postMsg up to the store of nTail is invisible in the queue: what it       *)
(* writes lies outside the occupied slots.                                   *)
LEMMA FillInvisible ==
  ASSUME RingInv, RingInv', NEW p \in Producers, Fill(p)
  PROVE  Queued' = Queued
<1> USE CapacityPositive
<1> HIDE DEF Capacity
<1>1. /\ nHead \in Nat /\ nTail \in Int /\ nTail + 1 \in Nat /\ nHead =< nTail + 1
      /\ nTail + 1 - nHead < Capacity
  BY DEF RingInv, TypeOK, CountersInRange, PosterOwnsSlot, Fill
<1>2. slot[p] = (nTail + 1) % Capacity
  BY DEF RingInv, PosterOwnsSlot, Fill
<1>3. ASSUME NEW i \in 1 .. nTail + 1 - nHead
      PROVE  elements'[(nHead + i - 1) % Capacity] = elements[(nHead + i - 1) % Capacity]
  <2> DEFINE a == nHead + i - 1
             b == nTail + 1
  <2>1. a \in Nat /\ b \in Nat /\ a < b /\ b - a < Capacity
    BY <1>1
  <2> HIDE DEF a, b
  <2>2. a % Capacity # b % Capacity
    BY <2>1, SlotsDiffer
  <2>3. a % Capacity \in Slots
    BY <2>1, SlotOf
  <2>4. elements'[a % Capacity] = elements[a % Capacity]
    BY <1>2, <2>2, <2>3 DEF Fill, RingInv, TypeOK, b
  <2>5. QED
    BY <2>4 DEF a
<1>4. QED
  BY <1>3, QueuedUnchanged DEF Fill

(* The store of nTail puts the message into the queue.                       *)
LEMMA TailStorePuts ==
  ASSUME RingInv, RingInv', NEW p \in Producers, TailStore(p)
  PROVE  \E m \in Messages : Fifo!Put(m)
<1> USE CapacityPositive
<1> HIDE DEF Capacity
<1> DEFINE n == nTail + 1 - nHead
           S == Messages \cup {NoMessage}
<1>1. /\ nHead \in Nat /\ nTail \in Int /\ n \in Nat /\ n < Capacity /\ arg[p] \in Messages
      /\ nTail' = nTail + 1
  <2>1. nHead \in Nat /\ nTail \in Int /\ n \in Nat
    BY DEF RingInv, TypeOK, CountersInRange
  <2>2. arg[p] \in Messages
    BY DEF RingInv, TypeOK, TailStore
  <2>3. n < Capacity /\ nTail' = nTail + 1
    BY DEF RingInv, PosterOwnsSlot, TailStore
  <2>4. QED
    BY <2>1, <2>2, <2>3
<1>2. elements[(nTail + 1) % Capacity] = arg[p] /\ UNCHANGED <<elements, nHead, delivered>>
      /\ accepted' = Append(accepted, arg[p])
  BY DEF RingInv, PosterOwnsSlot, TailStore
<1>3. Queued \in Seq(S) /\ Len(Queued) = n
      /\ \A i \in 1 .. n : Queued[i] = elements[(nHead + i - 1) % Capacity]
  BY QueuedIsSeq DEF QueuedSeq
<1>4. nTail' + 1 - nHead' = n + 1
  BY <1>1, <1>2
<1>5. Queued' \in Seq(S) /\ Len(Queued') = n + 1
      /\ \A i \in 1 .. n + 1 : Queued'[i] = elements[(nHead + i - 1) % Capacity]
  BY <1>2, <1>4, QueuedIsSeqNext DEF QueuedSeq
<1>6. nHead + (n + 1) - 1 = nTail + 1
  BY <1>1
<1> HIDE DEF n
<1>7. Queued'[n + 1] = arg[p]
  <2>1. Queued'[n + 1] = elements[(nHead + (n + 1) - 1) % Capacity]
    BY <1>1, <1>5
  <2>2. QED
    BY <1>2, <1>6, <2>1
<1>8. /\ Append(Queued, arg[p]) \in Seq(S) /\ Len(Append(Queued, arg[p])) = n + 1
      /\ \A i \in 1 .. n : Append(Queued, arg[p])[i] = Queued[i]
      /\ Append(Queued, arg[p])[n + 1] = arg[p]
  BY <1>1, <1>3, AppendProperties
<1>9. ASSUME NEW i \in 1 .. n + 1 PROVE Queued'[i] = Append(Queued, arg[p])[i]
  <2>1. CASE i = n + 1
    BY <2>1, <1>7, <1>8
  <2>2. CASE i \in 1 .. n
    <3>1. Queued'[i] = elements[(nHead + i - 1) % Capacity]
      BY <1>5
    <3>2. Queued[i] = elements[(nHead + i - 1) % Capacity]
      BY <1>3, <2>2
    <3>3. QED
      BY <1>8, <2>2, <3>1, <3>2
  <2>3. n \in Nat
    BY <1>1
  <2>4. i = n + 1 \/ i \in 1 .. n
    BY <2>3
  <2>5. QED
    BY <2>1, <2>2, <2>4
<1>10. Queued' = Append(Queued, arg[p])
  BY <1>5, <1>8, <1>9, SeqEqual
<1>11. QED
  BY <1>1, <1>2, <1>3, <1>10 DEF Fifo!Put

(* The completion of a write takes the message at the head out of the queue. *)
LEMMA WriteDoneGets ==
  ASSUME RingInv, RingInv', WriteDone
  PROVE  Fifo!Get
<1> USE CapacityPositive
<1> HIDE DEF Capacity
<1> DEFINE n == nTail + 1 - nHead
           S == Messages \cup {NoMessage}
<1>1. /\ nHead \in Nat /\ nTail \in Int /\ n \in Nat /\ n > 0
  BY DEF RingInv, TypeOK, CountersInRange, WriterOwnsHead, WriteDone
<1>2. nHead' = nHead + 1 /\ UNCHANGED <<elements, nTail, accepted>>
  BY <1>1 DEF RingInv, CountersInRange, WriteDone, HeadForward, isEmpty
<1>3. Queued \in Seq(S) /\ Len(Queued) = n
      /\ \A i \in 1 .. n : Queued[i] = elements[(nHead + i - 1) % Capacity]
  BY QueuedIsSeq DEF QueuedSeq
<1>4. nTail' + 1 - nHead' = n - 1 /\ nHead + 1 - 1 = nHead
  BY <1>1, <1>2
<1>5. Queued' \in Seq(S) /\ Len(Queued') = n - 1
      /\ \A i \in 1 .. n - 1 : Queued'[i] = elements[(nHead + 1 + i - 1) % Capacity]
  BY <1>2, <1>4, QueuedIsSeqNext DEF QueuedSeq
<1> HIDE DEF n
<1>6. Queued # <<>> /\ Head(Queued) = elements[nHead % Capacity]
  BY <1>1, <1>3, <1>4, EmptySeq
<1>7. delivered' = Append(delivered, Head(Queued))
  <2>1. copied = <<elements[nHead % Capacity]>> /\ delivered' = delivered \o copied
    BY DEF RingInv, WriterOwnsHead, WriteDone
  <2>2. delivered \in Seq(S) /\ elements[nHead % Capacity] \in S
    <3>1. nHead % Capacity \in Slots
      BY <1>1, SlotOf
    <3>2. QED
      BY <3>1 DEF RingInv, TypeOK
  <2>3. QED
    BY <1>6, <2>1, <2>2, AppendIsConcat
<1>8. /\ Tail(Queued) \in Seq(S) /\ Len(Tail(Queued)) = n - 1
      /\ \A i \in 1 .. n - 1 : Tail(Queued)[i] = Queued[i + 1]
  BY <1>3, <1>6, HeadTailProperties
<1>9. ASSUME NEW i \in 1 .. n - 1 PROVE Queued'[i] = Tail(Queued)[i]
  <2>1. i + 1 \in 1 .. n /\ nHead + (i + 1) - 1 = nHead + 1 + i - 1
    BY <1>1
  <2>2. Queued[i + 1] = elements[(nHead + (i + 1) - 1) % Capacity]
    BY <1>3, <2>1
  <2>3. QED
    BY <1>5, <1>8, <2>1, <2>2
<1>10. Queued' = Tail(Queued)
  BY <1>5, <1>8, <1>9, SeqEqual
<1>11. QED
  BY <1>2, <1>6, <1>7, <1>10 DEF Fifo!Get

(* Every step of the ring is a step of the queue or invisible in it.         *)
LEMMA StepRefines ==
  ASSUME RingInv, RingInv', [Next]_vars
  PROVE  [Fifo!Next]_Fifo!vars
<1>a. ASSUME UNCHANGED <<elements, nHead, nTail, accepted, delivered>>
      PROVE  UNCHANGED Fifo!vars
  BY <1>a, QueuedUnchanged DEF Fifo!vars
<1>1. ASSUME NEW p \in Producers, PostRefused(p) PROVE UNCHANGED Fifo!vars
  BY <1>a, <1>1 DEF PostRefused, ringVars
<1>2. ASSUME NEW p \in Producers, NEW m \in Messages, PostBegin(p, m)
      PROVE  UNCHANGED Fifo!vars
  BY <1>a, <1>2 DEF PostBegin, ringVars
<1>3. ASSUME NEW p \in Producers, Fill(p) PROVE UNCHANGED Fifo!vars
  BY <1>3, FillInvisible DEF Fill, Fifo!vars
<1>4. ASSUME NEW p \in Producers, TailTest(p) PROVE UNCHANGED Fifo!vars
  <2>1. nTail + 1 - nHead < Capacity /\ nTail \in Int /\ nHead \in Nat
    BY <1>4, SMTT(40) DEF TailTest, RingInv, PosterOwnsSlot, TypeOK
  <2>2. ~isFull
    BY <2>1, CapacityPositive DEF isFull
  <2>3. QED
    BY <1>a, <1>4, <2>2 DEF TailTest, ringVars
<1>5. ASSUME NEW p \in Producers, TailLoad(p) PROVE UNCHANGED Fifo!vars
  BY <1>a, <1>5 DEF TailLoad, ringVars
<1>b. ASSUME NEW p \in Producers, Allocate(p) PROVE UNCHANGED Fifo!vars
  BY <1>a, <1>b DEF Allocate, ringVars
<1>6. CASE StartWrite \/ CopyToKernel \/ WriteFailed \/ Disconnect \/ Connect \/ UNCHANGED vars
  BY <1>a, <1>6 DEF StartWrite, CopyToKernel, WriteFailed, Disconnect, Connect, vars,
       ringVars
<1>7. QED
  BY <1>1, <1>2, <1>b, <1>3, <1>4, <1>5, <1>6, TailStorePuts, WriteDoneGets
     DEF Next, PostMsg, LoopStep, Fifo!Next

(* As long as no two threads are inside postMsg together, however many there *)
(* are, the ring implements the bounded queue, for every capacity: the       *)
(* unlocked nHead and nTail never lose, repeat, reorder or alter a message   *)
(* (CachedBuffer.h 38-87, SolcomApi.cpp 184-209, 297-316).                   *)
THEOREM SpscRefinement == Spec /\ []OneAtATime => RingIsFifo
<1>1. Init => Fifo!Init
  <2> SUFFICES ASSUME Init PROVE Fifo!Init
    OBVIOUS
  <2>1. RingInv /\ nTail + 1 - nHead = 0
    BY RingInit DEF Init
  <2>2. Queued = <<>>
    BY <2>1, QueuedIsSeq, EmptySeq DEF QueuedSeq
  <2>3. QED
    BY <2>2 DEF Init, Fifo!Init
<1>2. RingInv /\ RingInv' /\ [Next]_vars => [Fifo!Next]_Fifo!vars
  BY StepRefines
<1>3. QED
  BY <1>1, <1>2, RingInvHolds, PTL DEF Spec, RingIsFifo, Fifo!Spec

(* As long as threads post in turn, the slot of a write under way is never   *)
(* written to: libuv may read it at any time until req_write_cb.             *)
THEOREM WritesUndisturbed == Spec /\ []OneAtATime => []WriteUndisturbed
<1>1. RingInv => WriteUndisturbed
  <2> USE CapacityPositive
  <2> HIDE DEF Capacity
  <2> SUFFICES ASSUME RingInv, NEW p \in Producers, writing, ppc[p] = "fill"
               PROVE  slot[p] # req_uvbuf
    BY DEF WriteUndisturbed
  <2> DEFINE b == nTail + 1
  <2>1. b \in Nat /\ nHead \in Nat /\ nHead < b /\ b - nHead < Capacity
    BY SMTT(40) DEF RingInv, TypeOK, PosterOwnsSlot, WriterOwnsHead
  <2>2. slot[p] = b % Capacity /\ req_uvbuf = nHead % Capacity
    BY DEF RingInv, PosterOwnsSlot, WriterOwnsHead
  <2> HIDE DEF b
  <2>3. QED
    BY <2>1, <2>2, SlotsDiffer
<1>2. QED
  BY <1>1, RingInvHolds, PTL

(* Accepting a message at the end of the queue, ...                          *)
LEMMA ConcatAppend ==
  ASSUME NEW S, NEW m \in S, NEW d \in Seq(S), NEW q \in Seq(S)
  PROVE  Append(d \o q, m) = d \o Append(q, m)
<1>1. /\ Append(d \o q, m) = (d \o q) \o <<m>> /\ Append(q, m) = q \o <<m>>
      /\ <<m>> \in Seq(S)
  BY ConcatProperties, AppendIsConcat
<1>2. QED
  BY <1>1, ConcatAssociative

(* ... or delivering the one at its front, leaves the order as it is.        *)
LEMMA ConcatMove ==
  ASSUME NEW S, NEW d \in Seq(S), NEW q \in Seq(S), q # <<>>
  PROVE  d \o q = Append(d, Head(q)) \o Tail(q)
<1>1. Head(q) \in S /\ Tail(q) \in Seq(S) /\ <<Head(q)>> \in Seq(S)
      /\ q = <<Head(q)>> \o Tail(q)
  BY HeadTailProperties
<1>2. Append(d, Head(q)) = d \o <<Head(q)>>
  BY <1>1, AppendIsConcat
<1>3. QED
  BY SMTT(30), <1>1, <1>2, ConcatAssociative

(* As long as threads post in turn, at every moment the messages accepted    *)
(* are those delivered followed by those in the ring: none is lost,          *)
(* repeated, altered or overtaken, whatever connection losses come between.  *)
THEOREM AcceptedInOrder == Spec /\ []OneAtATime => []Fifo!InOrder
<1> DEFINE Contents == Messages \cup {NoMessage}
<1>1. Init => Fifo!InOrder
  <2> SUFFICES ASSUME Init PROVE Fifo!InOrder
    OBVIOUS
  <2>1. RingInv /\ nTail + 1 - nHead = 0
    BY RingInit DEF Init
  <2>2. Queued = <<>>
    BY <2>1, QueuedIsSeq, EmptySeq DEF QueuedSeq
  <2>3. QED
    BY <2>2 DEF Init, Fifo!InOrder
<1>2. RingInv /\ RingInv' /\ Fifo!InOrder /\ [Next]_vars => Fifo!InOrder'
  <2> SUFFICES ASSUME RingInv, RingInv', Fifo!InOrder, [Next]_vars PROVE Fifo!InOrder'
    OBVIOUS
  <2>1. Queued \in Seq(Contents) /\ delivered \in Seq(Contents) /\ accepted = delivered \o Queued
    BY QueuedIsSeq DEF QueuedSeq, RingInv, TypeOK, Fifo!InOrder
  <2>2. CASE UNCHANGED Fifo!vars
    BY <2>1, <2>2 DEF Fifo!vars, Fifo!InOrder
  <2>3. ASSUME NEW m \in Messages, Fifo!Put(m) PROVE Fifo!InOrder'
    <3>1. accepted' = Append(accepted, m) /\ Queued' = Append(Queued, m) /\ delivered' = delivered
      BY <2>3 DEF Fifo!Put
    <3>2. Append(delivered \o Queued, m) = delivered \o Append(Queued, m)
      <4>1. m \in Contents /\ delivered \in Seq(Contents) /\ Queued \in Seq(Contents)
        BY <2>1
      <4> HIDE DEF Contents
      <4>2. \A d, q \in Seq(Contents) : Append(d \o q, m) = d \o Append(q, m)
        BY <4>1, ConcatAppend
      <4>3. QED
        BY Zenon, <4>1, <4>2
    <3>3. accepted' = delivered' \o Queued'
      BY Zenon, <2>1, <3>1, <3>2
    <3>4. QED
      BY Zenon, <3>3 DEF Fifo!InOrder
  <2>4. CASE Fifo!Get
    <3>1. /\ Queued # <<>> /\ accepted' = accepted
          /\ delivered' = Append(delivered, Head(Queued)) /\ Queued' = Tail(Queued)
      BY <2>4 DEF Fifo!Get
    <3>2. delivered \o Queued = Append(delivered, Head(Queued)) \o Tail(Queued)
      BY <2>1, <3>1, ConcatMove
    <3>3. accepted' = delivered' \o Queued'
      BY Zenon, <2>1, <3>1, <3>2
    <3>4. QED
      BY Zenon, <3>3 DEF Fifo!InOrder
  <2>5. QED
    BY <2>2, <2>3, <2>4, StepRefines DEF Fifo!Next
<1>3. QED
  BY <1>1, <1>2, RingInvHolds, PTL DEF Spec

-----------------------------------------------------------------------------
(* The busy flag                                                            *)

\* The flag says that a write is under way and none is.
Wedged == bReqWritereqBusy /\ ~writing

\* libuv has a request only when the flag is set; without it the flag is set, and a
\* write is to be cancelled, only after a connection was lost.
BusyInv ==
  /\ losses \in Nat
  /\ writing => bReqWritereqBusy
  /\ Wedged \/ (writing /\ ~bConnected) => losses > 0

(* Every step keeps it.                                                      *)
LEMMA BusyStep ==
  ASSUME BusyInv, [Next]_vars
  PROVE  BusyInv'
<1> USE DEF BusyInv, Wedged
<1>1. ASSUME NEW p \in Producers, PostRefused(p) \/ (\E m \in Messages : PostBegin(p, m)) \/ PostMsg(p)
      PROVE  BusyInv'
  <2>1. UNCHANGED <<loopVars, connVars>>
    BY <1>1 DEF PostRefused, PostBegin, PostMsg, Allocate, Fill, TailTest, TailLoad, TailStore
  <2> QED BY <2>1 DEF loopVars, connVars
<1>2. CASE StartWrite
  BY <1>2 DEF StartWrite, connVars
<1>3. CASE CopyToKernel
  BY <1>3 DEF CopyToKernel, connVars
<1>4. CASE WriteDone
  BY <1>4 DEF WriteDone, connVars
<1>5. CASE WriteFailed
  <2>1. losses' > 0 /\ losses' \in Nat
    BY <1>5 DEF WriteFailed
  <2> QED BY <1>5, <2>1 DEF WriteFailed
<1>6. CASE Disconnect
  BY <1>6 DEF Disconnect, loopVars
<1>7. CASE Connect
  BY <1>7 DEF Connect, loopVars
<1>8. CASE UNCHANGED vars
  BY <1>8 DEF vars
<1>9. QED
  BY <1>1, <1>2, <1>3, <1>4, <1>5, <1>6, <1>7, <1>8 DEF Next, LoopStep

(* With any number of posting threads, the busy flag is the flag of a write  *)
(* under way until a connection is lost.  (idle_cb and req_write_cb of       *)
(* SolcomApi.cpp; SolcomApi.h 66-67)                                         *)
THEOREM BusyUntilLost == Spec => [](losses = 0 => BusyWhileWriting)
<1>1. Init => BusyInv
  BY DEF Init, BusyInv, Wedged
<1>2. BusyInv /\ [Next]_vars => BusyInv'
  BY BusyStep
<1>3. BusyInv => (losses = 0 => BusyWhileWriting)
  BY DEF BusyInv, Wedged, BusyWhileWriting
<1>4. QED
  BY <1>1, <1>2, <1>3, PTL DEF Spec

(* Once it says so of no write, it does for ever: nothing is delivered any   *)
(* more, on this connection or on a later one.  (SolcomApi.cpp 300)          *)
THEOREM WedgedForGood == Spec => [][Wedged => Wedged' /\ delivered' = delivered]_vars
<1>1. ASSUME [Next]_vars, Wedged PROVE Wedged' /\ delivered' = delivered
  <2>1. ASSUME NEW p \in Producers,
               PostRefused(p) \/ (\E m \in Messages : PostBegin(p, m)) \/ PostMsg(p)
        PROVE  Wedged' /\ delivered' = delivered
    <3>1. UNCHANGED <<loopVars, delivered>>
      BY <2>1 DEF PostRefused, PostBegin, PostMsg, Allocate, Fill, TailTest, TailLoad, TailStore
    <3> QED BY <1>1, <3>1 DEF Wedged, loopVars
  <2>2. ~StartWrite /\ ~CopyToKernel /\ ~WriteDone /\ ~WriteFailed
    BY <1>1 DEF Wedged, StartWrite, CopyToKernel, WriteDone, WriteFailed
  <2>3. CASE Disconnect \/ Connect
    <3>1. UNCHANGED <<loopVars, delivered>>
      BY <2>3 DEF Disconnect, Connect
    <3> QED BY <1>1, <3>1 DEF Wedged, loopVars
  <2>4. CASE UNCHANGED vars
    BY <1>1, <2>4 DEF Wedged, vars
  <2>5. QED
    BY <1>1, <2>1, <2>2, <2>3, <2>4 DEF Next, LoopStep
<1>2. QED
  BY <1>1, PTL DEF Spec
=============================================================================
