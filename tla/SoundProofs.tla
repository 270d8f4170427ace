---------------------------- MODULE SoundProofs ----------------------------
(***************************************************************************)
(* The two ends of the speaker: the ring that takes its samples to the     *)
(* audio callback, and the timer whose OUT they are samples of.            *)
(*                                                                         *)
(* The ring is a bounded queue, for every size of the buffer that divides  *)
(* the modulus of the counters: every step of push() and pop() is a step   *)
(* of SpeakerQueue or changes nothing of it, across the wrap of both       *)
(* counters.                                                               *)
(*                                                                         *)
(* The timer reads back a latched count whole, and drives OUT with the     *)
(* wave of its mode and count: binary counts of any width, and decimal     *)
(* ones of four digits, whose borrow is proved right for every word.  One  *)
(* cycle of the chip is first cut into what it does to one channel, an     *)
(* access and then a tick; each invariant is a relation of a channel and   *)
(* the program's view of it that both keep.                                *)
(***************************************************************************)
EXTENDS SpeakerRing, Timer, Integers, SequenceTheorems, TLAPS

Counter == 0 .. Wrap - 1
Cell == 0 .. Size - 1

(***************************************************************************)
(* Arithmetic of the indices                                               *)
(***************************************************************************)
\* A natural number is quotient times size plus remainder.
LEMMA Division ==
  ASSUME NEW x \in Nat
  PROVE  /\ x % Size \in Cell
         /\ x \div Size \in Nat
         /\ x = Size * (x \div Size) + (x % Size)
BY RingAssumption, SMTT(30) DEF Cell

\* A positive multiple of the size is no less than the size.
LEMMA Multiple ==
  ASSUME NEW k \in Int, Size * k > 0
  PROVE  Size * k >= Size
<1>1. CASE k >= 1
  <2>1. k - 1 \in Nat /\ Size * (k - 1) \in Nat
    BY <1>1, RingAssumption
  <2>2. Size * k = Size * (k - 1) + Size
    BY RingAssumption
  <2> QED
    BY <2>1, <2>2, RingAssumption
<1>2. CASE k <= 0
  <2>1. -k \in Nat /\ Size * (-k) \in Nat
    BY <1>2, RingAssumption
  <2>2. Size * k = -(Size * (-k))
    BY RingAssumption
  <2> QED
    BY <2>1, <2>2, RingAssumption
<1> QED
  BY <1>1, <1>2

\* Numbers less than the size apart have different cells.
LEMMA CellsDiffer ==
  ASSUME NEW x \in Nat, NEW d \in 1 .. Size - 1
  PROVE  x % Size # (x + d) % Size
<1> SUFFICES ASSUME x % Size = (x + d) % Size PROVE FALSE
  OBVIOUS
<1> DEFINE p == x \div Size
           q == (x + d) \div Size
<1>1. /\ p \in Nat /\ q \in Nat /\ x % Size \in Cell
      /\ x = Size * p + (x % Size) /\ x + d = Size * q + (x % Size)
  BY SMTT(30), Division, RingAssumption
<1> HIDE DEF p, q
<1>2. Size * (q - p) = Size * q - Size * p
  BY <1>1, RingAssumption
<1>3. Size * (q - p) = d
  BY <1>1, <1>2, RingAssumption, SMTT(30) DEF Cell
<1>4. q - p \in Int /\ d > 0 /\ d < Size
  BY <1>1, RingAssumption
<1> QED
  BY <1>3, <1>4, Multiple, RingAssumption

\* The cell does not see the counter wrap.
LEMMA WrapCell ==
  ASSUME NEW x \in Nat
  PROVE  (x + Wrap) % Size = x % Size
<1> DEFINE p == x \div Size
           q == Wrap \div Size
           s == (x + Wrap) \div Size
           r == x % Size
           t == (x + Wrap) % Size
<1>1. /\ p \in Nat /\ q \in Nat /\ s \in Nat /\ r \in Cell /\ t \in Cell
      /\ x = Size * p + r /\ Wrap = Size * q /\ x + Wrap = Size * s + t
  BY Division, RingAssumption
<1> SUFFICES r = t
  OBVIOUS
<1> HIDE DEF p, q, s, r, t
<1>2. /\ Size * ((p + q) - s) = Size * p + Size * q - Size * s
      /\ Size * (s - (p + q)) = Size * s - Size * p - Size * q
  BY <1>1, RingAssumption
<1>3. Size * ((p + q) - s) = t - r /\ Size * (s - (p + q)) = r - t
  BY <1>1, <1>2, RingAssumption DEF Cell
<1>4. (p + q) - s \in Int /\ s - (p + q) \in Int
  BY <1>1
<1> QED
  BY <1>1, <1>3, <1>4, Multiple, RingAssumption DEF Cell

LEMMA DistanceIs ==
  ASSUME NEW a \in Counter, NEW b \in Counter
  PROVE  Distance(a, b) = IF a >= b THEN a - b ELSE (Wrap + a) - b
BY RingAssumption, SMTT(30) DEF Distance, Counter

LEMMA SuccIs ==
  ASSUME NEW a \in Counter
  PROVE  Succ(a) = IF a + 1 = Wrap THEN 0 ELSE a + 1
BY RingAssumption, SMTT(30) DEF Succ, Counter

\* How the distance follows the two counters.
LEMMA DistanceMoves ==
  ASSUME NEW w \in Counter, NEW r \in Counter
  PROVE  /\ Succ(w) \in Counter
         /\ Distance(w, r) \in Nat
         /\ Distance(w, r) = 0 <=> w = r
         /\ Distance(w, r) < Size => Distance(Succ(w), r) = Distance(w, r) + 1
         /\ w # r => Distance(w, Succ(r)) = Distance(w, r) - 1
<1>1. Succ(w) \in Counter /\ Succ(r) \in Counter
  BY SuccIs, RingAssumption DEF Counter
<1>2. /\ Distance(w, r) = IF w >= r THEN w - r ELSE (Wrap + w) - r
      /\ Distance(Succ(w), r) =
           IF Succ(w) >= r THEN Succ(w) - r ELSE (Wrap + Succ(w)) - r
      /\ Distance(w, Succ(r)) =
           IF w >= Succ(r) THEN w - Succ(r) ELSE (Wrap + w) - Succ(r)
  BY <1>1, DistanceIs
<1>3. /\ Succ(w) = IF w + 1 = Wrap THEN 0 ELSE w + 1
      /\ Succ(r) = IF r + 1 = Wrap THEN 0 ELSE r + 1
  BY SuccIs
<1> QED
  BY <1>1, <1>2, <1>3, RingAssumption DEF Counter

\* The entry after the last one queued is the one write points at.
LEMMA WriteCell ==
  ASSUME NEW w \in Counter, NEW r \in Counter
  PROVE  w % Size = (r + Distance(w, r)) % Size
<1>1. CASE w >= r
  BY <1>1, DistanceIs DEF Counter
<1>2. CASE w < r
  <2>1. r + Distance(w, r) = w + Wrap
    BY <1>2, DistanceIs, RingAssumption DEF Counter
  <2> QED
    BY <2>1, WrapCell DEF Counter
<1> QED
  BY <1>1, <1>2 DEF Counter

LEMMA SuccCell ==
  ASSUME NEW r \in Counter, NEW i \in Nat
  PROVE  (Succ(r) + i) % Size = (r + 1 + i) % Size
<1>1. CASE r + 1 = Wrap
  <2>1. Succ(r) + i = i /\ r + 1 + i = i + Wrap
    BY <1>1, SuccIs, RingAssumption
  <2> QED
    BY <2>1, WrapCell
<1>2. CASE r + 1 # Wrap
  BY <1>2, SuccIs DEF Counter
<1> QED
  BY <1>1, <1>2

(***************************************************************************)
(* The queue that a buffer and two counters stand for                      *)
(***************************************************************************)
Entries(b, w, r) == [i \in 1 .. Distance(w, r) |-> b[(r + i - 1) % Size]]

LEMMA EntriesSeq ==
  ASSUME NEW b \in [Cell -> Samples], NEW w \in Counter, NEW r \in Counter
  PROVE  /\ Entries(b, w, r) \in Seq(Samples)
         /\ Len(Entries(b, w, r)) = Distance(w, r)
         /\ \A i \in 1 .. Distance(w, r) :
              Entries(b, w, r)[i] = b[(r + i - 1) % Size]
<1>1. Distance(w, r) \in Nat
  BY DistanceMoves
<1>2. \A i \in 1 .. Distance(w, r) : b[(r + i - 1) % Size] \in Samples
  <2> TAKE i \in 1 .. Distance(w, r)
  <2>1. r + i - 1 \in Nat
    BY <1>1, RingAssumption DEF Counter
  <2> QED
    BY <2>1, Division
<1> QED
  BY <1>1, <1>2 DEF Entries

\* Storing in the cell behind the queue leaves the queue alone.
LEMMA StoreKeeps ==
  ASSUME NEW b \in [Cell -> Samples], NEW w \in Counter, NEW r \in Counter,
         NEW v \in Samples, Distance(w, r) < Size
  PROVE  Entries([b EXCEPT ![w % Size] = v], w, r) = Entries(b, w, r)
<1> DEFINE d == Distance(w, r)
<1>1. d \in Nat /\ w % Size = (r + d) % Size /\ r \in Nat
  BY DistanceMoves, WriteCell, RingAssumption DEF Counter
<1>2. ASSUME NEW i \in 1 .. d
      PROVE  (r + i - 1) % Size # w % Size /\ (r + i - 1) % Size \in Cell
  <2>1. /\ r + i - 1 \in Nat /\ d - i + 1 \in 1 .. Size - 1
        /\ (r + i - 1) + (d - i + 1) = r + d
    BY <1>1, <1>2, RingAssumption
  <2>2. (r + i - 1) % Size # ((r + i - 1) + (d - i + 1)) % Size
    BY <2>1, CellsDiffer
  <2> QED
    BY <1>1, <2>1, <2>2, Division
<1> HIDE DEF d
<1>3. \A i \in 1 .. d :
        [b EXCEPT ![w % Size] = v][(r + i - 1) % Size] = b[(r + i - 1) % Size]
  BY <1>2
<1> QED
  BY <1>3 DEF Entries, d

\* Publishing appends the entry that was stored.
LEMMA PublishAppends ==
  ASSUME NEW b \in [Cell -> Samples], NEW w \in Counter, NEW r \in Counter,
         Distance(w, r) < Size
  PROVE  Entries(b, Succ(w), r) = Append(Entries(b, w, r), b[w % Size])
<1> DEFINE d == Distance(w, r)
           q == Entries(b, w, r)
           n == Entries(b, Succ(w), r)
<1>1. /\ d \in Nat /\ r \in Nat /\ Succ(w) \in Counter
      /\ Distance(Succ(w), r) = d + 1
      /\ w % Size = (r + d) % Size
  BY DistanceMoves, WriteCell, RingAssumption DEF Counter
<1>a. w % Size \in Cell /\ b[w % Size] \in Samples
  BY Division, RingAssumption DEF Counter
<1>2. /\ q \in Seq(Samples) /\ Len(q) = d
      /\ \A i \in 1 .. d : q[i] = b[(r + i - 1) % Size]
      /\ n \in Seq(Samples) /\ Len(n) = d + 1
      /\ \A i \in 1 .. d + 1 : n[i] = b[(r + i - 1) % Size]
  BY ZenonT(30), <1>1, EntriesSeq
<1> HIDE DEF d, q, n
<1>3. /\ Append(q, b[w % Size]) \in Seq(Samples)
      /\ Len(Append(q, b[w % Size])) = d + 1
      /\ \A i \in 1 .. d + 1 : Append(q, b[w % Size])[i] =
            IF i = d + 1 THEN b[w % Size] ELSE q[i]
  BY <1>1, <1>a, <1>2
<1>4. \A i \in 1 .. d + 1 : n[i] = Append(q, b[w % Size])[i]
  <2> TAKE i \in 1 .. d + 1
  <2>1. CASE i = d + 1
    <3>1. r + i - 1 = r + d
      BY <1>1, <2>1
    <3> QED
      BY <1>1, <1>2, <1>3, <2>1, <3>1
  <2>2. CASE i # d + 1
    <3>1. i \in 1 .. d
      BY <1>1, <2>2
    <3> QED
      BY <1>2, <1>3, <2>2, <3>1
  <2> QED
    BY <2>1, <2>2
<1>5. n = Append(q, b[w % Size])
  BY <1>2, <1>3, <1>4, SeqEqual
<1> QED
  BY <1>5 DEF q, n

\* Releasing takes the head away.
LEMMA ReleasePops ==
  ASSUME NEW b \in [Cell -> Samples], NEW w \in Counter, NEW r \in Counter,
         w # r
  PROVE  /\ Entries(b, w, r) # <<>>
         /\ Head(Entries(b, w, r)) = b[r % Size]
         /\ Entries(b, w, Succ(r)) = Tail(Entries(b, w, r))
<1> DEFINE d == Distance(w, r)
           q == Entries(b, w, r)
           n == Entries(b, w, Succ(r))
<1>1. /\ d \in Nat /\ d # 0 /\ r \in Nat /\ Succ(r) \in Counter
      /\ Distance(w, Succ(r)) = d - 1
  BY DistanceMoves, RingAssumption DEF Counter
<1>2. /\ q \in Seq(Samples) /\ Len(q) = d
      /\ \A i \in 1 .. d : q[i] = b[(r + i - 1) % Size]
      /\ n \in Seq(Samples) /\ Len(n) = d - 1
      /\ \A i \in 1 .. d - 1 : n[i] = b[(Succ(r) + i - 1) % Size]
  BY ZenonT(30), <1>1, EntriesSeq
<1>a. \A i \in 1 .. d - 1 : (Succ(r) + i - 1) % Size = (r + (i + 1) - 1) % Size
  <2> TAKE i \in 1 .. d - 1
  <2>1. i - 1 \in Nat /\ Succ(r) \in Int
    BY <1>1, RingAssumption DEF Counter
  <2>2. (Succ(r) + (i - 1)) % Size = (r + 1 + (i - 1)) % Size
    BY <2>1, SuccCell
  <2>3. Succ(r) + (i - 1) = Succ(r) + i - 1 /\ r + 1 + (i - 1) = r + (i + 1) - 1
    BY <1>1, <2>1
  <2> QED
    BY <2>2, <2>3
<1> HIDE DEF d, q, n
<1>3. q # <<>> /\ Head(q) = b[r % Size]
  <2>1. q # <<>> /\ Head(q) = q[1] /\ 1 \in 1 .. d
    BY <1>1, <1>2
  <2>2. r + 1 - 1 = r
    BY <1>1
  <2> QED
    BY <1>2, <2>1, <2>2
<1>4. /\ Tail(q) \in Seq(Samples) /\ Len(Tail(q)) = d - 1
      /\ \A i \in 1 .. d - 1 : Tail(q)[i] = q[i + 1]
  BY <1>1, <1>2, <1>3, HeadTailProperties
<1>5. \A i \in 1 .. d - 1 : n[i] = Tail(q)[i]
  <2> TAKE i \in 1 .. d - 1
  <2>1. i + 1 \in 1 .. d
    BY <1>1
  <2> QED
    BY <1>2, <1>a, <1>4, <2>1
<1>6. n = Tail(q)
  BY <1>2, <1>4, <1>5, SeqEqual
<1> QED
  BY <1>3, <1>6 DEF q, n

(***************************************************************************)
(* The invariant                                                           *)
(***************************************************************************)
AtMostOne == {<<>>} \cup {<<v>> : v \in Samples}

RingTypes ==
  /\ buf \in [Cell -> Samples]
  /\ write \in Counter /\ read \in Counter /\ drops \in {0, 1}
  /\ prod \in [pc : {"idle", "refresh", "store", "publish"},
               val : AtMostOne, cachedRead : Counter]
  /\ cons \in [pc : {"idle", "load", "release"},
               val : AtMostOne, heard : AtMostOne]

\* cached_read is behind read, and write is never more than the size ahead of
\* it; it is less ahead once push() has decided to store.
CountersOrdered ==
  /\ Distance(write, read) <= Distance(write, prod.cachedRead)
  /\ Distance(write, prod.cachedRead) <= Size
  /\ prod.pc \in {"store", "publish"} =>
       Distance(write, prod.cachedRead) < Size
  /\ cons.pc \in {"load", "release"} => read # write

\* What each thread holds in its hands.
HandsFull ==
  /\ prod.pc # "idle" => prod.val # <<>>
  /\ prod.pc = "publish" => prod.val = <<buf[write % Size]>>
  /\ cons.pc = "release" => cons.val = <<buf[read % Size]>>

RingInv == RingTypes /\ CountersOrdered /\ HandsFull

LEMMA RingInit == Init => RingInv
<1> SUFFICES ASSUME Init PROVE RingInv
  OBVIOUS
<1>1. 0 \in Counter /\ Distance(0, 0) = 0
  BY DistanceMoves, RingAssumption DEF Counter
<1>2. RingTypes
  BY <1>1, RingAssumption DEF Init, RingTypes, AtMostOne, Cell
<1>3. CountersOrdered
  BY <1>1, RingAssumption DEF Init, CountersOrdered
<1>4. HandsFull
  BY DEF Init, HandsFull
<1> QED
  BY <1>2, <1>3, <1>4 DEF RingInv

LEMMA PushBeginKeeps == RingInv /\ PushBegin => RingInv'
<1> SUFFICES ASSUME RingInv, PushBegin PROVE RingInv'
  OBVIOUS
<1> USE DEF RingInv
<1>1. RingTypes'
  BY ZenonT(30) DEF PushBegin, RingTypes, AtMostOne
<1>2. Distance(write, prod.cachedRead) \in Nat
  BY DistanceMoves DEF RingTypes
<1>3. CountersOrdered'
  BY <1>2, RingAssumption
  DEF PushBegin, RingTypes, CountersOrdered, Full
<1>4. HandsFull'
  BY DEF PushBegin, RingTypes, HandsFull
<1> QED
  BY <1>1, <1>3, <1>4

LEMMA PushRefreshKeeps == RingInv /\ PushRefresh => RingInv'
<1> SUFFICES ASSUME RingInv, PushRefresh PROVE RingInv'
  OBVIOUS
<1> USE DEF RingInv
<1>1. RingTypes'
  <2>1. <<>> \in AtMostOne /\ 1 - drops \in {0, 1}
    BY DEF AtMostOne, RingTypes
  <2>2. CASE Full(read)
    BY <2>1, <2>2 DEF PushRefresh, RingTypes
  <2>3. CASE ~Full(read)
    BY <2>3 DEF PushRefresh, RingTypes
  <2> QED
    BY <2>2, <2>3
<1>2. Distance(write, prod.cachedRead) \in Nat /\ Distance(write, read) \in Nat
  BY DistanceMoves DEF RingTypes
<1>3. CountersOrdered'
  BY <1>2, RingAssumption
  DEF PushRefresh, RingTypes, CountersOrdered, Full
<1>4. HandsFull'
  BY DEF PushRefresh, RingTypes, HandsFull
<1> QED
  BY <1>1, <1>3, <1>4

\* While the producer stores and the consumer reads, the ring is neither full
\* nor empty.
LEMMA StoreApart ==
  ASSUME RingInv, prod.pc = "store", cons.pc \in {"load", "release"}
  PROVE  Distance(write, read) \in 1 .. Size - 1 /\ read \in Nat
<1>1. /\ write \in Counter /\ read \in Counter /\ prod.cachedRead \in Counter
  BY DEF RingInv, RingTypes
<1>2. /\ Distance(write, read) \in Nat /\ Distance(write, prod.cachedRead) \in Nat
      /\ Distance(write, read) # 0
  BY <1>1, DistanceMoves DEF RingInv, CountersOrdered
<1>3. /\ Distance(write, read) <= Distance(write, prod.cachedRead)
      /\ Distance(write, prod.cachedRead) < Size
  BY DEF RingInv, CountersOrdered
<1> QED
  BY <1>1, <1>2, <1>3, RingAssumption DEF Counter

\* The store does not touch the entry the consumer has read.
LEMMA PushStoreKeeps == RingInv /\ PushStore => RingInv'
<1> SUFFICES ASSUME RingInv, PushStore PROVE RingInv'
  OBVIOUS
<1> USE DEF RingInv
<1>1. write % Size \in Cell /\ read % Size \in Cell
  BY Division, RingAssumption DEF RingTypes, Counter
<1>2. \E v \in Samples : prod.val = <<v>>
  BY DEF PushStore, RingTypes, AtMostOne, HandsFull
<1>3. prod.val[1] \in Samples /\ prod.val = <<prod.val[1]>>
  BY <1>2
<1>4. RingTypes'
  BY <1>1, <1>3 DEF PushStore, RingTypes
<1>5. CountersOrdered'
  BY DEF PushStore, RingTypes, CountersOrdered
<1>6. cons.pc = "release" => read % Size # write % Size
  <2> SUFFICES ASSUME cons.pc = "release" PROVE read % Size # write % Size
    OBVIOUS
  <2>1. Distance(write, read) \in 1 .. Size - 1 /\ read \in Nat
    BY StoreApart DEF PushStore
  <2> QED
    BY <2>1, CellsDiffer, WriteCell DEF RingTypes
<1>7. HandsFull'
  BY <1>1, <1>3, <1>6 DEF PushStore, RingTypes, HandsFull
<1> QED
  BY <1>4, <1>5, <1>7

LEMMA PushPublishKeeps == RingInv /\ PushPublish => RingInv'
<1> SUFFICES ASSUME RingInv, PushPublish PROVE RingInv'
  OBVIOUS
<1> USE DEF RingInv
<1>1. /\ Distance(write, read) \in Nat /\ Distance(write, prod.cachedRead) \in Nat
      /\ Succ(write) \in Counter
      /\ Distance(write, prod.cachedRead) < Size
      /\ Distance(Succ(write), read) = Distance(write, read) + 1
      /\ Distance(Succ(write), prod.cachedRead) =
           Distance(write, prod.cachedRead) + 1
  BY DistanceMoves, RingAssumption DEF PushPublish, RingTypes, CountersOrdered
<1>2. RingTypes'
  BY <1>1 DEF PushPublish, RingTypes, AtMostOne
<1>3. read # Succ(write)
  BY <1>1, DistanceMoves DEF RingTypes
<1>4. CountersOrdered'
  BY <1>1, <1>3, RingAssumption DEF PushPublish, RingTypes, CountersOrdered
<1>5. HandsFull'
  BY DEF PushPublish, RingTypes, HandsFull
<1> QED
  BY <1>2, <1>4, <1>5

LEMMA PopBeginKeeps == RingInv /\ PopBegin => RingInv'
BY DEF RingInv, PopBegin, RingTypes, CountersOrdered, HandsFull

LEMMA PopLoadKeeps == RingInv /\ PopLoad => RingInv'
<1> SUFFICES ASSUME RingInv, PopLoad PROVE RingInv'
  OBVIOUS
<1> USE DEF RingInv
<1>1. buf[read % Size] \in Samples
  BY Division, RingAssumption DEF RingTypes, Counter
<1>2. RingTypes'
  BY <1>1 DEF PopLoad, RingTypes, AtMostOne
<1>3. CountersOrdered' /\ HandsFull'
  BY DEF PopLoad, RingTypes, CountersOrdered, HandsFull
<1> QED
  BY <1>2, <1>3

LEMMA PopReleaseKeeps == RingInv /\ PopRelease => RingInv'
<1> SUFFICES ASSUME RingInv, PopRelease PROVE RingInv'
  OBVIOUS
<1> USE DEF RingInv
<1>1. /\ Succ(read) \in Counter
      /\ Distance(write, read) \in Nat /\ Distance(write, prod.cachedRead) \in Nat
      /\ Distance(write, Succ(read)) = Distance(write, read) - 1
  BY DistanceMoves DEF PopRelease, RingTypes, CountersOrdered
<1>2. RingTypes'
  BY <1>1 DEF PopRelease, RingTypes, AtMostOne
<1>3. CountersOrdered'
  BY <1>1, RingAssumption DEF PopRelease, RingTypes, CountersOrdered
<1>4. HandsFull'
  BY DEF PopRelease, RingTypes, HandsFull
<1> QED
  BY <1>2, <1>3, <1>4

LEMMA RingNext == RingInv /\ [Next]_vars => RingInv'
<1> SUFFICES ASSUME RingInv, [Next]_vars PROVE RingInv'
  OBVIOUS
<1>1. CASE Producer
  BY <1>1, PushBeginKeeps, PushRefreshKeeps, PushStoreKeeps, PushPublishKeeps
  DEF Producer
<1>2. CASE Consumer
  BY <1>2, PopBeginKeeps, PopLoadKeeps, PopReleaseKeeps DEF Consumer
<1>3. CASE UNCHANGED vars
  BY <1>3 DEF RingInv, RingTypes, CountersOrdered, HandsFull, vars
<1> QED
  BY <1>1, <1>2, <1>3 DEF Next

LEMMA RingAlways == Spec => []RingInv
BY RingInit, RingNext, PTL DEF Spec

(***************************************************************************)
(* The theorems                                                            *)
(***************************************************************************)
\* The producer never stores into the entry the consumer is reading, whatever
\* the size: a store is decided only on a copy of read that is behind it.
THEOREM NoSampleTorn == Spec => []NoTornSample
<1>1. RingInv => NoTornSample
  <2> SUFFICES ASSUME RingInv, prod.pc = "store", cons.pc = "load"
               PROVE  write % Size # read % Size
    BY DEF NoTornSample
  <2>1. Distance(write, read) \in 1 .. Size - 1 /\ read \in Nat
    BY StoreApart
  <2> QED
    BY <2>1, CellsDiffer, WriteCell DEF RingInv, RingTypes
<1> QED
  BY <1>1, RingAlways, PTL

LEMMA InitIsQueueInit == Init => Queue!Init
<1> SUFFICES ASSUME Init PROVE Queue!Init
  OBVIOUS
<1>1. Distance(write, read) = 0
  BY DistanceMoves, RingAssumption DEF Init, Counter
<1>2. Queued = <<>>
  BY <1>1 DEF Queued
<1> QED
  BY <1>2 DEF Init, Queue!Init

\* A step of the ring is a push, a drop or a pop of the queue, or a stutter.
LEMMA StepIsQueueStep ==
  ASSUME RingInv, [Next]_vars
  PROVE  [Queue!Next]_<<Queued, cons.heard, drops = 1>>
<1> USE DEF RingInv
<1> DEFINE Same == /\ Queued' = Queued /\ cons'.heard = cons.heard
                   /\ (drops = 1)' <=> (drops = 1)
<1>t. /\ buf \in [Cell -> Samples] /\ write \in Counter /\ read \in Counter
      /\ prod.cachedRead \in Counter
  BY DEF RingTypes
<1>d. /\ Distance(write, read) \in Nat
      /\ Distance(write, prod.cachedRead) \in Nat
      /\ Distance(write, read) <= Distance(write, prod.cachedRead)
      /\ Distance(write, prod.cachedRead) <= Size
      /\ prod.pc \in {"store", "publish"} =>
           Distance(write, prod.cachedRead) < Size
  BY <1>t, DistanceMoves DEF CountersOrdered
<1>q. /\ Queued = Entries(buf, write, read)
      /\ Queued' = Entries(buf', write', read')
  BY DEF Queued, Entries
<1>l. Len(Queued) = Distance(write, read)
  BY <1>t, <1>q, EntriesSeq
<1>1. CASE PushBegin \/ PopBegin \/ PopLoad \/ UNCHANGED vars
  <2>1. Same
    BY <1>1 DEF PushBegin, PopBegin, PopLoad, vars, Queued, RingTypes
  <2> QED
    BY <2>1
<1>2. CASE PushRefresh
  <2>1. Queued' = Queued /\ cons'.heard = cons.heard
    BY <1>2 DEF PushRefresh, Queued
  <2>2. CASE ~Full(read)
    <3>1. drops' = drops
      BY <1>2, <2>2 DEF PushRefresh
    <3> QED
      BY <2>1, <3>1
  <2>3. CASE Full(read)
    <3>1. (drops = 1)' <=> ~(drops = 1)
      BY <1>2, <2>3 DEF PushRefresh, RingTypes
    <3>2. Distance(write, read) = Size
      BY <1>d, <2>3, RingAssumption DEF Full
    <3>3. Len(Queued) = Size
      BY <1>l, <3>2
    <3>4. Queue!Drop
      BY <2>1, <3>1, <3>3 DEF Queue!Drop
    <3> QED
      BY <3>4 DEF Queue!Next
  <2> QED
    BY <2>2, <2>3
<1>3. CASE PushStore
  <2>1. Distance(write, read) < Size
    BY <1>3, <1>d, RingAssumption DEF PushStore
  <2>2. prod.val[1] \in Samples
    BY <1>3 DEF PushStore, RingTypes, HandsFull, AtMostOne
  <2>3. Queued' = Queued
    BY <1>3, <1>t, <1>q, <2>1, <2>2, StoreKeeps DEF PushStore
  <2> QED
    BY <1>3, <2>3 DEF PushStore
<1>4. CASE PushPublish
  <2>1. Distance(write, read) < Size
    BY <1>4, <1>d, RingAssumption DEF PushPublish
  <2>2. buf[write % Size] \in Samples
    <3>1. write % Size \in Cell
      BY <1>t, Division, RingAssumption DEF Counter
    <3> QED
      BY <1>t, <3>1
  <2>3. Queued' = Append(Queued, buf[write % Size])
    BY <1>4, <1>t, <1>q, <2>1, PublishAppends DEF PushPublish
  <2>4. Queue!Push
    BY <1>4, <1>l, <2>1, <2>2, <2>3 DEF Queue!Push, PushPublish
  <2> QED
    BY <2>4 DEF Queue!Next
<1>5. CASE PopRelease
  <2>1. write # read /\ cons.val = <<buf[read % Size]>>
    BY <1>5 DEF PopRelease, CountersOrdered, HandsFull
  <2>2. /\ Queued # <<>> /\ Head(Queued) = buf[read % Size]
        /\ Queued' = Tail(Queued)
    BY <1>5, <1>t, <1>q, <2>1, ReleasePops DEF PopRelease
  <2>3. Queue!Pop
    BY <1>5, <2>1, <2>2 DEF Queue!Pop, PopRelease
  <2> QED
    BY <2>3 DEF Queue!Next
<1> QED
  BY <1>1, <1>2, <1>3, <1>4, <1>5 DEF Next, Producer, Consumer

\* push() and pop() implement the bounded queue, for every size and modulus:
\* what is queued is what was pushed and not yet popped, in order, and a sample
\* is dropped only when the queue is full.  (That each is heard is liveness and
\* stays with TLC.)
THEOREM RingIsQueue ==
  Spec => Queue!Init /\ [][Queue!Next]_<<Queued, cons.heard, drops = 1>>
BY InitIsQueueInit, StepIsQueueStep, RingAlways, PTL DEF Spec

(***************************************************************************)
(* The timer's latch.                                                      *)
(***************************************************************************)
ChannelFields ==
  {"mode", "bcd", "rw", "programmed", "count", "reload", "latch", "latched",
   "lsbPending", "lsb", "msbNext", "out", "counting", "loaded", "null"}
ViewFields == {"age", "out0", "frozen", "half"}

ChannelShape(c) ==
  /\ c = [x \in ChannelFields |-> c[x]]
  /\ c.latched \in BOOLEAN /\ c.msbNext \in BOOLEAN
ViewShape(s) == s = [x \in ViewFields |-> s[x]] /\ s.half \in BOOLEAN

\* A channel holds a count exactly when the program has one frozen, it is
\* that count, and both know which byte comes next.
Agrees(c, s) ==
  /\ ChannelShape(c) /\ ViewShape(s)
  /\ s.frozen # <<>> =>
       /\ c.latched /\ c.latch = s.frozen[1] /\ c.rw # 0
       /\ s.half <=> c.rw = 3 /\ c.msbNext
  /\ c.latched /\ c.rw # 0 => s.frozen # <<>>

\* An access is executed once, in its strobe's second cycle, and what a read
\* owes to the program is on the data lines until the strobe ends.
AccessInv ==
  /\ pit.prev <=> bus.a # NoAccess
  /\ pit.pending => bus.a # NoAccess /\ seen.want = <<>>
  /\ bus.a = NoAccess => seen.want = <<>>
  /\ bus.a \in Accesses \cup {NoAccess}

LatchInv ==
  /\ pit = [x \in {"ch", "pending", "prev", "timer", "data", "out"} |-> pit[x]]
  /\ seen = [x \in {"ch", "want"} |-> seen[x]]
  /\ bus = [x \in {"a", "rest"} |-> bus[x]]
  /\ pit.pending \in BOOLEAN /\ pit.prev \in BOOLEAN
  /\ pit.ch = [i \in Channels |-> pit.ch[i]]
  /\ seen.ch = [i \in Channels |-> seen.ch[i]]
  /\ \A i \in Channels : Agrees(pit.ch[i], seen.ch[i])
  /\ AccessInv
  /\ LatchReadsWhole

\* What neither counting nor a count written touches.
SameLatch(c, d) ==
  /\ ChannelShape(d) /\ d.latched = c.latched /\ d.latch = c.latch
  /\ d.msbNext = c.msbNext /\ d.rw = c.rw

LEMMA WriteKeepsLatch ==
  ASSUME NEW c, ChannelShape(c), NEW value
  PROVE  SameLatch(c, WriteCounter(c, value))
<1> DEFINE b == Stopped(c)
<1>1. SameLatch(c, b)
  BY DEF Stopped, SameLatch, ChannelShape, ChannelFields
<1>2. ASSUME NEW d, SameLatch(c, d), NEW raw, NEW zero
      PROVE  SameLatch(c, Load(d, raw, zero))
  BY <1>2 DEF Load, SameLatch, ChannelShape, ChannelFields
<1>3. SameLatch(c, c)
  BY DEF SameLatch
<1> HIDE DEF b
<1>4. SameLatch(c, [b EXCEPT !.lsb = value, !.lsbPending = TRUE])
  BY <1>1 DEF SameLatch, ChannelShape, ChannelFields
<1> QED
  BY <1>1, <1>2, <1>3, <1>4 DEF WriteCounter, b

LEMMA TickKeepsLatch ==
  ASSUME NEW c, ChannelShape(c), NEW g
  PROVE  SameLatch(c, Tick(c, g))
<1>1. ASSUME NEW d, ChannelShape(d) PROVE SameLatch(d, Counted(d, g))
  <2>1. SameLatch(d, EndOfCount(d))
    BY <1>1 DEF EndOfCount, SameLatch, ChannelShape, ChannelFields
  <2>2. SameLatch(d, RateGenerator(d))
    BY <1>1 DEF RateGenerator, SameLatch, ChannelShape, ChannelFields
  <2>3. SameLatch(d, SquareWave(d))
    BY <1>1 DEF SquareWave, SameLatch, ChannelShape, ChannelFields
  <2>4. SameLatch(d, Strobe(d))
    BY <1>1 DEF Strobe, SameLatch, ChannelShape, ChannelFields
  <2>5. SameLatch(d, [d EXCEPT !.out = TRUE]) /\ SameLatch(d, d)
    BY <1>1 DEF SameLatch, ChannelShape, ChannelFields
  <2>6. Counted(d, g) \in {d, [d EXCEPT !.out = TRUE], EndOfCount(d),
                          RateGenerator(d), SquareWave(d), Strobe(d)}
    BY DEF Counted
  <2> QED
    BY <2>1, <2>2, <2>3, <2>4, <2>5, <2>6
<1> DEFINE d == IF c.null THEN [c EXCEPT !.count = c.reload, !.null = FALSE] ELSE c
<1>2. SameLatch(c, d) /\ SameLatch(c, c)
  BY DEF SameLatch, ChannelShape, ChannelFields
<1>3. Tick(c, g) \in {c, d, Counted(d, g)}
  BY DEF Tick
<1> HIDE DEF d
<1>4. SameLatch(c, Counted(d, g))
  BY <1>1, <1>2 DEF SameLatch
<1> QED
  BY <1>2, <1>3, <1>4

LEMMA SeenTickKeeps ==
  ASSUME NEW s, ViewShape(s), NEW c, NEW g
  PROVE  LET t == SeenTick(s, c, g)
         IN ViewShape(t) /\ t.frozen = s.frozen /\ t.half = s.half
BY DEF SeenTick, ViewShape, ViewFields

\* A tick leaves the channel and the program's view of it in agreement.
LEMMA TickAgrees ==
  ASSUME NEW c, NEW s, Agrees(c, s), NEW g, NEW h
  PROVE  Agrees(Tick(c, g), s) /\ Agrees(Tick(c, g), SeenTick(s, c, h))
<1> DEFINE d == Tick(c, g)
          t == SeenTick(s, c, h)
<1>1. SameLatch(c, d)
  BY TickKeepsLatch DEF Agrees
<1>2. ViewShape(t) /\ t.frozen = s.frozen /\ t.half = s.half
  BY SeenTickKeeps DEF Agrees
<1> HIDE DEF d, t
<1>3. Agrees(d, s) /\ Agrees(d, t)
  BY <1>1, <1>2 DEF Agrees, SameLatch
<1> QED
  BY <1>3 DEF d, t

\* So does an access.
LEMMA AccessAgrees ==
  ASSUME NEW c, NEW s, Agrees(c, s), NEW a \in Accesses
  PROVE  LET d == Accessed(c, a) IN Agrees(d, SeenAccess(s, c, d, a))
<1> DEFINE d == Accessed(c, a)
          t == SeenAccess(s, c, d, a)
<1> SUFFICES Agrees(d, t)
  OBVIOUS
<1>1. ChannelShape(c) /\ ViewShape(s)
  BY DEF Agrees
<1>2. CASE a.kind = "read"
  <2>1. d = AfterRead(c)
    BY <1>2 DEF Accessed
  <2>2. /\ ChannelShape(d) /\ d.rw = c.rw /\ d.latch = c.latch
        /\ c.rw = 3 => (d.msbNext <=> ~c.msbNext)
        /\ c.rw # 3 => (d.msbNext <=> c.msbNext)
        /\ d.latched <=> c.latched /\ (c.rw = 0 \/ (c.rw = 3 /\ ~c.msbNext))
    BY <1>1, <2>1 DEF AfterRead, ChannelShape, ChannelFields
  <2>3. t = IF s.frozen = <<>> THEN s
            ELSE IF c.rw = 3 /\ ~s.half THEN [s EXCEPT !.half = TRUE]
            ELSE [s EXCEPT !.half = FALSE, !.frozen = <<>>]
    BY <1>2 DEF SeenAccess
  <2> HIDE DEF d, t
  <2>4. ViewShape(t)
    BY <1>1, <2>3 DEF ViewShape, ViewFields
  <2>5. CASE s.frozen = <<>>
    BY <2>2, <2>3, <2>4, <2>5 DEF Agrees
  <2>6. CASE s.frozen # <<>> /\ c.rw = 3 /\ ~s.half
    <3>1. t.half /\ t.frozen = s.frozen
      BY <1>1, <2>3, <2>6 DEF ViewShape, ViewFields
    <3> QED
      BY <2>2, <2>4, <2>6, <3>1 DEF Agrees
  <2>7. CASE s.frozen # <<>> /\ ~(c.rw = 3 /\ ~s.half)
    <3>1. t.frozen = <<>>
      BY <1>1, <2>3, <2>7 DEF ViewShape, ViewFields
    <3> QED
      BY <2>2, <2>4, <2>7, <3>1 DEF Agrees
  <2> QED
    BY <2>5, <2>6, <2>7
<1>3. CASE a.kind = "write"
  <2>1. SameLatch(c, d)
    BY <1>1, <1>3, WriteKeepsLatch DEF Accessed
  <2>2. ViewShape(t) /\ t.frozen = s.frozen /\ t.half = s.half
    <3>1. t \in {[Fresh(d) EXCEPT !.frozen = s.frozen, !.half = s.half],
                 [s EXCEPT !.age = None]}
      BY <1>3 DEF SeenAccess
    <3> QED
      BY <1>1, <3>1 DEF Fresh, Quiet, ViewShape, ViewFields
  <2> HIDE DEF d, t
  <2> QED
    BY <2>1, <2>2 DEF Agrees, SameLatch
<1>4. CASE a.kind = "control" /\ a.word.rw = 0
  <2>1. d = LatchCount(c)
    BY <1>4 DEF Accessed, WriteControl
  <2>2. t = IF s.frozen = <<>> /\ c.rw # 0
            THEN [s EXCEPT !.frozen = <<c.count % Word>>, !.half = FALSE] ELSE s
    BY <1>4 DEF SeenAccess
  <2> HIDE DEF d, t
  <2>3. CASE c.latched
    <3>1. d = c /\ t = s
      BY <2>1, <2>2, <2>3 DEF LatchCount, Agrees
    <3> QED
      BY <3>1
  <2>4. CASE ~c.latched
    <3>1. /\ ChannelShape(d) /\ d.latched /\ d.latch = c.count % Word
          /\ ~d.msbNext /\ d.rw = c.rw
      BY <1>1, <2>1, <2>4 DEF LatchCount, ChannelShape, ChannelFields
    <3>2. s.frozen = <<>>
      BY <2>4 DEF Agrees
    <3>3. CASE c.rw = 0
      BY <1>1, <2>2, <3>1, <3>2, <3>3 DEF Agrees
    <3>4. CASE c.rw # 0
      <4>1. ViewShape(t) /\ t.frozen = <<c.count % Word>> /\ ~t.half
        BY <1>1, <2>2, <3>2, <3>4 DEF ViewShape, ViewFields
      <4>2. t.frozen # <<>> /\ t.frozen[1] = d.latch
        BY <3>1, <4>1
      <4> QED
        BY <3>1, <3>4, <4>1, <4>2 DEF Agrees
    <3> QED
      BY <3>3, <3>4
  <2> QED
    BY <2>3, <2>4
<1>5. CASE a.kind = "control" /\ a.word.rw # 0
  <2>1. d = SetMode(c, a.word) /\ t = Quiet
    BY <1>5 DEF Accessed, WriteControl, SeenAccess
  <2>2. ChannelShape(d) /\ ~d.latched
    BY <1>1, <2>1 DEF SetMode, ChannelShape, ChannelFields
  <2>3. ViewShape(t) /\ t.frozen = <<>>
    BY <2>1 DEF Quiet, ViewShape, ViewFields
  <2> QED
    BY <2>2, <2>3 DEF Agrees
<1>6. a.kind \in {"read", "write", "control"}
  BY DEF Accesses
<1> QED
  BY <1>2, <1>3, <1>4, <1>5, <1>6

\* The byte of a read is the one the program has coming.
LEMMA ReadIsOwed ==
  ASSUME NEW c, NEW s, Agrees(c, s), s.frozen # <<>>
  PROVE  ReadValue(c) = IF c.rw = 2 \/ s.half THEN s.frozen[1] \div Byte
                        ELSE s.frozen[1] % Byte
BY DEF ReadValue, ReadsMsb, Agrees, ViewShape, ChannelShape

LEMMA InitLatchInv == PitInit => LatchInv
<1> SUFFICES ASSUME PitInit PROVE LatchInv
  OBVIOUS
<1>1. Agrees(Channel, Quiet)
  BY DEF Agrees, ChannelShape, ViewShape, ChannelFields, ViewFields, Channel, Quiet
<1>2. /\ pit = [x \in {"ch", "pending", "prev", "timer", "data", "out"} |-> pit[x]]
      /\ pit.ch = [i \in Channels |-> Channel] /\ ~pit.pending /\ ~pit.prev
  BY DEF PitInit
<1>3. /\ seen = [x \in {"ch", "want"} |-> seen[x]]
      /\ seen.ch = [i \in Channels |-> Quiet] /\ seen.want = <<>>
  BY DEF PitInit
<1>4. bus = [x \in {"a", "rest"} |-> bus[x]] /\ bus.a = NoAccess
  BY DEF PitInit
<1>5. pit.pending \in BOOLEAN /\ pit.prev \in BOOLEAN
  BY DEF PitInit
<1> QED
  BY <1>1, <1>2, <1>3, <1>4, <1>5 DEF LatchInv, AccessInv, LatchReadsWhole

\* What a cycle does to one channel: perhaps an access, then perhaps a tick.
Touched(c, s, d, t) ==
  \/ d = c /\ t = s
  \/ \E a \in Accesses : d = Accessed(c, a) /\ t = SeenAccess(s, c, d, a)
Moved(c, s, d, t, g) ==
  \/ d = c /\ t = s
  \/ d = Tick(c, g) /\ t = SeenTick(s, c, g)

ChannelStep(i) ==
  \E c, s : /\ Touched(pit.ch[i], seen.ch[i], c, s)
            /\ Moved(c, s, pit'.ch[i], seen'.ch[i], gate[i])

\* One cycle of the chip with the access a.
Moves(a) ==
  /\ a \in Accesses \cup {NoAccess} /\ Cycle(a)
  /\ bus'.a = a /\ bus' = [x \in {"a", "rest"} |-> bus'[x]]
  /\ a = bus.a \/ ~pit.pending

LEMMA CycleMoves ==
  ASSUME LatchInv, NEW a, Moves(a)
  PROVE  /\ pit' = [x \in {"ch", "pending", "prev", "timer", "data", "out"} |-> pit'[x]]
         /\ seen' = [x \in {"ch", "want"} |-> seen'[x]]
         /\ pit'.ch = [i \in Channels |-> pit'.ch[i]]
         /\ seen'.ch = [i \in Channels |-> seen'.ch[i]]
         /\ pit'.out = [i \in Channels |-> i # 1 /\ pit'.ch[i].out]
         /\ \A i \in Channels : ChannelStep(i)
         /\ pit'.pending = (~pit.pending /\ a # NoAccess /\ ~pit.prev)
         /\ pit'.prev = (a # NoAccess)
         /\ pit'.data = IF pit.pending /\ a.kind = "read" THEN ReadValue(pit.ch[a.ch])
                        ELSE IF ~pit.pending /\ ~Edge(a # NoAccess) /\ a.kind # "read"
                        THEN None ELSE pit.data
         /\ seen'.want = IF a.kind # "read" THEN <<>>
                         ELSE IF pit.pending /\ seen.ch[a.ch].frozen # <<>>
                         THEN LET s == seen.ch[a.ch]
                              IN IF pit.ch[a.ch].rw = 2 \/ s.half
                                 THEN <<s.frozen[1] \div Byte>> ELSE <<s.frozen[1] % Byte>>
                         ELSE seen.want
<1> DEFINE strobe == a # NoAccess
           acts == pit.pending /\ Target(a) \in Channels
           ch0 == IF acts THEN [pit.ch EXCEPT ![Target(a)] = Accessed(@, a)] ELSE pit.ch
           seen0 == IF acts
                    THEN [seen EXCEPT !.ch[Target(a)] =
                            SeenAccess(@, pit.ch[Target(a)], ch0[Target(a)], a)]
                    ELSE seen
           ticks == pit.timer = 0
           ch1 == IF ticks THEN [i \in Channels |-> Tick(ch0[i], gate[i])] ELSE ch0
           owed == LET s == seen.ch[a.ch]
                   IN IF pit.ch[a.ch].rw = 2 \/ s.half THEN <<s.frozen[1] \div Byte>>
                      ELSE <<s.frozen[1] % Byte>>
<1>1. /\ pit' = [ch |-> ch1, pending |-> ~pit.pending /\ Edge(strobe),
                 prev |-> strobe, timer |-> (pit.timer + 1) % Divider,
                 data |-> IF pit.pending /\ a.kind = "read" THEN ReadValue(pit.ch[a.ch])
                          ELSE IF ~pit.pending /\ ~Edge(strobe) /\ a.kind # "read" THEN None
                          ELSE pit.data,
                 out |-> [i \in Channels |-> i # 1 /\ ch1[i].out]]
      /\ seen' = [ch |-> [i \in Channels |->
                    IF ticks THEN SeenTick(seen0.ch[i], ch0[i], gate[i])
                    ELSE seen0.ch[i]],
                  want |-> IF a.kind # "read" THEN <<>>
                           ELSE IF pit.pending /\ seen.ch[a.ch].frozen # <<>>
                           THEN owed ELSE seen.want]
  BY Zenon DEF Cycle, Moves
<1>2. /\ pit.ch = [i \in Channels |-> pit.ch[i]] /\ seen.ch = [i \in Channels |-> seen.ch[i]]
      /\ seen = [x \in {"ch", "want"} |-> seen[x]]
  BY DEF LatchInv
<1>3. pit.pending => a \in Accesses
  BY DEF LatchInv, AccessInv, Moves
<1>4. /\ ch0 = [i \in Channels |-> ch0[i]] /\ seen0.ch = [i \in Channels |-> seen0.ch[i]]
      /\ \A i \in Channels : Touched(pit.ch[i], seen.ch[i], ch0[i], seen0.ch[i])
  <2>1. CASE acts
    <3> DEFINE k == Target(a)
               v == Accessed(pit.ch[k], a)
               s == SeenAccess(seen.ch[k], pit.ch[k], v, a)
    <3>1. k \in Channels /\ a \in Accesses
      BY <2>1, <1>3
    <3>2. Touched(pit.ch[k], seen.ch[k], v, s)
      BY <3>1 DEF Touched
    <3>3. ch0 = [pit.ch EXCEPT ![k] = v] /\ ch0[k] = v
      BY <2>1, <3>1, <1>2
    <3>4. seen0.ch = [seen.ch EXCEPT ![k] = s]
      BY <2>1, <3>1, <3>3, <1>2
    <3> HIDE DEF k, v, s, ch0, seen0
    <3>5. ASSUME NEW i \in Channels, i # k
          PROVE  Touched(pit.ch[i], seen.ch[i], ch0[i], seen0.ch[i])
      BY <3>3, <3>4, <3>5, <1>2 DEF Touched
    <3>6. Touched(pit.ch[k], seen.ch[k], ch0[k], seen0.ch[k])
      BY <3>1, <3>2, <3>3, <3>4, <1>2
    <3> QED
      BY <3>3, <3>4, <3>5, <3>6, <1>2
  <2>2. CASE ~acts
    BY <2>2, <1>2 DEF Touched
  <2> QED
    BY <2>1, <2>2
<1> HIDE DEF ch0, seen0, ticks, acts
<1>5. /\ pit'.ch = [i \in Channels |-> pit'.ch[i]] /\ seen'.ch = [i \in Channels |-> seen'.ch[i]]
      /\ \A i \in Channels : Moved(ch0[i], seen0.ch[i], pit'.ch[i], seen'.ch[i], gate[i])
  BY <1>1, <1>4 DEF Moved
<1>6. \A i \in Channels : ChannelStep(i)
  BY <1>4, <1>5 DEF ChannelStep
<1>7. /\ pit' = [x \in {"ch", "pending", "prev", "timer", "data", "out"} |-> pit'[x]]
      /\ seen' = [x \in {"ch", "want"} |-> seen'[x]]
      /\ pit'.ch = ch1 /\ pit'.out = [i \in Channels |-> i # 1 /\ ch1[i].out]
  BY <1>1
<1>8. /\ pit'.pending = (~pit.pending /\ a # NoAccess /\ ~pit.prev)
      /\ pit'.prev = (a # NoAccess)
      /\ pit'.data = IF pit.pending /\ a.kind = "read" THEN ReadValue(pit.ch[a.ch])
                     ELSE IF ~pit.pending /\ ~Edge(a # NoAccess) /\ a.kind # "read"
                     THEN None ELSE pit.data
      /\ seen'.want = IF a.kind # "read" THEN <<>>
                      ELSE IF pit.pending /\ seen.ch[a.ch].frozen # <<>>
                      THEN owed ELSE seen.want
  <2> HIDE DEF ch1, owed
  <2> QED
    BY <1>1 DEF Edge
<1> HIDE DEF ch1
<1> QED
  BY <1>5, <1>6, <1>7, <1>8

LEMMA CycleKeepsLatch ==
  ASSUME LatchInv, NEW a, Moves(a)
  PROVE  LatchInv'
<1> DEFINE owed == LET s == seen.ch[a.ch]
                   IN IF pit.ch[a.ch].rw = 2 \/ s.half THEN s.frozen[1] \div Byte
                      ELSE s.frozen[1] % Byte
<1>2. \A i \in Channels : Agrees(pit.ch[i], seen.ch[i])
  BY DEF LatchInv
<1>3. pit.pending => a \in Accesses /\ seen.want = <<>>
  BY DEF LatchInv, AccessInv, Moves
<1>5. \A i \in Channels : Agrees(pit'.ch[i], seen'.ch[i])
  <2> TAKE i \in Channels
  <2>1. PICK c, s : /\ Touched(pit.ch[i], seen.ch[i], c, s)
                    /\ Moved(c, s, pit'.ch[i], seen'.ch[i], gate[i])
    BY CycleMoves DEF ChannelStep
  <2>2. Agrees(c, s)
    BY <1>2, <2>1, AccessAgrees DEF Touched
  <2> QED
    BY <2>1, <2>2, TickAgrees DEF Moved
<1>6. /\ pit' = [x \in {"ch", "pending", "prev", "timer", "data", "out"} |-> pit'[x]]
      /\ seen' = [x \in {"ch", "want"} |-> seen'[x]]
      /\ pit'.ch = [i \in Channels |-> pit'.ch[i]]
      /\ seen'.ch = [i \in Channels |-> seen'.ch[i]]
      /\ bus'.a = a /\ bus' = [x \in {"a", "rest"} |-> bus'[x]]
      /\ a \in Accesses \cup {NoAccess}
  BY CycleMoves DEF Moves
<1>7. /\ pit'.pending = (~pit.pending /\ a # NoAccess /\ ~pit.prev)
      /\ pit'.prev = (a # NoAccess)
      /\ pit'.data = IF pit.pending /\ a.kind = "read" THEN ReadValue(pit.ch[a.ch])
                     ELSE IF ~pit.pending /\ ~Edge(a # NoAccess) /\ a.kind # "read"
                     THEN None ELSE pit.data
      /\ seen'.want = IF a.kind # "read" THEN <<>>
                      ELSE IF pit.pending /\ seen.ch[a.ch].frozen # <<>>
                      THEN <<owed>> ELSE seen.want
  BY CycleMoves
<1> HIDE DEF owed
<1>8. AccessInv'
  <2>1. pit'.prev <=> a # NoAccess
    BY <1>7
  <2>2. ASSUME pit'.pending PROVE a # NoAccess /\ seen'.want = <<>>
    <3>1. ~pit.pending /\ a # NoAccess /\ ~pit.prev
      BY <1>7, <2>2
    <3>2. seen.want = <<>>
      BY <3>1 DEF LatchInv, AccessInv
    <3> QED
      BY <1>7, <3>1, <3>2
  <2>3. ASSUME a = NoAccess PROVE seen'.want = <<>>
    BY <1>7, <2>3 DEF NoAccess
  <2> QED
    BY <1>6, <2>1, <2>2, <2>3 DEF AccessInv
<1>9. LatchReadsWhole'
  <2>1. CASE a.kind = "read" /\ pit.pending
    <3> DEFINE k == a.ch
               s == seen.ch[k]
    <3>1. k \in Channels
      BY <2>1, <1>3 DEF Accesses
    <3>2. Agrees(pit.ch[k], s) /\ pit'.data = ReadValue(pit.ch[k])
      BY <2>1, <3>1, <1>2, <1>7
    <3>3. CASE s.frozen # <<>>
      <4>1. seen'.want = <<owed>>
        BY <2>1, <3>3, <1>7
      <4>2. ReadValue(pit.ch[k]) = IF pit.ch[k].rw = 2 \/ s.half THEN s.frozen[1] \div Byte
                                   ELSE s.frozen[1] % Byte
        BY <3>2, <3>3, ReadIsOwed
      <4>3. ReadValue(pit.ch[k]) = owed
        BY <4>2 DEF owed
      <4> QED
        BY <3>2, <4>1, <4>3 DEF LatchReadsWhole
    <3>4. CASE s.frozen = <<>>
      BY <2>1, <3>4, <1>3, <1>7 DEF LatchReadsWhole
    <3> QED
      BY <3>3, <3>4
  <2>2. CASE a.kind # "read"
    BY <2>2, <1>7 DEF LatchReadsWhole
  <2>3. CASE a.kind = "read" /\ ~pit.pending
    <3>1. pit'.data = pit.data /\ seen'.want = seen.want
      BY <2>3, <1>7
    <3> QED
      BY <3>1 DEF LatchInv, LatchReadsWhole
  <2> QED
    BY <2>1, <2>2, <2>3
<1>10. pit'.pending \in BOOLEAN /\ pit'.prev \in BOOLEAN
  BY <1>7
<1> QED
  BY <1>5, <1>6, <1>8, <1>9, <1>10 DEF LatchInv

\* Every step of the machine is a cycle of the chip.
LEMMA StepsMove ==
  ASSUME LatchInv, PitNext
  PROVE  \E a : Moves(a)
<1>2. bus = [x \in {"a", "rest"} |-> bus[x]] /\ bus.a \in Accesses \cup {NoAccess}
  BY DEF LatchInv, AccessInv
<1>3. CASE Idle \/ SwitchGate \/ End
  <2>1. Moves(NoAccess)
    BY <1>2, <1>3 DEF Moves, Idle, SwitchGate, End, LatchInv, AccessInv
  <2> QED
    BY <2>1
<1>4. CASE Begin
  <2>1. PICK a \in Accesses : bus.a = NoAccess /\ Cycle(a) /\ bus' = [a |-> a, rest |-> FALSE]
    BY <1>4 DEF Begin
  <2>2. Moves(a)
    BY <2>1 DEF Moves, LatchInv, AccessInv
  <2> QED
    BY <2>2
<1>5. CASE Hold
  <2>1. Moves(bus.a)
    BY <1>2, <1>5 DEF Moves, Hold
  <2> QED
    BY <2>1
<1> QED
  BY <1>3, <1>4, <1>5 DEF PitNext

LEMMA StepKeepsLatch == LatchInv /\ [PitNext]_pitVars => LatchInv'
<1> SUFFICES ASSUME LatchInv, [PitNext]_pitVars PROVE LatchInv'
  OBVIOUS
<1>1. ASSUME NEW a, Moves(a) PROVE LatchInv'
  BY <1>1, CycleKeepsLatch
<1>2. CASE PitNext
  BY <1>1, <1>2, StepsMove
<1>3. CASE UNCHANGED pitVars
  BY <1>3 DEF pitVars, LatchInv, AccessInv, LatchReadsWhole
<1> QED
  BY <1>2, <1>3

\* A channel holds a count exactly when the program latched one it has not read
\* out, and what it holds is what the counter stood at when it was latched
\* (write_control(), read_counter()).
THEOREM LatchInvariant == PitSpec => []LatchInv
  BY InitLatchInv, StepKeepsLatch, PTL DEF PitSpec

\* A latched count is read back whole: each byte the program reads while it has
\* a count latched is a byte of that count, in the order it asked for, however
\* far the counter ran on between the reads (read_counter()).
THEOREM LatchIsWhole == PitSpec => []LatchReadsWhole
<1>1. LatchInv => LatchReadsWhole
  BY DEF LatchInv
<1> QED
  BY LatchInvariant, <1>1, PTL
(***************************************************************************)
(* A decimal count, in the code's own sizes: four digits of sixteen values *)
(* counted in tens.                                                        *)
(***************************************************************************)
CodeSizes == Digit = 16 /\ Ten = 10 /\ HalfWord = 2

\* The sum of four digits, each at its place.
LEMMA FourDigits ==
  ASSUME HalfWord = 2, NEW v, \A i \in 0..3 : v[i] \in Nat, NEW base \in {10, 16}
  PROVE  Number(v, base) = v[0] + v[1] * base + v[2] * base ^ 2 + v[3] * base ^ 3
<1> DEFINE t0 == v[0]
           t1 == t0 + v[1] * base
           t2 == t1 + v[2] * base ^ 2
           t3 == t2 + v[3] * base ^ 3
           g == [i \in 0..4 |-> CASE i = 0 -> 0 [] i = 1 -> t0 [] i = 2 -> t1
                                  [] i = 3 -> t2 [] OTHER -> t3]
           sum[i \in 0..4] == IF i = 0 THEN 0 ELSE sum[i - 1] + v[i - 1] * base ^ (i - 1)
<1>1. base ^ 0 = 1 /\ base ^ 1 = base
  <2>1. CASE base = 10
    BY <2>1
  <2>2. CASE base = 16
    BY <2>2
  <2> QED
    BY <2>1, <2>2
<1>2. ASSUME NEW i \in 0..4
      PROVE  g[i] = IF i = 0 THEN 0 ELSE g[i - 1] + v[i - 1] * base ^ (i - 1)
  <2>1. i = 0 \/ i = 1 \/ i = 2 \/ i = 3 \/ i = 4
    OBVIOUS
  <2> QED
    BY <1>1, <2>1
<1>3. g = [i \in 0..4 |-> IF i = 0 THEN 0 ELSE g[i - 1] + v[i - 1] * base ^ (i - 1)]
  BY <1>2
<1>4. sum = [i \in 0..4 |-> IF i = 0 THEN 0 ELSE sum[i - 1] + v[i - 1] * base ^ (i - 1)]
  BY <1>3, Zenon
<1> HIDE DEF sum, g
<1>5. sum[0] = 0
  BY <1>4
<1>6. sum[1] = t0
  BY <1>1, <1>4, <1>5
<1>7. sum[2] = t1
  BY <1>1, <1>4, <1>6
<1>8. sum[3] = t2
  BY <1>4, <1>7
<1>9. sum[4] = t3
  BY <1>4, <1>8
<1>10. Number(v, base) = sum[4]
  BY DEF Number, sum
<1> QED
  BY <1>9, <1>10

\* The numbers of four digits in Horner's form.
Hex(a, b, c, d) == 16 * (16 * (16 * d + c) + b) + a
Dec(a, b, c, d) == 10 * (10 * (10 * d + c) + b) + a

HasDigits(n, a, b, c, d) ==
  /\ n \in 0 .. Word - 1
  /\ DigitOf(n, 0) = a /\ DigitOf(n, 1) = b /\ DigitOf(n, 2) = c /\ DigitOf(n, 3) = d

LEMMA SizesAre ==
  ASSUME CodeSizes
  PROVE  /\ Places = 0..3 /\ Byte = 16 * 16 /\ Word = 16 * (16 * (16 * 16))
         /\ DecimalWord = 10 * (10 * (10 * 10))
BY DEF CodeSizes, Places, Byte, Word, DecimalWord

\* The last digit and the rest.
LEMMA LastDigit ==
  ASSUME NEW a \in 0..15, NEW q \in Nat
  PROVE  (16 * q + a) % 16 = a /\ (16 * q + a) \div 16 = q
OBVIOUS

LEMMA DigitsAre ==
  ASSUME CodeSizes, NEW n \in Nat
  PROVE  /\ DigitOf(n, 0) = n % 16 /\ DigitOf(n, 1) = (n \div 16) % 16
         /\ DigitOf(n, 2) = ((n \div 16) \div 16) % 16
         /\ DigitOf(n, 3) = (((n \div 16) \div 16) \div 16) % 16
<1>1. /\ 16 ^ 0 = 1 /\ 16 ^ 1 = 16 /\ 16 ^ 2 = 16 * 16 /\ 16 ^ 3 = 16 * (16 * 16)
  OBVIOUS
<1>2. /\ n \div 1 = n
      /\ n \div (16 * 16) = (n \div 16) \div 16
      /\ n \div (16 * (16 * 16)) = ((n \div 16) \div 16) \div 16
  OBVIOUS
<1> QED
  BY <1>1, <1>2 DEF DigitOf, CodeSizes

\* A number of four digits has those digits.
LEMMA WordOfDigits ==
  ASSUME CodeSizes, NEW a \in 0..15, NEW b \in 0..15, NEW c \in 0..15, NEW d \in 0..15
  PROVE  HasDigits(Hex(a, b, c, d), a, b, c, d)
<1> DEFINE n == Hex(a, b, c, d)
<1>0. n = Hex(a, b, c, d)
  OBVIOUS
<1> HIDE DEF n
<1>1. PICK r \in 0 .. 16 * 16 - 1 : r = 16 * d + c
  OBVIOUS
<1>2. PICK q \in 0 .. 16 * (16 * 16) - 1 : q = 16 * r + b
  OBVIOUS
<1>3. n \in 0 .. Word - 1 /\ n = 16 * q + a /\ n \in Nat
  BY <1>0, <1>1, <1>2, SizesAre DEF Hex
<1>4. n % 16 = a /\ n \div 16 = q
  BY <1>3, LastDigit
<1>5. q % 16 = b /\ q \div 16 = r
  BY <1>2, LastDigit
<1>6. r % 16 = c /\ r \div 16 = d
  BY <1>1, LastDigit
<1>7. d % 16 = d
  OBVIOUS
<1>8. /\ DigitOf(n, 0) = n % 16 /\ DigitOf(n, 1) = (n \div 16) % 16
      /\ DigitOf(n, 2) = ((n \div 16) \div 16) % 16
      /\ DigitOf(n, 3) = (((n \div 16) \div 16) \div 16) % 16
  BY <1>3, DigitsAre
<1> QED
  BY <1>0, <1>3, <1>4, <1>5, <1>6, <1>7, <1>8 DEF HasDigits

\* A last digit and what is left, less than k.
Divides(n, k) == \E a \in 0..15, q \in 0 .. k - 1 : n = 16 * q + a

LEMMA Divided ==
  ASSUME NEW k \in Nat \ {0}, NEW n \in 0 .. 16 * k - 1
  PROVE  Divides(n, k)
<1>1. n % 16 \in 0..15 /\ n \div 16 \in Nat /\ n = 16 * (n \div 16) + (n % 16)
  OBVIOUS
<1>2. n \div 16 \in 0 .. k - 1
  BY <1>1
<1> USE DEF Divides
<1> WITNESS n % 16 \in 0..15, n \div 16 \in 0 .. k - 1
<1> QED
  BY <1>1

\* A word is a number of four digits.
LEMMA DigitsOfWord ==
  ASSUME CodeSizes, NEW n \in 0 .. Word - 1
  PROVE  \E a, b, c, d \in 0..15 : n = Hex(a, b, c, d) /\ HasDigits(n, a, b, c, d)
<1>1. PICK k1 \in Nat \ {0} : k1 = 16
  OBVIOUS
<1>2. PICK k2 \in Nat \ {0} : k2 = 16 * k1
  BY <1>1
<1>3. PICK k3 \in Nat \ {0} : k3 = 16 * k2
  BY <1>2
<1>4. n \in 0 .. 16 * k3 - 1
  <2>1. Word = 16 * k3
    BY <1>1, <1>2, <1>3, SizesAre
  <2> QED
    BY <2>1
<1>5. PICK a \in 0..15, q \in 0 .. k3 - 1 : n = 16 * q + a
  <2>1. Divides(n, k3)
    BY <1>4, Divided
  <2> QED
    BY <2>1 DEF Divides
<1>6. PICK b \in 0..15, r \in 0 .. k2 - 1 : q = 16 * r + b
  <2>1. Divides(q, k2)
    BY <1>3, <1>5, Divided
  <2> QED
    BY <2>1 DEF Divides
<1>7. PICK c \in 0..15, d \in 0 .. k1 - 1 : r = 16 * d + c
  <2>1. Divides(r, k1)
    BY <1>2, <1>6, Divided
  <2> QED
    BY <2>1 DEF Divides
<1>8. d \in 0..15
  BY <1>1, <1>7
<1>9. n = Hex(a, b, c, d)
  BY <1>5, <1>6, <1>7 DEF Hex
<1>10. a \in 0..15 /\ b \in 0..15 /\ c \in 0..15
  BY <1>5, <1>6, <1>7
<1>11. HasDigits(n, a, b, c, d)
  BY <1>8, <1>9, <1>10, WordOfDigits, Zenon
<1> USE <1>8, <1>10
<1> WITNESS a \in 0..15, b \in 0..15, c \in 0..15, d \in 0..15
<1> QED
  BY <1>9, <1>11

LEMMA NumberIs ==
  ASSUME CodeSizes, NEW v, \A i \in 0..3 : v[i] \in 0..15
  PROVE  /\ Number(v, 16) = Hex(v[0], v[1], v[2], v[3])
         /\ Number(v, 10) = Dec(v[0], v[1], v[2], v[3])
<1>1. \A i \in 0..3 : v[i] \in Nat
  OBVIOUS
<1>2. HalfWord = 2
  BY DEF CodeSizes
<1>3. /\ Number(v, 10) = v[0] + v[1] * 10 + v[2] * 10 ^ 2 + v[3] * 10 ^ 3
      /\ Number(v, 16) = v[0] + v[1] * 16 + v[2] * 16 ^ 2 + v[3] * 16 ^ 3
  BY <1>1, <1>2, FourDigits
<1>4. 10 ^ 2 = 100 /\ 10 ^ 3 = 1000 /\ 16 ^ 2 = 256 /\ 16 ^ 3 = 4096
  OBVIOUS
<1>5. /\ Number(v, 10) = v[0] + v[1] * 10 + v[2] * 100 + v[3] * 1000
      /\ Number(v, 16) = v[0] + v[1] * 16 + v[2] * 256 + v[3] * 4096
  BY <1>3, <1>4
<1> DEFINE Horner(a, b, c, d) ==
             /\ a + b * 10 + c * 100 + d * 1000 = Dec(a, b, c, d)
             /\ a + b * 16 + c * 256 + d * 4096 = Hex(a, b, c, d)
<1>6. ASSUME NEW a \in Nat, NEW b \in Nat, NEW c \in Nat, NEW d \in Nat
      PROVE  Horner(a, b, c, d)
  BY DEF Hex, Dec
<1> HIDE DEF Horner
<1>7. v[0] \in Nat /\ v[1] \in Nat /\ v[2] \in Nat /\ v[3] \in Nat
  BY <1>1
<1>8. Horner(v[0], v[1], v[2], v[3])
  BY <1>6, <1>7, Zenon
<1> QED
  BY <1>5, <1>8 DEF Horner

InDecimal(n, a, b, c, d) == Decimal(n) = Dec(a, b, c, d)

LEMMA DecimalIs ==
  ASSUME CodeSizes, NEW a \in 0..15, NEW b \in 0..15, NEW c \in 0..15, NEW d \in 0..15
  PROVE  InDecimal(Hex(a, b, c, d), a, b, c, d)
<1> DEFINE n == Hex(a, b, c, d)
           v == [i \in Places |-> DigitOf(n, i)]
<1>1. HasDigits(n, a, b, c, d)
  BY WordOfDigits
<1> HIDE DEF n
<1>2. v[0] = a /\ v[1] = b /\ v[2] = c /\ v[3] = d
  BY <1>1, SizesAre DEF HasDigits
<1>3. Decimal(n) = Number(v, 10)
  BY DEF Decimal, CodeSizes
<1> HIDE DEF v
<1>4. \A i \in 0..3 : v[i] \in 0..15
  BY <1>2
<1>5. Number(v, 10) = Dec(v[0], v[1], v[2], v[3])
  BY <1>4, NumberIs
<1>6. Decimal(n) = Dec(a, b, c, d)
  BY <1>2, <1>3, <1>5
<1> QED
  BY <1>6 DEF n, InDecimal

\* decrement() takes a decimal count down by one whatever its digits, those
\* above nine included: the least that is not zero lends to those below it,
\* and a word of zeros becomes the largest count.
THEOREM DecimalGoesDown ==
  ASSUME CodeSizes, NEW n \in 0 .. Word - 1
  PROVE  /\ Borrow(n) \in 0 .. Word - 1 /\ Decimal(n) \in 0 .. Word - 1
         /\ Decimal(n) = 0 <=> n = 0
         /\ Decimal(n) = 1 <=> n = 1
         /\ n # 0 => Decimal(Borrow(n)) = Decimal(n) - 1
         /\ n = 0 => Borrow(n) # 0 /\ Decimal(Borrow(n)) = DecimalWord - 1
<1>1. Places = 0..3 /\ HalfWord = 2 /\ Digit = 16 /\ Ten = 10
  BY SizesAre DEF CodeSizes
<1>3. PICK a \in 0..15, b \in 0..15, c \in 0..15, d \in 0..15 :
        n = Hex(a, b, c, d) /\ HasDigits(n, a, b, c, d)
  BY DigitsOfWord
<1>4. Decimal(n) = Dec(a, b, c, d)
  BY <1>3, DecimalIs DEF InDecimal
<1>5. PICK x \in 0..15 : x = IF a = 0 THEN 9 ELSE a - 1
  OBVIOUS
<1>6. PICK y \in 0..15 : y = IF a # 0 THEN b ELSE IF b = 0 THEN 9 ELSE b - 1
  OBVIOUS
<1>7. PICK z \in 0..15 : z = IF a # 0 \/ b # 0 THEN c ELSE IF c = 0 THEN 9 ELSE c - 1
  OBVIOUS
<1>8. PICK w \in 0..15 :
        w = IF a # 0 \/ b # 0 \/ c # 0 THEN d ELSE IF d = 0 THEN 9 ELSE d - 1
  OBVIOUS
<1>9. Lent(n, 0) = x
  <2>1. ~ \E j \in 0 .. 0 - 1 : DigitOf(n, j) # 0
    OBVIOUS
  <2> QED
    BY <1>1, <1>3, <1>5, <2>1 DEF Lent, HasDigits
<1>10. Lent(n, 1) = y
  <2>1. (\E j \in 0 .. 1 - 1 : DigitOf(n, j) # 0) <=> a # 0
    BY <1>3 DEF HasDigits
  <2> QED
    BY <1>1, <1>3, <1>6, <2>1 DEF Lent, HasDigits
<1>11. Lent(n, 2) = z
  <2>1. (\E j \in 0 .. 2 - 1 : DigitOf(n, j) # 0) <=> a # 0 \/ b # 0
    BY <1>3 DEF HasDigits
  <2> QED
    BY <1>1, <1>3, <1>7, <2>1 DEF Lent, HasDigits
<1>12. Lent(n, 3) = w
  <2>1. (\E j \in 0 .. 3 - 1 : DigitOf(n, j) # 0) <=> a # 0 \/ b # 0 \/ c # 0
    BY <1>3 DEF HasDigits
  <2> QED
    BY <1>1, <1>3, <1>8, <2>1 DEF Lent, HasDigits
<1>13. PICK m : m = Borrow(n)
  OBVIOUS
<1>14. m = Hex(x, y, z, w)
  <2> DEFINE v == [i \in Places |-> Lent(n, i)]
  <2>1. v[0] = x /\ v[1] = y /\ v[2] = z /\ v[3] = w
    BY <1>1, <1>9, <1>10, <1>11, <1>12
  <2>2. Borrow(n) = Number(v, 16)
    BY <1>1 DEF Borrow
  <2> HIDE DEF v
  <2>3. \A i \in 0..3 : v[i] \in 0..15
    BY <1>5, <1>6, <1>7, <1>8, <2>1
  <2>4. Number(v, 16) = Hex(v[0], v[1], v[2], v[3])
    BY <2>3, NumberIs
  <2> QED
    BY <1>13, <2>1, <2>2, <2>4
<1>15. m \in 0 .. Word - 1 /\ Decimal(m) = Dec(x, y, z, w)
  <2>1. x \in 0..15 /\ y \in 0..15 /\ z \in 0..15 /\ w \in 0..15
    BY <1>5, <1>6, <1>7, <1>8
  <2>2. HasDigits(m, x, y, z, w)
    BY <1>14, <2>1, WordOfDigits, Zenon
  <2>3. m \in 0 .. Word - 1
    BY <2>2 DEF HasDigits
  <2>4. InDecimal(m, x, y, z, w)
    BY <1>14, <2>1, DecimalIs, Zenon
  <2> QED
    BY <2>3, <2>4 DEF InDecimal
<1>16. n # 0 => Dec(x, y, z, w) = Dec(a, b, c, d) - 1
  BY <1>3, <1>5, <1>6, <1>7, <1>8 DEF Dec, Hex
<1>17. n = 0 => Dec(x, y, z, w) = DecimalWord - 1 /\ m # 0
  BY <1>3, <1>5, <1>6, <1>7, <1>8, <1>14, SizesAre DEF Dec, Hex
<1>18. /\ Dec(a, b, c, d) \in 0 .. Word - 1
       /\ Dec(a, b, c, d) = 0 <=> n = 0
       /\ Dec(a, b, c, d) = 1 <=> n = 1
  BY <1>3, SizesAre DEF Dec, Hex
<1> QED
  BY <1>4, <1>13, <1>15, <1>16, <1>17, <1>18

\* The largest count is a word of zeros.
LEMMA WordWraps ==
  ASSUME CodeSizes
  PROVE  Borrow(Word) = Borrow(0)
<1>1. Word \in Nat /\ Word = 16 * (16 * (16 * 16)) /\ Places = 0..3
  BY SizesAre
<1>2. /\ Word \div 16 = 16 * (16 * 16) /\ Word % 16 = 0
      /\ (16 * (16 * 16)) \div 16 = 16 * 16 /\ (16 * (16 * 16)) % 16 = 0
      /\ (16 * 16) \div 16 = 16 /\ (16 * 16) % 16 = 0 /\ 16 % 16 = 0
  BY <1>1
<1>3. /\ DigitOf(Word, 0) = 0 /\ DigitOf(Word, 1) = 0
      /\ DigitOf(Word, 2) = 0 /\ DigitOf(Word, 3) = 0
  BY <1>1, <1>2, DigitsAre
<1>4. /\ DigitOf(0, 0) = 0 /\ DigitOf(0, 1) = 0
      /\ DigitOf(0, 2) = 0 /\ DigitOf(0, 3) = 0
  BY DigitsAre
<1>5. ASSUME NEW i \in 0..3 PROVE Lent(Word, i) = Lent(0, i)
  BY <1>3, <1>4 DEF Lent
<1> QED
  BY <1>1, <1>5 DEF Borrow

(***************************************************************************)
(* OUT.                                                                    *)
(***************************************************************************)
\* A program asks for decimal counts only where they have the code's sizes.
DecimalSizes == \A w \in ControlWords : w.bcd => CodeSizes

\* The count that the next tick takes down.
Due(c) == IF c.null THEN c.reload ELSE c.count

\* The ticks that a count of n is from its end.
InTens(c) == c.bcd /\ c.mode # 3
Left(c, n) ==
  IF InTens(c) THEN IF n = Word THEN DecimalWord ELSE Decimal(n) ELSE n

\* In mode 0 the first byte of a count has lowered OUT and stopped counting;
\* a channel in mode 1 keeps OUT high.
CountInv(c) ==
  /\ c.mode \in 0..5 /\ c.lsb \in 0 .. Byte - 1
  /\ c.bcd \in BOOLEAN /\ (c.bcd => CodeSizes)
  /\ c.programmed \in BOOLEAN /\ c.lsbPending \in BOOLEAN /\ c.out \in BOOLEAN
  /\ c.counting \in BOOLEAN /\ c.loaded \in BOOLEAN /\ c.null \in BOOLEAN
  /\ c.loaded => c.programmed /\ c.reload \in 1..Word
  /\ c.mode = 0 /\ c.rw = 3 /\ c.lsbPending => ~c.out /\ ~c.counting
  /\ c.mode = 1 => c.out

\* Where a count is at the age the program gives it, mode by mode.
At(c, n) == Due(c) \in 0..Word /\ Left(c, Due(c)) = n

ToZero(c, s) ==
  /\ s.age < Ticks(c) => At(c, Ticks(c) - s.age) /\ ~c.out
  /\ s.age >= Ticks(c) => c.out

Cyclic(c, s) ==
  /\ s.age < Ticks(c) /\ At(c, Ticks(c) - s.age)
  /\ c.out <=> s.out0 /\ (Ticks(c) > 1 => s.age # Ticks(c) - 1)

TwoHalves(c, s) ==
  LET late == s.age >= Half(c)
      b == IF late THEN s.age - Half(c) ELSE s.age
  IN /\ b < Half(c) /\ Due(c) = c.reload - 2 * b
     /\ c.out <=> (s.out0 <=> ~late)

OnePulse(c, s) ==
  LET shown == s.out0 \/ Ticks(c) = 1
  IN /\ s.age = 0 => At(c, Ticks(c)) /\ (c.out <=> s.out0)
     /\ s.age > 0 /\ shown /\ s.age <= Ticks(c) =>
          At(c, Ticks(c) - s.age) /\ (c.out <=> s.age # Ticks(c))
     /\ s.age > 0 /\ (~shown \/ s.age > Ticks(c)) => c.out /\ ~c.counting

Phase(c, s) ==
  /\ c.loaded /\ s.age \in Nat /\ s.out0 \in BOOLEAN
  /\ c.mode = 0 => ToZero(c, s)
  /\ c.mode = 2 => Cyclic(c, s)
  /\ c.mode = 3 => TwoHalves(c, s)
  /\ c.mode \in {4, 5} => OnePulse(c, s)

WaveOf(c, s) == CountInv(c) /\ (s.age # None => Phase(c, s))

WaveInv ==
  /\ pit.out = [i \in Channels |-> i # 1 /\ pit.ch[i].out]
  /\ \A i \in Channels : WaveOf(pit.ch[i], seen.ch[i])

LEMMA Sizes ==
  /\ Byte \in Nat \ {0} /\ Word \in Nat \ {0} /\ Byte <= Word
  /\ \A v, l \in 0 .. Byte - 1 : v * Byte + l \in 0 .. Word - 1
  /\ CountMod \in Nat /\ CountMod > 2 * Word
<1>1. Byte \in Nat \ {0} /\ CountMod \in Nat
  BY TimerAssumption
<1>2. Word = Byte * Byte
  BY DEF Word
<1> DEFINE B == Byte
<1>3. B \in Nat \ {0}
  BY <1>1
<1> HIDE DEF B
<1>4. B * B \in Nat \ {0} /\ B <= B * B
  BY <1>3
<1>5. ASSUME NEW v \in 0 .. B - 1, NEW l \in 0 .. B - 1 PROVE v * B + l \in 0 .. B * B - 1
  <2>1. v * B \in Nat /\ (B - 1 - v) * B \in Nat
    BY <1>3
  <2>2. B * B = v * B + (B - 1 - v) * B + B
    BY <1>3
  <2> QED
    BY <1>3, <2>1, <2>2
<1>6. CountMod > 2 * Word
  BY TimerAssumption
<1> QED
  BY <1>1, <1>2, <1>4, <1>5, <1>6 DEF B

\* A count that was written stands for its ticks.
LEMMA TicksAre ==
  ASSUME NEW c, CountInv(c), c.loaded
  PROVE  /\ Ticks(c) = Left(c, c.reload) /\ Ticks(c) \in 1..Word
         /\ c.mode = 3 => Ticks(c) = c.reload
<1>1. c.reload \in 1..Word /\ Word \in Nat \ {0}
  BY Sizes DEF CountInv
<1>2. CASE ~InTens(c)
  BY <1>1, <1>2 DEF Ticks, Left, InTens
<1>3. CASE InTens(c)
  <2>1. CodeSizes /\ c.mode # 3 /\ c.bcd
    BY <1>3 DEF InTens, CountInv
  <2>2. CASE c.reload = Word
    <3>1. c.reload % Word = 0
      BY <1>1, <2>2
    <3>2. DecimalWord \in 1..Word
      BY <2>1, SizesAre
    <3> QED
      BY <1>3, <2>1, <2>2, <3>1, <3>2 DEF Ticks, Left
  <2>3. CASE c.reload # Word
    <3>1. c.reload \in 0 .. Word - 1 /\ c.reload # 0
      BY <1>1, <2>3
    <3>2. c.reload % Word # 0
      BY <1>1, <3>1
    <3>3. Decimal(c.reload) \in 0 .. Word - 1 /\ Decimal(c.reload) # 0
      BY <2>1, <3>1, DecimalGoesDown
    <3> QED
      BY <1>1, <1>3, <2>1, <2>3, <3>2, <3>3 DEF Ticks, Left
  <2> QED
    BY <2>2, <2>3
<1> QED
  BY <1>2, <1>3

\* A count goes down by one tick, whichever way it is written.
LEMMA CountsDown ==
  ASSUME NEW c, CountInv(c), c.mode # 3, NEW e \in 0..Word, NEW m, m = Left(c, e),
         NEW n, n = Decrement(e, c.bcd)
  PROVE  /\ m \in Nat
         /\ m # 0 => n \in 0..Word /\ Left(c, n) = m - 1 /\ (n = 0 <=> m = 1) /\ (n = 1 <=> m = 2)
         /\ m = 0 => n # 0
<1>1. Word \in Nat \ {0} /\ CountMod \in Nat /\ CountMod > 2 * Word
  BY Sizes
<1>2. CASE ~InTens(c)
  <2>1. m = e /\ n = (e - 1) % CountMod /\ Left(c, n) = n
    BY <1>2 DEF Left, InTens, Decrement, CountInv
  <2>2. CASE e = 0
    <3>1. (e - 1) % CountMod = CountMod - 1
      BY <1>1, <2>2
    <3> QED
      BY <1>1, <2>1, <2>2, <3>1
  <2>3. CASE e # 0
    <3>1. (e - 1) % CountMod = e - 1
      BY <1>1, <2>3
    <3> QED
      BY <1>1, <2>1, <2>3, <3>1
  <2> QED
    BY <2>2, <2>3
<1>3. CASE InTens(c)
  <2>1. CodeSizes /\ c.bcd
    BY <1>3 DEF InTens, CountInv
  <2>2. n = Borrow(e)
    BY <2>1 DEF Decrement
  <2>3. 0 \in 0 .. Word - 1 /\ DecimalWord \in Nat \ {0} /\ DecimalWord - 1 \in Nat
    BY <1>1, <2>1, SizesAre
  <2>4. ASSUME NEW x \in 0 .. Word - 1 PROVE Left(c, x) = Decimal(x)
    BY <1>1, <1>3 DEF Left
  <2>5. ASSUME n \in 0 .. Word - 1
        PROVE  /\ n \in 0..Word /\ Left(c, n) \in Nat
               /\ (n = 0 <=> Left(c, n) = 0) /\ (n = 1 <=> Left(c, n) = 1)
    <3>1. /\ Decimal(n) \in 0 .. Word - 1
          /\ Decimal(n) = 0 <=> n = 0
          /\ Decimal(n) = 1 <=> n = 1
      BY <2>1, <2>5, DecimalGoesDown
    <3>2. Left(c, n) = Decimal(n)
      BY <2>4, <2>5
    <3> QED
      BY <1>1, <2>5, <3>1, <3>2
  <2>6. CASE e = Word
    <3>1. m = DecimalWord
      BY <1>3, <2>6 DEF Left
    <3>2. n \in 0 .. Word - 1 /\ Decimal(n) = DecimalWord - 1
      <4>1. Borrow(0) \in 0 .. Word - 1 /\ Decimal(Borrow(0)) = DecimalWord - 1
        BY <2>1, <2>3, DecimalGoesDown
      <4>2. n = Borrow(0)
        BY <2>1, <2>2, <2>6, WordWraps
      <4> QED
        BY <4>1, <4>2
    <3> QED
      BY <2>3, <2>4, <2>5, <3>1, <3>2
  <2>7. CASE e \in 0 .. Word - 1
    <3>1. m = Decimal(e) /\ m \in Nat /\ (m = 0 <=> e = 0)
      BY <2>1, <2>4, <2>7, DecimalGoesDown
    <3>2. /\ n \in 0 .. Word - 1
          /\ e # 0 => Decimal(n) = Decimal(e) - 1
          /\ e = 0 => n # 0
      BY <2>1, <2>2, <2>7, DecimalGoesDown
    <3> QED
      BY <2>4, <2>5, <3>1, <3>2
  <2> QED
    BY <1>1, <2>6, <2>7
<1> QED
  BY <1>2, <1>3

\* A count written is one of those there are, due at once.
LEMMA LoadWaves ==
  ASSUME NEW c, ChannelShape(c), CountInv(c), c.programmed, NEW raw \in 0 .. Word - 1,
         NEW zero \in 1..Word, c.mode = 0 => ~c.out
  PROVE  LET d == Load(c, raw, zero)
         IN CountInv(d) /\ d.loaded /\ d.null /\ (d.mode = 0 => ~d.out)
BY Sizes DEF Load, ChannelShape, ChannelFields, CountInv

LEMMA StopWaves ==
  ASSUME NEW c, ChannelShape(c), CountInv(c), c.rw # 3 \/ ~c.lsbPending
  PROVE  LET b == Stopped(c)
         IN /\ ChannelShape(b) /\ CountInv(b) /\ (b.mode = 0 => ~b.out /\ ~b.counting)
            /\ b.programmed = c.programmed /\ b.rw = c.rw
<1> DEFINE b == Stopped(c)
<1> SUFFICES /\ ChannelShape(b) /\ CountInv(b) /\ (b.mode = 0 => ~b.out /\ ~b.counting)
             /\ b.programmed = c.programmed /\ b.rw = c.rw
  OBVIOUS
<1>1. CASE c.mode = 0
  <2>1. b = [c EXCEPT !.out = FALSE, !.counting = FALSE]
    BY <1>1 DEF Stopped
  <2>2. /\ ChannelShape(b) /\ b.mode = c.mode /\ b.bcd = c.bcd /\ b.lsb = c.lsb /\ b.rw = c.rw
        /\ b.programmed = c.programmed /\ b.lsbPending = c.lsbPending
        /\ b.loaded = c.loaded /\ b.null = c.null /\ b.reload = c.reload
        /\ b.out = FALSE /\ b.counting = FALSE
    BY <2>1 DEF ChannelShape, ChannelFields
  <2> HIDE DEF b
  <2>3. ~b.out /\ ~b.counting
    BY <2>2
  <2>4. CountInv(b)
    <3>1. b.mode \in 0..5 /\ b.lsb \in 0 .. Byte - 1
      BY <1>1, <2>2 DEF CountInv
    <3>2. b.bcd \in BOOLEAN /\ (b.bcd => CodeSizes)
      BY <2>2 DEF CountInv
    <3>3. b.programmed \in BOOLEAN /\ b.lsbPending \in BOOLEAN
      BY <2>2 DEF CountInv
    <3>4. b.out \in BOOLEAN /\ b.counting \in BOOLEAN 
      BY <2>2 DEF CountInv
    <3>5. b.loaded \in BOOLEAN /\ b.null \in BOOLEAN
      BY <2>2 DEF CountInv
    <3>6. b.loaded => b.programmed /\ b.reload \in 1..Word
      BY <2>2 DEF CountInv
    <3> QED
      BY <1>1, <2>2, <2>3, <3>1, <3>2, <3>3, <3>4, <3>5, <3>6 DEF CountInv
  <2> QED
    BY <2>2, <2>3, <2>4
<1>2. CASE c.mode # 0
  BY <1>2 DEF Stopped
<1> QED
  BY <1>1, <1>2

LEMMA WriteWaves ==
  ASSUME NEW c, ChannelShape(c), CountInv(c), NEW value \in 0 .. Byte - 1
  PROVE  LET d == WriteCounter(c, value)
         IN CountInv(d) /\ (d.loaded /\ d.null /\ d.mode = 0 => ~d.out)
<1> DEFINE d == WriteCounter(c, value)
           b == Stopped(c)
           p == [b EXCEPT !.lsb = value, !.lsbPending = TRUE]
<1> SUFFICES CountInv(d) /\ (d.loaded /\ d.null /\ d.mode = 0 => ~d.out)
  OBVIOUS
<1>1. CASE ~c.programmed
  BY <1>1 DEF WriteCounter, CountInv
<1>2. CASE c.programmed /\ c.rw = 3 /\ c.lsbPending
  <2>1. d = Load(c, value * Byte + c.lsb, Word)
    BY <1>2 DEF WriteCounter
  <2>2. value * Byte + c.lsb \in 0 .. Word - 1
    BY Sizes DEF CountInv
  <2>3. c.mode = 0 => ~c.out
    BY <1>2 DEF CountInv
  <2> QED
    BY <1>2, <2>1, <2>2, <2>3, LoadWaves, Sizes
<1>3. CASE c.programmed /\ ~(c.rw = 3 /\ c.lsbPending)
  <2>1. /\ ChannelShape(b) /\ CountInv(b) /\ (b.mode = 0 => ~b.out /\ ~b.counting)
        /\ b.programmed /\ b.rw = c.rw
    BY <1>3, StopWaves
  <2>2. value \in 0 .. Word - 1 /\ value * Byte \in 0 .. Word - 1
    <3>1. 0 \in 0 .. Byte - 1 /\ value * Byte + 0 = value * Byte
      BY Sizes
    <3> QED
      BY <3>1, Sizes
  <2>3. d \in {Load(b, value, Byte), Load(b, value * Byte, Word), p}
    BY <1>3 DEF WriteCounter
  <2> HIDE DEF b, d
  <2>4. CountInv(p) /\ (p.mode = 0 => ~p.out)
    BY <2>1 DEF CountInv, ChannelShape, ChannelFields
  <2>5. Byte \in 1..Word /\ Word \in 1..Word
    BY Sizes
  <2> HIDE DEF p
  <2> QED
    BY <2>1, <2>2, <2>3, <2>4, <2>5, LoadWaves
<1> QED
  BY <1>1, <1>2, <1>3

\* An age begins with a count that no tick has taken.
LEMMA FreshPhase ==
  ASSUME NEW d, CountInv(d), d.loaded, d.null, d.mode = 0 => ~d.out, NEW t,
         t.age = 0, t.out0 = d.out
  PROVE  Phase(d, t)
<1>1. /\ Ticks(d) = Left(d, d.reload) /\ Ticks(d) \in 1..Word /\ d.reload \in 1..Word
      /\ d.mode = 3 => Ticks(d) = d.reload
  BY TicksAre DEF CountInv
<1>2. Due(d) = d.reload /\ At(d, Ticks(d)) /\ Word \in Nat
  BY <1>1, Sizes DEF Due, At
<1>3. d.mode \in 0..5 /\ d.out \in BOOLEAN
  BY DEF CountInv
<1>4. d.mode = 0 => ToZero(d, t)
  BY <1>1, <1>2 DEF ToZero
<1>5. d.mode = 2 => Cyclic(d, t)
  BY <1>1, <1>2, <1>3 DEF Cyclic
<1>6. d.mode = 3 => TwoHalves(d, t)
  BY <1>1, <1>2, <1>3 DEF TwoHalves, Half
<1>7. d.mode \in {4, 5} => OnePulse(d, t)
  BY <1>1, <1>2, <1>3 DEF OnePulse
<1> QED
  BY <1>3, <1>4, <1>5, <1>6, <1>7 DEF Phase

LEMMA AccessWaves ==
  ASSUME DecimalSizes, NEW c, NEW s, Agrees(c, s), WaveOf(c, s), NEW a \in Accesses
  PROVE  LET d == Accessed(c, a) IN WaveOf(d, SeenAccess(s, c, d, a))
<1> DEFINE d == Accessed(c, a)
           t == SeenAccess(s, c, d, a)
           Same == /\ ChannelShape(d) /\ d.mode = c.mode /\ d.bcd = c.bcd /\ d.lsb = c.lsb
                   /\ d.programmed = c.programmed /\ d.lsbPending = c.lsbPending
                   /\ d.out = c.out /\ d.counting = c.counting /\ d.loaded = c.loaded
                   /\ d.null = c.null /\ d.reload = c.reload /\ d.count = c.count
                   /\ d.rw = c.rw
<1> SUFFICES WaveOf(d, t)
  OBVIOUS
<1>1. ChannelShape(c) /\ ViewShape(s) /\ CountInv(c)
  BY DEF Agrees, WaveOf
<1>2. ASSUME Same, t.age = s.age, t.out0 = s.out0 PROVE WaveOf(d, t)
  <2> HIDE DEF d, t
  <2>1. CountInv(d)
    BY <1>1, <1>2 DEF CountInv
  <2>2. Phase(c, s) => Phase(d, t)
    <3>1. Ticks(d) = Ticks(c) /\ Half(d) = Half(c) /\ Due(d) = Due(c)
      BY <1>2 DEF Ticks, Half, Due
    <3>2. \A n : At(d, n) <=> At(c, n)
      BY <1>2, <3>1 DEF At, Left, InTens
    <3> QED
      BY <1>2, <3>1, <3>2 DEF Phase, ToZero, Cyclic, TwoHalves, OnePulse
  <2> QED
    BY <1>2, <2>1, <2>2 DEF WaveOf
<1>3. CASE a.kind = "read"
  <2>1. Same
    BY <1>1, <1>3 DEF Accessed, AfterRead, ChannelShape, ChannelFields
  <2>2. t.age = s.age /\ t.out0 = s.out0
    BY <1>1, <1>3 DEF SeenAccess, ViewShape, ViewFields
  <2> QED
    BY <1>2, <2>1, <2>2
<1>4. CASE a.kind = "control" /\ a.word.rw = 0
  <2>1. Same
    BY <1>1, <1>4 DEF Accessed, WriteControl, LatchCount, ChannelShape, ChannelFields
  <2>2. t.age = s.age /\ t.out0 = s.out0
    BY <1>1, <1>4 DEF SeenAccess, ViewShape, ViewFields
  <2> QED
    BY <1>2, <2>1, <2>2
<1>5. CASE a.kind = "control" /\ a.word.rw # 0
  <2> DEFINE w == a.word
  <2>1. d = SetMode(c, w) /\ t = Quiet
    BY <1>5 DEF Accessed, WriteControl, SeenAccess
  <2>2. w \in ControlWords
    BY <1>5 DEF Accesses
  <2>3. w.mode \in 0..7 /\ w.bcd \in BOOLEAN
    BY <2>2, TimerAssumption
  <2>4. w.bcd => CodeSizes
    BY <2>2 DEF DecimalSizes
  <2> HIDE DEF w, d, t
  <2>5. /\ d.mode = IF w.mode > 5 THEN w.mode % 4 ELSE w.mode
        /\ d.bcd = w.bcd /\ d.programmed = TRUE /\ d.counting = FALSE
        /\ d.loaded = FALSE /\ d.null = TRUE /\ d.lsbPending = FALSE
        /\ d.out = (w.mode # 0) /\ d.lsb = c.lsb
    BY <1>1, <2>1 DEF SetMode, ChannelShape, ChannelFields
  <2>6. CountInv(d)
    <3>1. d.mode \in 0..5 /\ (d.mode = 1 => w.mode # 0)
      BY <2>3, <2>5
    <3> QED
      BY <1>1, <2>3, <2>4, <2>5, <3>1 DEF CountInv
  <2>7. t.age = None
    BY <2>1 DEF Quiet
  <2> QED
    BY <2>6, <2>7 DEF WaveOf
<1>6. CASE a.kind = "write"
  <2>1. d = WriteCounter(c, a.value) /\ a.value \in 0 .. Byte - 1
    BY <1>6, TimerAssumption DEF Accessed, Accesses
  <2>2. CountInv(d) /\ (d.loaded /\ d.null /\ d.mode = 0 => ~d.out)
    BY <1>1, <2>1, WriteWaves
  <2>3. CASE d.loaded /\ d.null
    <3>1. t = [Fresh(d) EXCEPT !.frozen = s.frozen, !.half = s.half]
      BY <1>6, <2>3 DEF SeenAccess
    <3>2. t.age = 0 /\ t.out0 = d.out
      BY <3>1 DEF Fresh, Quiet
    <3> HIDE DEF d, t
    <3> QED
      BY <2>2, <2>3, <3>2, FreshPhase DEF WaveOf
  <2>4. CASE ~(d.loaded /\ d.null)
    <3>1. t = [s EXCEPT !.age = None]
      BY <1>6, <2>4 DEF SeenAccess
    <3>2. t.age = None
      BY <1>1, <3>1 DEF ViewShape, ViewFields
    <3> HIDE DEF d, t
    <3> QED
      BY <2>2, <3>2 DEF WaveOf
  <2> QED
    BY <2>3, <2>4
<1>7. a.kind \in {"read", "write", "control"}
  BY DEF Accesses
<1> QED
  BY <1>3, <1>4, <1>5, <1>6, <1>7

(***************************************************************************)
(* A tick.                                                                 *)
(***************************************************************************)
Kept(c, d) ==
  /\ ChannelShape(d) /\ d.mode = c.mode /\ d.bcd = c.bcd /\ d.lsb = c.lsb
  /\ d.rw = c.rw /\ d.programmed = c.programmed /\ d.lsbPending = c.lsbPending
  /\ d.loaded = c.loaded /\ d.reload = c.reload

LEMMA KeptTicks ==
  ASSUME NEW c, NEW d, Kept(c, d)
  PROVE  /\ Ticks(d) = Ticks(c) /\ Half(d) = Half(c) /\ Period(d) = Period(c)
         /\ \A n : Left(d, n) = Left(c, n)
BY DEF Kept, Ticks, Half, Period, Left, InTens

Minus(e, k) == (e - k) % CountMod

\* What a counting channel does, field by field.
Changed(c, d) ==
  /\ Kept(c, d) /\ d.null = c.null /\ d.out \in BOOLEAN /\ d.counting \in BOOLEAN

Ended(c, d) ==
  Changed(c, d) /\ d.count = Decrement(c.count, c.bcd) /\ (d.out <=> c.out \/ d.count = 0)

Cycled(c, d) ==
  LET n == Decrement(c.count, c.bcd)
  IN /\ Changed(c, d) /\ d.count = IF n = 0 THEN c.reload ELSE n
     /\ d.out <=> IF n = 1 THEN FALSE ELSE IF n = 0 THEN TRUE ELSE c.out

Halved(c, d) ==
  LET m == Minus(c.count, 2)
  IN /\ Changed(c, d) /\ d.count = IF Expired(m) THEN c.reload ELSE m
     /\ d.out <=> IF Expired(m) THEN ~c.out ELSE c.out

Pulsed(c, d) ==
  /\ Changed(c, d) /\ d.count = Decrement(c.count, c.bcd) /\ (d.out <=> d.count # 0)
  /\ d.counting <=> c.counting /\ (d.count = 0 \/ c.out)

LEMMA CountedIs ==
  ASSUME NEW c, ChannelShape(c), CountInv(c)
  PROVE  /\ Ended(c, EndOfCount(c)) /\ Cycled(c, RateGenerator(c))
         /\ Halved(c, SquareWave(c)) /\ Pulsed(c, Strobe(c))
         /\ Changed(c, [c EXCEPT !.out = TRUE])
<1> USE DEF Changed, Kept, ChannelShape, ChannelFields
<1>2. c.out \in BOOLEAN /\ c.counting \in BOOLEAN
  BY DEF CountInv
<1>3. Ended(c, EndOfCount(c))
  BY <1>2 DEF EndOfCount, Ended
<1>4. Cycled(c, RateGenerator(c))
  BY <1>2 DEF RateGenerator, Cycled
<1>5. Halved(c, SquareWave(c))
  BY <1>2 DEF SquareWave, Halved, Minus
<1>6. Pulsed(c, Strobe(c))
  BY <1>2 DEF Strobe, Pulsed
<1>7. Changed(c, [c EXCEPT !.out = TRUE])
  BY <1>2
<1> QED
  BY <1>3, <1>4, <1>5, <1>6, <1>7

LEMMA CountInvKept ==
  ASSUME NEW c, CountInv(c), c.counting, NEW d, Changed(c, d), c.mode = 1 => d.out
  PROVE  CountInv(d)
<1>1. ~(c.mode = 0 /\ c.rw = 3 /\ c.lsbPending)
  BY DEF CountInv
<1>2. d.mode \in 0..5 /\ d.bcd \in BOOLEAN /\ (d.bcd => CodeSizes) /\ d.lsb \in 0 .. Byte - 1
  BY DEF CountInv, Changed, Kept
<1>3. /\ d.programmed \in BOOLEAN /\ d.lsbPending \in BOOLEAN /\ d.loaded \in BOOLEAN
      /\ d.loaded => d.programmed /\ d.reload \in 1..Word
  BY DEF CountInv, Changed, Kept
<1>4. ~(d.mode = 0 /\ d.rw = 3 /\ d.lsbPending)
  BY <1>1 DEF Changed, Kept
<1>5. d.mode = 1 => d.out
  BY DEF Changed, Kept
<1>6. d.out \in BOOLEAN /\ d.counting \in BOOLEAN /\ d.null \in BOOLEAN
  BY DEF CountInv, Changed
<1> QED
  BY <1>6, <1>2, <1>3, <1>4, <1>5 DEF CountInv

\* Below zero the count wraps, far above every count that can be due.
LEMMA Down ==
  ASSUME NEW r \in 1..Word, NEW k \in 0..2
  PROVE  /\ \A e \in 0..r : e >= k => Minus(e, k) = e - k
         /\ \A e \in 0..r : e < k => /\ Minus(e, k) = CountMod + e - k
                                     /\ CountMod + e - k >= CountMod \div 2
                                     /\ CountMod + e - k # 0
         /\ \A e \in 0 .. r - 1 : e < CountMod \div 2
<1> DEFINE W == Word
           half == CountMod \div 2
<1>1. W \in Nat \ {0} /\ CountMod \in Nat /\ CountMod > 2 * W /\ r \in 1..W
  BY Sizes
<1> HIDE DEF W
<1>2. \A x \in Int : 0 <= x /\ x < CountMod => x % CountMod = x
  BY <1>1
<1>3. \A x \in Int : -2 <= x /\ x < 0 => x % CountMod = CountMod + x
  BY <1>1
<1>4. half \in Nat /\ half >= W /\ 2 * half <= CountMod /\ CountMod <= 2 * half + 1
  BY <1>1
<1>5. ASSUME NEW e \in 0..r, e >= k PROVE Minus(e, k) = e - k
  BY <1>1, <1>2, <1>5 DEF Minus
<1>6. ASSUME NEW e \in 0..r, e < k PROVE Minus(e, k) = CountMod + e - k
  <2>1. e - k \in Int /\ -2 <= e - k /\ e - k < 0
    BY <1>6, <1>1
  <2> QED
    BY <1>1, <1>3, <2>1 DEF Minus
<1> HIDE DEF half
<1>7. ASSUME NEW e \in 0 .. r - 1 PROVE e < half
  BY <1>1, <1>4
<1>8. ASSUME NEW e \in 0..r, e < k
      PROVE  CountMod + e - k >= half /\ CountMod + e - k # 0
  BY <1>1, <1>4, <1>8
<1> QED
  BY <1>5, <1>6, <1>7, <1>8 DEF half

\* Mode 0.
LEMMA ToZeroTicks ==
  ASSUME NEW c, NEW s, CountInv(c), Phase(c, s), c.mode = 0, ~c.null, NEW d,
         Ended(c, d), NEW t, t.age = Older(c, s.age), t.out0 = s.out0
  PROVE  Phase(d, t)
<1> DEFINE r == Ticks(c)
<1>1. /\ r \in 1..Word /\ Word \in Nat /\ s.age \in Nat /\ c.loaded /\ ToZero(c, s)
  BY Sizes, TicksAre DEF Phase
<1>2. t.age = IF s.age < Word + 2 THEN s.age + 1 ELSE s.age
  BY DEF Older, Period
<1>3. /\ Kept(c, d) /\ ~d.null /\ d.count = Decrement(c.count, c.bcd)
      /\ d.out <=> c.out \/ d.count = 0
  BY DEF Ended, Changed
<1>4. Ticks(d) = r /\ (\A n : Left(d, n) = Left(c, n)) /\ Due(d) = d.count
  BY <1>3, KeptTicks DEF Due
<1>5. s.age < r => c.count \in 0..Word /\ Left(c, c.count) = r - s.age /\ ~c.out
  BY <1>1 DEF ToZero, At, Due
<1>6. s.age >= r => c.out
  BY <1>1 DEF ToZero
<1> HIDE DEF r
<1>7. s.age < r => /\ d.count \in 0..Word /\ Left(c, d.count) = r - s.age - 1
                   /\ d.count = 0 <=> r - s.age = 1
  BY <1>1, <1>3, <1>5, CountsDown
<1>8. ToZero(d, t)
  <2>1. CASE s.age + 1 < r
    <3>1. t.age = s.age + 1 /\ ~d.out
      BY <1>1, <1>2, <1>3, <1>5, <1>7, <2>1
    <3>2. At(d, r - t.age)
      BY <1>1, <1>4, <1>7, <2>1, <3>1 DEF At
    <3> QED
      BY <1>1, <1>4, <2>1, <3>1, <3>2 DEF ToZero
  <2>2. CASE s.age + 1 = r
    <3>1. t.age = r /\ d.out
      BY <1>1, <1>2, <1>3, <1>7, <2>2
    <3> QED
      BY <1>1, <1>4, <3>1 DEF ToZero
  <2>3. CASE s.age >= r
    <3>1. t.age >= r /\ d.out /\ t.age \in Nat
      BY <1>1, <1>2, <1>3, <1>6, <2>3
    <3> QED
      BY <1>1, <1>4, <3>1 DEF ToZero
  <2> QED
    BY <1>1, <2>1, <2>2, <2>3
<1>9. d.loaded /\ d.mode = 0 /\ t.age \in Nat /\ t.out0 \in BOOLEAN
  BY <1>1, <1>2, <1>3 DEF Kept, Phase
<1> QED
  BY <1>8, <1>9 DEF Phase

\* Mode 2.
LEMMA CyclicTicks ==
  ASSUME NEW c, NEW s, CountInv(c), Phase(c, s), c.mode = 2, ~c.null, NEW d,
         Cycled(c, d),
         NEW t, t.age = Older(c, s.age), t.out0 \in BOOLEAN,
         t.out0 <=> s.out0 \/ t.age = 0
  PROVE  Phase(d, t)
<1> DEFINE n == Decrement(c.count, c.bcd)
           r == Ticks(c)
<1>1. /\ r \in 1..Word /\ r = Left(c, c.reload) /\ c.reload \in 1..Word
      /\ Word \in Nat /\ s.age \in Nat /\ c.loaded /\ Cyclic(c, s)
      /\ s.out0 \in BOOLEAN /\ c.out \in BOOLEAN
  BY Sizes, TicksAre DEF CountInv, Phase
<1>2. t.age = (s.age + 1) % r
  BY DEF Older, Period
<1>3. /\ s.age < r /\ c.count \in 0..Word /\ Left(c, c.count) = r - s.age
      /\ c.out <=> s.out0 /\ (r > 1 => s.age # r - 1)
  BY <1>1 DEF Cyclic, At, Due
<1>4. /\ d.count = IF n = 0 THEN c.reload ELSE n
      /\ d.out <=> IF n = 1 THEN FALSE ELSE IF n = 0 THEN TRUE ELSE c.out
  BY DEF Cycled
<1>5. d.loaded /\ d.mode = 2 /\ ~d.null /\ d.out \in BOOLEAN /\ Kept(c, d)
  BY <1>1 DEF Kept, Cycled, Changed
<1>6. Ticks(d) = r /\ (\A x : Left(d, x) = Left(c, x)) /\ Due(d) = d.count
  BY <1>5, KeptTicks DEF Due
<1> HIDE DEF r
<1>7. /\ n \in 0..Word /\ Left(c, n) = r - s.age - 1
      /\ (n = 0 <=> r - s.age = 1) /\ (n = 1 <=> r - s.age = 2)
  BY <1>1, <1>3, CountsDown
<1> HIDE DEF n
<1>8. t.age = IF s.age + 1 = r THEN 0 ELSE s.age + 1
  BY <1>1, <1>2, <1>3
<1>9. Cyclic(d, t)
  <2>1. CASE s.age + 1 = r
    <3>1. t.age = 0 /\ d.count = c.reload /\ d.out /\ t.out0
      BY <1>1, <1>4, <1>7, <1>8, <2>1
    <3>2. At(d, r)
      BY <1>1, <1>6, <3>1 DEF At
    <3> QED
      BY <1>1, <1>6, <3>1, <3>2 DEF Cyclic
  <2>2. CASE s.age + 2 = r
    <3>1. t.age = r - 1 /\ d.count = n /\ ~d.out /\ r > 1
      BY <1>1, <1>4, <1>7, <1>8, <2>2
    <3>2. At(d, r - t.age)
      BY <1>1, <1>6, <1>7, <2>2, <3>1 DEF At
    <3> QED
      BY <1>1, <1>6, <3>1, <3>2 DEF Cyclic
  <2>3. CASE s.age + 2 < r
    <3>1. t.age = s.age + 1 /\ d.count = n /\ (d.out <=> c.out)
      BY <1>1, <1>4, <1>7, <1>8, <2>3
    <3>2. (c.out <=> s.out0) /\ (t.out0 <=> s.out0)
      BY <1>1, <1>3, <2>3, <3>1
    <3>3. At(d, r - t.age)
      BY <1>1, <1>6, <1>7, <3>1 DEF At
    <3> QED
      BY <1>1, <1>5, <1>6, <2>3, <3>1, <3>2, <3>3 DEF Cyclic
  <2> QED
    BY <1>1, <1>3, <2>1, <2>2, <2>3
<1>10. t.age \in Nat /\ t.out0 \in BOOLEAN
  BY <1>1, <1>8
<1> QED
  BY <1>5, <1>9, <1>10 DEF Phase

\* Mode 3: half a period is half the count, rounded up.
LEMMA TwoHalvesTicks ==
  ASSUME NEW c, NEW s, CountInv(c), Phase(c, s), c.mode = 3, ~c.null, NEW d,
         Halved(c, d),
         NEW t, t.age = Older(c, s.age), t.out0 = s.out0
  PROVE  Phase(d, t)
<1> DEFINE m == Minus(c.count, 2)
           h == Half(c)
           late == s.age >= h
           b == IF late THEN s.age - h ELSE s.age
<1>1. /\ c.reload \in 1..Word /\ Word \in Nat /\ s.age \in Nat /\ c.loaded
      /\ s.out0 \in BOOLEAN /\ c.out \in BOOLEAN
  BY Sizes DEF CountInv, Phase
<1>2. b < h /\ c.count = c.reload - 2 * b /\ (c.out <=> (s.out0 <=> ~late))
  BY DEF Phase, TwoHalves, Due
<1>3. h = (c.reload + 1) \div 2 /\ Half(d) = h
  BY KeptTicks, TicksAre DEF Half, Halved, Changed, Phase
<1>4. h \in Nat \ {0} /\ c.reload <= 2 * h /\ 2 * h <= c.reload + 1
  BY <1>1, <1>3
<1>5. t.age = (s.age + 1) % (2 * h)
  BY DEF Older, Period
<1>6. /\ d.count = IF Expired(m) THEN c.reload ELSE m
      /\ d.out <=> IF Expired(m) THEN ~c.out ELSE c.out
  BY DEF Halved
<1>7. d.reload = c.reload /\ d.loaded /\ d.mode = 3 /\ ~d.null /\ d.out \in BOOLEAN
  BY <1>1 DEF Kept, Halved, Changed
<1> HIDE DEF h
<1>8. t.age = IF s.age + 1 = 2 * h THEN 0 ELSE s.age + 1
  <2>1. s.age + 1 \in 1 .. 2 * h
    BY <1>1, <1>2, <1>4
  <2> QED
    BY <1>4, <1>5, <2>1
<1>9. b \in Nat /\ c.count \in 1 .. c.reload
  BY <1>1, <1>2, <1>4
<1>10. CASE b + 1 = h
  <2>1. c.count <= 2
    BY <1>2, <1>4, <1>10, <1>1
  <2>2. Expired(m)
    <3>1. CASE c.count = 2
      BY <1>1, <1>9, <3>1, Down DEF Expired
    <3>2. CASE c.count = 1
      BY <1>1, <1>9, <3>2, Down DEF Expired
    <3> QED
      BY <1>9, <2>1, <3>1, <3>2
  <2>3. d.count = c.reload /\ (d.out <=> ~c.out)
    BY <1>6, <2>2
  <2>4. t.age = IF late THEN 0 ELSE h
    BY <1>1, <1>4, <1>8, <1>10
  <2> HIDE DEF b, m
  <2>5. /\ t.age >= h <=> ~late
        /\ (IF t.age >= h THEN t.age - h ELSE t.age) = 0
    BY <1>4, <2>4
  <2>6. TwoHalves(d, t)
    BY <1>1, <1>2, <1>3, <1>4, <1>7, <2>3, <2>5 DEF TwoHalves, Due
  <2>7. t.age \in Nat
    BY <1>4, <2>4
  <2> QED
    BY <1>1, <1>7, <2>6, <2>7 DEF Phase
<1>11. CASE b + 1 < h
  <2>1. c.count > 2 /\ c.count - 2 = c.reload - 2 * (b + 1)
    BY <1>2, <1>4, <1>11, <1>1, <1>9
  <2>2. m = c.count - 2 /\ ~Expired(m)
    <3>1. m = c.count - 2
      BY <1>1, <1>9, <2>1, Down
    <3>2. m < CountMod \div 2
      BY <1>1, <1>9, <2>1, <3>1, Down
    <3>3. CountMod \div 2 \in Int /\ m \in Int /\ m > 0
      BY <1>9, <2>1, <3>1, Sizes
    <3> QED
      BY <3>1, <3>2, <3>3 DEF Expired
  <2>3. d.count = c.reload - 2 * (b + 1) /\ (d.out <=> c.out)
    BY <1>6, <2>1, <2>2
  <2>4. t.age = s.age + 1
    BY <1>1, <1>4, <1>8, <1>11
  <2>5. /\ t.age >= h <=> late
        /\ (IF t.age >= h THEN t.age - h ELSE t.age) = b + 1
    BY <1>1, <1>4, <1>11, <2>4
  <2> HIDE DEF b, m
  <2>6. TwoHalves(d, t)
    BY <1>1, <1>2, <1>3, <1>4, <1>7, <1>11, <2>3, <2>5 DEF TwoHalves, Due
  <2>7. t.age \in Nat
    BY <1>1, <2>4
  <2> QED
    BY <1>1, <1>7, <2>6, <2>7 DEF Phase
<1> QED
  BY <1>2, <1>4, <1>9, <1>10, <1>11

\* Modes 4 and 5.
LEMMA OnePulseTicks ==
  ASSUME NEW c, NEW s, CountInv(c), Phase(c, s), c.mode \in {4, 5}, ~c.null, c.counting,
         NEW d, Pulsed(c, d),
         NEW t, t.age = Older(c, s.age), t.out0 = s.out0
  PROVE  Phase(d, t)
<1> DEFINE r == Ticks(c)
           shown == s.out0 \/ r = 1
<1>1. /\ r \in 1..Word /\ Word \in Nat /\ s.age \in Nat /\ c.loaded
      /\ s.out0 \in BOOLEAN /\ c.out \in BOOLEAN /\ OnePulse(c, s)
  BY Sizes, TicksAre DEF CountInv, Phase
<1>2. t.age = IF s.age < Word + 2 THEN s.age + 1 ELSE s.age
  BY DEF Older, Period
<1>3. /\ Kept(c, d) /\ d.loaded /\ d.mode = c.mode /\ ~d.null
      /\ d.count = Decrement(c.count, c.bcd) /\ (d.out <=> d.count # 0)
      /\ d.counting <=> c.counting /\ (d.count = 0 \/ c.out)
  BY <1>1 DEF Kept, Pulsed, Changed
<1>4. s.age = 0 \/ (s.age <= r /\ shown)
  BY <1>1 DEF OnePulse
<1>5. t.age = s.age + 1
  BY <1>1, <1>2, <1>4
<1>6. s.age <= r /\ c.count \in 0..Word /\ Left(c, c.count) = r - s.age
  BY <1>1, <1>4 DEF OnePulse, At, Due
<1>7. c.out <=> IF s.age = 0 THEN s.out0 ELSE s.age # r
  BY <1>1, <1>4 DEF OnePulse
<1>8. Ticks(d) = r /\ (\A n : Left(d, n) = Left(c, n)) /\ Due(d) = d.count
  BY <1>3, KeptTicks DEF Due
<1> HIDE DEF r
<1>9. /\ s.age # r => /\ d.count \in 0..Word /\ Left(c, d.count) = r - s.age - 1
                      /\ d.count = 0 <=> r - s.age = 1
      /\ s.age = r => d.count # 0
  BY <1>1, <1>3, <1>6, CountsDown
<1> HIDE DEF shown
<1>10. OnePulse(d, t)
  <2>1. CASE s.age = r
    <3>1. ~c.out
      BY <1>1, <1>7, <2>1
    <3>2. d.out /\ ~d.counting
      BY <1>3, <1>9, <2>1, <3>1
    <3> QED
      BY <1>1, <1>5, <1>8, <2>1, <3>2 DEF OnePulse
  <2>2. CASE s.age < r
    <3>1. At(d, r - t.age)
      BY <1>1, <1>5, <1>8, <1>9, <2>2 DEF At
    <3>2. d.out <=> t.age # r
      BY <1>1, <1>3, <1>5, <1>9, <2>2
    <3>3. CASE shown
      BY <1>1, <1>5, <1>8, <2>2, <3>1, <3>2, <3>3 DEF OnePulse, shown
    <3>4. CASE ~shown
      <4>1. s.age = 0 /\ ~c.out /\ r > 1
        BY <1>1, <1>4, <1>7, <3>4 DEF shown
      <4>2. d.out /\ ~d.counting
        BY <1>1, <1>3, <1>5, <3>2, <4>1
      <4> QED
        BY <1>1, <1>5, <1>8, <3>4, <4>1, <4>2 DEF OnePulse, shown
    <3> QED
      BY <3>3, <3>4
  <2> QED
    BY <1>1, <1>6, <2>1, <2>2
<1>11. t.age \in Nat /\ t.out0 \in BOOLEAN /\ d.mode \in {4, 5}
  BY <1>1, <1>3, <1>5
<1> QED
  BY <1>3, <1>10, <1>11 DEF Phase

\* The first tick takes over the count that was written.
LEMMA Taken ==
  ASSUME NEW c, ChannelShape(c), CountInv(c), c.loaded, NEW s
  PROVE  LET b == IF c.null THEN [c EXCEPT !.count = c.reload, !.null = FALSE] ELSE c
         IN /\ Kept(c, b) /\ ~b.null /\ b.out = c.out /\ b.counting = c.counting
            /\ CountInv(b) /\ (Phase(c, s) => Phase(b, s))
            /\ Older(b, s.age) = Older(c, s.age)
<1> DEFINE b == IF c.null THEN [c EXCEPT !.count = c.reload, !.null = FALSE] ELSE c
<1>1. /\ Kept(c, b) /\ ~b.null /\ b.null \in BOOLEAN /\ b.out = c.out
      /\ b.counting = c.counting /\ b.count = Due(c)
  BY DEF Kept, ChannelShape, ChannelFields, Due, CountInv
<1> HIDE DEF b
<1>2. CountInv(b)
  <2>1. b.mode \in 0..5 /\ b.bcd \in BOOLEAN /\ (b.bcd => CodeSizes) /\ b.lsb \in 0 .. Byte - 1
    BY <1>1 DEF CountInv, Kept
  <2>2. /\ b.programmed \in BOOLEAN /\ b.lsbPending \in BOOLEAN /\ b.loaded \in BOOLEAN
        /\ b.loaded => b.programmed /\ b.reload \in 1..Word
    BY <1>1 DEF CountInv, Kept
  <2>3. b.out \in BOOLEAN /\ b.counting \in BOOLEAN
    BY <1>1 DEF CountInv
  <2>4. /\ b.mode = 0 /\ b.rw = 3 /\ b.lsbPending => ~b.out /\ ~b.counting
        /\ b.mode = 1 => b.out
    BY <1>1 DEF CountInv, Kept
  <2> QED
    BY <1>1, <2>1, <2>2, <2>3, <2>4 DEF CountInv
<1>3. Ticks(b) = Ticks(c) /\ Half(b) = Half(c) /\ Period(b) = Period(c)
  BY <1>1, KeptTicks
<1>4. Older(b, s.age) = Older(c, s.age)
  BY <1>1, <1>3 DEF Older, Kept
<1>5. Due(b) = Due(c)
  BY <1>1 DEF Due
<1>7. \A n : At(b, n) <=> At(c, n)
  BY <1>1, <1>5, KeptTicks DEF At
<1>6. Phase(c, s) => Phase(b, s)
  BY <1>1, <1>3, <1>5, <1>7 DEF Phase, ToZero, Cyclic, TwoHalves, OnePulse, Kept
<1> QED
  BY <1>1, <1>2, <1>4, <1>6 DEF b

\* The program counts with the channel.
LEMMA AgeIs ==
  ASSUME NEW s, ViewShape(s), NEW c, NEW g
  PROVE  LET t == SeenTick(s, c, g)
         IN /\ s.age = None \/ ~c.counting => t = s
            /\ s.age # None /\ c.counting /\ Suspended(c, g) =>
                 IF c.mode \in {0, 4} THEN t = s ELSE t.age = None
            /\ s.age # None /\ c.counting /\ ~Suspended(c, g) =>
                 /\ t.age = Older(c, s.age)
                 /\ t.out0 = (s.out0 \/ (c.mode = 2 /\ t.age = 0))
BY DEF SeenTick, ViewShape, ViewFields

\* A counting channel whose gate does not hold it.
LEMMA RunningTicks ==
  ASSUME NEW b, NEW s, ChannelShape(b), CountInv(b), Phase(b, s), ~b.null, b.counting,
         NEW g, ~Suspended(b, g), NEW t, t.age = Older(b, s.age),
         t.out0 = (s.out0 \/ (b.mode = 2 /\ t.age = 0))
  PROVE  Phase(Counted(b, g), t)
<1> DEFINE d == Counted(b, g)
<1>1. b.mode \in 0..5 /\ s.out0 \in BOOLEAN /\ s.age \in Nat /\ t.out0 \in BOOLEAN
  BY DEF CountInv, Phase
<1>2. b.mode # 2 => t.out0 = s.out0
  BY <1>1
<1>3. CASE b.mode = 0
  <2>1. d = EndOfCount(b)
    BY <1>3 DEF Counted, Suspended
  <2>2. t.out0 = s.out0
    BY <1>2, <1>3
  <2> HIDE DEF d
  <2>3. Ended(b, d)
    BY <2>1, CountedIs
  <2> QED
    BY <2>2, <1>3, <2>3, ToZeroTicks DEF d
<1>4. CASE b.mode = 1
  <2>1. d = EndOfCount(b)
    BY <1>4 DEF Counted
  <2>2. Kept(b, d)
    BY <2>1, CountedIs DEF Ended, Changed
  <2>3. t.age \in Nat
    BY <1>1, <1>4, Sizes DEF Older, Period
  <2> HIDE DEF d
  <2>4. d.mode = 1 /\ d.loaded
    BY <1>4, <2>2 DEF Kept, Phase
  <2>5. Phase(d, t)
    BY <1>1, <2>3, <2>4 DEF Phase
  <2> QED
    BY <2>5 DEF d
<1>5. CASE b.mode = 2
  <2>1. d = RateGenerator(b)
    BY <1>5 DEF Counted, Suspended
  <2>2. t.out0 <=> s.out0 \/ t.age = 0
    BY <1>1, <1>5
  <2> HIDE DEF d
  <2> QED
    BY <1>1, <1>5, <2>1, <2>2, CountedIs, CyclicTicks DEF d
<1>6. CASE b.mode = 3
  <2>1. d = SquareWave(b)
    BY <1>6 DEF Counted, Suspended
  <2>2. t.out0 = s.out0
    BY <1>2, <1>6
  <2> HIDE DEF d
  <2>3. Halved(b, d)
    BY <2>1, CountedIs
  <2> QED
    BY <2>2, <1>6, <2>3, TwoHalvesTicks DEF d
<1>7. CASE b.mode \in {4, 5}
  <2>1. d = Strobe(b)
    BY <1>7 DEF Counted, Suspended
  <2>2. t.out0 = s.out0
    BY <1>2, <1>7
  <2> HIDE DEF d
  <2> QED
    BY <2>2, <1>7, <2>1, CountedIs, OnePulseTicks DEF d
<1> QED
  BY <1>1, <1>3, <1>4, <1>5, <1>6, <1>7

\* Any counting channel keeps its counts in range.
LEMMA CountedInRange ==
  ASSUME NEW b, ChannelShape(b), CountInv(b), b.counting, NEW g
  PROVE  CountInv(Counted(b, g))
<1> DEFINE d == Counted(b, g)
<1>1. d \in {b, [b EXCEPT !.out = TRUE], EndOfCount(b), RateGenerator(b), SquareWave(b),
             Strobe(b)}
  BY DEF Counted
<1>2. b.mode = 1 => d = EndOfCount(b)
  BY DEF Counted
<1> HIDE DEF d
<1>3. d = b \/ Changed(b, d)
  <2>1. Changed(b, EndOfCount(b))
    BY CountedIs DEF Ended
  <2>2. Changed(b, RateGenerator(b))
    BY CountedIs DEF Cycled
  <2>3. Changed(b, SquareWave(b))
    BY CountedIs DEF Halved
  <2>4. Changed(b, Strobe(b))
    BY CountedIs DEF Pulsed
  <2>5. Changed(b, [b EXCEPT !.out = TRUE])
    BY CountedIs
  <2> QED
    BY <1>1, <2>1, <2>2, <2>3, <2>4, <2>5
<1>4. b.mode = 1 => d.out
  BY <1>2, CountedIs DEF Ended, CountInv
<1>5. CountInv(d)
  BY <1>3, <1>4, CountInvKept
<1> QED
  BY <1>5 DEF d

LEMMA TickWaves ==
  ASSUME NEW c, NEW s, Agrees(c, s), WaveOf(c, s), NEW g
  PROVE  WaveOf(Tick(c, g), SeenTick(s, c, g))
<1> DEFINE d == Tick(c, g)
           t == SeenTick(s, c, g)
           b == IF c.null THEN [c EXCEPT !.count = c.reload, !.null = FALSE] ELSE c
<1> SUFFICES WaveOf(d, t)
  OBVIOUS
<1>1. ChannelShape(c) /\ ViewShape(s) /\ CountInv(c) /\ (s.age # None => Phase(c, s))
  BY DEF Agrees, WaveOf
<1>2. /\ s.age = None \/ ~c.counting => t = s
      /\ s.age # None /\ c.counting /\ Suspended(c, g) =>
           IF c.mode \in {0, 4} THEN t = s ELSE t.age = None
      /\ s.age # None /\ c.counting /\ ~Suspended(c, g) =>
           /\ t.age = Older(c, s.age)
           /\ t.out0 = (s.out0 \/ (c.mode = 2 /\ t.age = 0))
  BY <1>1, AgeIs
<1>3. CASE ~c.loaded
  <2>1. d = c /\ t = s
    BY <1>1, <1>2, <1>3 DEF Tick, Phase
  <2> QED
    BY <2>1
<1>4. CASE c.loaded
  <2>1. c.programmed
    BY <1>1, <1>4 DEF CountInv
  <2>2. d = IF b.counting THEN Counted(b, g) ELSE b
    BY <1>4, <2>1 DEF Tick
  <2>3. /\ Kept(c, b) /\ ~b.null /\ b.out = c.out /\ b.counting = c.counting
        /\ CountInv(b) /\ (Phase(c, s) => Phase(b, s))
        /\ Older(b, s.age) = Older(c, s.age)
    BY <1>1, <1>4, Taken
  <2> HIDE DEF b, d, t
  <2>4. ChannelShape(b) /\ b.mode = c.mode
    BY <2>3 DEF Kept
  <2>5. CASE ~c.counting
    BY <1>1, <1>2, <2>2, <2>3, <2>5 DEF WaveOf
  <2>6. CASE c.counting
    <3>1. d = Counted(b, g) /\ CountInv(d)
      BY <2>2, <2>3, <2>4, <2>6, CountedInRange
    <3>2. CASE s.age = None
      BY <1>2, <3>1, <3>2 DEF WaveOf
    <3>3. CASE s.age # None /\ Suspended(c, g)
      <4>1. CASE c.mode \in {0, 4}
        <5>1. d = b /\ t = s
          BY <1>2, <2>4, <2>6, <3>1, <3>3, <4>1 DEF Counted, Suspended
        <5> QED
          BY <1>1, <2>3, <5>1 DEF WaveOf
      <4>2. CASE c.mode \notin {0, 4}
        BY <1>2, <2>6, <3>1, <3>3, <4>2 DEF WaveOf
      <4> QED
        BY <4>1, <4>2
    <3>4. CASE s.age # None /\ ~Suspended(c, g)
      <4>1. ~Suspended(b, g) /\ Phase(b, s) /\ b.counting
        BY <1>1, <2>3, <2>4, <2>6, <3>4 DEF Suspended
      <4>2. /\ t.age = Older(b, s.age)
            /\ t.out0 = (s.out0 \/ (b.mode = 2 /\ t.age = 0))
        BY <1>2, <2>3, <2>4, <2>6, <3>4
      <4>3. Phase(Counted(b, g), t)
        BY <2>3, <2>4, <4>1, <4>2, RunningTicks
      <4> QED
        BY <3>1, <4>3 DEF WaveOf
    <3> QED
      BY <3>2, <3>3, <3>4
  <2> QED
    BY <2>5, <2>6
<1> QED
  BY <1>3, <1>4

LEMMA InitWaveInv == PitInit => WaveInv
<1> SUFFICES ASSUME PitInit PROVE WaveInv
  OBVIOUS
<1>1. WaveOf(Channel, Quiet)
  BY Sizes DEF WaveOf, CountInv, Channel, Quiet
<1>2. /\ pit.ch = [i \in Channels |-> Channel] /\ seen.ch = [i \in Channels |-> Quiet]
      /\ pit.out = [i \in Channels |-> FALSE]
  BY DEF PitInit
<1>3. ~Channel.out
  BY DEF Channel
<1>4. ASSUME NEW i \in Channels
      PROVE  pit.out[i] = (i # 1 /\ pit.ch[i].out)
  BY <1>2, <1>3
<1>5. pit.out = [i \in Channels |-> i # 1 /\ pit.ch[i].out]
  BY <1>2, <1>4
<1> QED
  BY <1>1, <1>2, <1>5 DEF WaveInv

LEMMA StepKeepsWaves == DecimalSizes /\ LatchInv /\ WaveInv /\ [PitNext]_pitVars => WaveInv'
<1> SUFFICES ASSUME DecimalSizes, LatchInv, WaveInv, [PitNext]_pitVars PROVE WaveInv'
  OBVIOUS
<1>1. CASE PitNext
  <2>1. PICK a : Moves(a)
    BY <1>1, StepsMove
  <2>2. /\ pit'.out = [i \in Channels |-> i # 1 /\ pit'.ch[i].out]
        /\ \A i \in Channels : ChannelStep(i)
    BY <2>1, CycleMoves
  <2>3. ASSUME NEW i \in Channels PROVE WaveOf(pit'.ch[i], seen'.ch[i])
    <3>1. PICK c, s : /\ Touched(pit.ch[i], seen.ch[i], c, s)
                      /\ Moved(c, s, pit'.ch[i], seen'.ch[i], gate[i])
      BY <2>2 DEF ChannelStep
    <3>2. Agrees(pit.ch[i], seen.ch[i]) /\ WaveOf(pit.ch[i], seen.ch[i])
      BY DEF LatchInv, WaveInv
    <3>3. Agrees(c, s) /\ WaveOf(c, s)
      BY <3>1, <3>2, AccessAgrees, AccessWaves DEF Touched
    <3> QED
      BY <3>1, <3>3, TickWaves DEF Moved
  <2> QED
    BY <2>2, <2>3 DEF WaveInv
<1>2. CASE UNCHANGED pitVars
  BY <1>2 DEF pitVars, WaveInv
<1> QED
  BY <1>1, <1>2

\* The phase of a count fixes OUT.
LEMMA PhaseIsExpected ==
  ASSUME NEW c, NEW s, CountInv(c), Phase(c, s)
  PROVE  c.out <=> Expected(c, s.age, s.out0)
<1> DEFINE r == Ticks(c)
<1>1. /\ r \in 1..Word /\ s.age \in Nat
      /\ c.out \in BOOLEAN /\ s.out0 \in BOOLEAN /\ c.mode \in 0..5 /\ Word \in Nat
  BY Sizes, TicksAre DEF CountInv, Phase
<1>2. CASE c.mode = 0
  <2>1. Expected(c, s.age, s.out0) <=> s.age >= r
    BY <1>1, <1>2 DEF Expected
  <2> QED
    BY <1>1, <1>2, <2>1 DEF Phase, ToZero
<1>3. CASE c.mode = 1
  BY <1>3 DEF Expected, CountInv
<1>4. CASE c.mode = 2
  BY <1>1, <1>4 DEF Expected, Phase, Cyclic
<1>5. CASE c.mode = 3
  <2>1. Half(c) \in Nat
    BY <1>1 DEF Half
  <2>2. Expected(c, s.age, s.out0) <=> (s.out0 <=> s.age < Half(c))
    BY <1>5 DEF Expected
  <2> QED
    BY <1>1, <1>5, <2>1, <2>2 DEF Phase, TwoHalves
<1>6. CASE c.mode \in {4, 5}
  <2>1. Expected(c, s.age, s.out0) <=>
          IF s.out0 \/ (s.age > 0 /\ r = 1) THEN s.age # r ELSE s.age > 0
    BY <1>1, <1>6 DEF Expected
  <2>2. OnePulse(c, s)
    BY <1>6 DEF Phase
  <2>3. CASE s.age = 0
    BY <1>1, <2>1, <2>2, <2>3 DEF OnePulse
  <2>4. CASE s.age > 0
    BY <1>1, <2>1, <2>2, <2>4 DEF OnePulse
  <2> QED
    BY <1>1, <2>3, <2>4
<1> QED
  BY <1>1, <1>2, <1>3, <1>4, <1>5, <1>6

\* A count due stands as far from its end as the program's age says, in every
\* mode, for binary counts of any width and for decimal ones of the code's.
THEOREM WaveInvariant ==
  ASSUME DecimalSizes
  PROVE  PitSpec => []WaveInv
<1>1. LatchInv /\ WaveInv /\ [PitNext]_pitVars => WaveInv'
  BY StepKeepsWaves
<1> QED
  BY InitWaveInv, <1>1, LatchInvariant, PTL DEF PitSpec

\* OUT is the wave that the mode and the count stand for, from the write of the
\* count on (tick(), write_counter(), decrement()), for binary counts of any
\* width and for decimal ones of the code's.
THEOREM OutIsProgrammed ==
  ASSUME DecimalSizes
  PROVE  PitSpec => []OutAsProgrammed
<1>1. WaveInv => OutAsProgrammed
  <2> SUFFICES ASSUME WaveInv, NEW i \in Channels \ {1}, seen.ch[i].age # None
               PROVE  pit.out[i] <=> Expected(pit.ch[i], seen.ch[i].age, seen.ch[i].out0)
    BY DEF OutAsProgrammed
  <2>1. pit.out[i] <=> pit.ch[i].out
    BY DEF WaveInv
  <2>2. CountInv(pit.ch[i]) /\ Phase(pit.ch[i], seen.ch[i])
    BY DEF WaveInv, WaveOf
  <2> QED
    BY <2>1, <2>2, PhaseIsExpected
<1> QED
  BY WaveInvariant, <1>1, PTL

=============================================================================
