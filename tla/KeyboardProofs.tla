--------------------------- MODULE KeyboardProofs ---------------------------
(***************************************************************************)
(* What the keyboard promises, for every size of the ring, length of the   *)
(* reset and number of keys: the host's keys are conserved on their way to *)
(* port A, and a code comes with an edge of IRQ1.                          *)
(***************************************************************************)
EXTENDS Keyboard, SequenceTheorems, TLAPS

(***************************************************************************)
(* The host's keys of a sequence.                                          *)
(***************************************************************************)
Codes == Seq(Int)

\* All of the keys X come before all of the keys Y.
Ahead(X, Y) == \A x \in X, y \in Y : x < y

LEMMA KeyTypes == HostKeys \subseteq Int /\ Reset \in Int /\ Reset \notin HostKeys
  BY KeyboardAssumption DEF HostKeys, Reset

LEMMA EmptyKeys == KeysOf(<<>>) = {} /\ InOrder(<<>>) /\ <<>> \in Codes
  BY DEF KeysOf, InOrder, Codes

LEMMA KeyAt ==
  ASSUME NEW s \in Codes, NEW x
  PROVE  x \in KeysOf(s) <=> x \in HostKeys /\ \E i \in 1..Len(s) : s[i] = x
BY DEF KeysOf, Codes

LEMMA OrderAt ==
  ASSUME NEW s \in Codes
  PROVE  InOrder(s) <=> \A i, j \in 1..Len(s) :
           i < j /\ s[i] \in HostKeys /\ s[j] \in HostKeys => s[i] < s[j]
BY DEF InOrder, Codes

\* Two sequences behind each other.
LEMMA ConcatKeys ==
  ASSUME NEW s \in Codes, NEW t \in Codes
  PROVE  /\ s \o t \in Codes
         /\ KeysOf(s \o t) = KeysOf(s) \cup KeysOf(t)
         /\ InOrder(s) /\ InOrder(t) /\ Ahead(KeysOf(s), KeysOf(t)) => InOrder(s \o t)
<1> DEFINE u == s \o t
<1>1. /\ u \in Codes /\ Len(u) = Len(s) + Len(t)
      /\ \A i \in 1..Len(u) : u[i] = IF i <= Len(s) THEN s[i] ELSE t[i - Len(s)]
  BY ConcatProperties DEF Codes
<1>2. Len(s) \in Nat /\ Len(t) \in Nat
  BY DEF Codes
<1> HIDE DEF u
<1>3. /\ \A i \in 1..Len(s) : i \in 1..Len(u) /\ u[i] = s[i]
      /\ \A i \in 1..Len(t) : i + Len(s) \in 1..Len(u) /\ u[i + Len(s)] = t[i]
  BY <1>1, <1>2
<1>4. KeysOf(u) = KeysOf(s) \cup KeysOf(t)
  <2>1. ASSUME NEW x \in KeysOf(u) PROVE x \in KeysOf(s) \cup KeysOf(t)
    <3>1. PICK i \in 1..Len(u) : u[i] = x
      BY <2>1, <1>1, KeyAt
    <3>2. x \in HostKeys
      BY <2>1, <1>1, KeyAt
    <3>3. CASE i <= Len(s)
      BY <3>1, <3>2, <3>3, <1>1, <1>2, KeyAt
    <3>4. CASE ~(i <= Len(s))
      <4>1. i - Len(s) \in 1..Len(t) /\ t[i - Len(s)] = x
        BY <3>1, <3>4, <1>1, <1>2
      <4> QED
        BY <4>1, <3>2, KeyAt
    <3> QED
      BY <3>3, <3>4
  <2>2. ASSUME NEW x \in KeysOf(s) PROVE x \in KeysOf(u)
    BY <2>2, <1>1, <1>3, KeyAt
  <2>3. ASSUME NEW x \in KeysOf(t) PROVE x \in KeysOf(u)
    BY <2>3, <1>1, <1>3, KeyAt
  <2> QED
    BY <2>1, <2>2, <2>3
<1>5. ASSUME InOrder(s), InOrder(t), Ahead(KeysOf(s), KeysOf(t)) PROVE InOrder(u)
  <2>1. SUFFICES ASSUME NEW i \in 1..Len(u), NEW j \in 1..Len(u), i < j,
                        u[i] \in HostKeys, u[j] \in HostKeys
                 PROVE  u[i] < u[j]
    BY <1>1, OrderAt
  <2>2. CASE j <= Len(s)
    <3>1. i \in 1..Len(s) /\ j \in 1..Len(s) /\ u[i] = s[i] /\ u[j] = s[j]
      BY <2>1, <2>2, <1>1, <1>2
    <3> QED
      BY <2>1, <3>1, <1>5, OrderAt
  <2>3. CASE i <= Len(s) /\ ~(j <= Len(s))
    <3>1. i \in 1..Len(s) /\ j - Len(s) \in 1..Len(t) /\ u[i] = s[i] /\ u[j] = t[j - Len(s)]
      BY <2>1, <2>3, <1>1, <1>2
    <3>2. u[i] \in KeysOf(s) /\ u[j] \in KeysOf(t)
      BY <2>1, <3>1, KeyAt
    <3> QED
      BY <3>2, <1>5 DEF Ahead
  <2>4. CASE ~(i <= Len(s))
    <3>1. /\ i - Len(s) \in 1..Len(t) /\ j - Len(s) \in 1..Len(t)
          /\ u[i] = t[i - Len(s)] /\ u[j] = t[j - Len(s)] /\ i - Len(s) < j - Len(s)
      BY <2>1, <2>4, <1>1, <1>2
    <3> QED
      BY <2>1, <3>1, <1>5, OrderAt
  <2> QED
    BY <2>2, <2>3, <2>4, <1>2
<1> QED
  BY <1>1, <1>4, <1>5 DEF u

LEMMA OneKey ==
  ASSUME NEW x \in Int
  PROVE  /\ <<x>> \in Codes /\ InOrder(<<x>>)
         /\ KeysOf(<<x>>) = {x} \cap HostKeys
<1>1. <<x>> \in Codes /\ Len(<<x>>) = 1 /\ <<x>>[1] = x
  BY DEF Codes
<1>2. InOrder(<<x>>)
  BY <1>1, OrderAt
<1>3. \A y : y \in KeysOf(<<x>>) <=> y \in HostKeys /\ y = x
  BY <1>1, KeyAt
<1> QED
  BY <1>1, <1>2, <1>3

\* A code more at the end.
LEMMA AppendKeys ==
  ASSUME NEW s \in Codes, NEW x \in Int
  PROVE  /\ Append(s, x) \in Codes
         /\ KeysOf(Append(s, x)) = KeysOf(s) \cup ({x} \cap HostKeys)
         /\ InOrder(s) /\ Ahead(KeysOf(s), {x} \cap HostKeys) => InOrder(Append(s, x))
<1>1. Append(s, x) = s \o <<x>>
  BY AppendIsConcat DEF Codes
<1> QED
  BY <1>1, OneKey, ConcatKeys

\* The first code of a sequence and the others.
LEMMA HeadKeys ==
  ASSUME NEW s \in Codes, s # <<>>
  PROVE  /\ Head(s) \in Int /\ Tail(s) \in Codes
         /\ KeysOf(s) = ({Head(s)} \cap HostKeys) \cup KeysOf(Tail(s))
         /\ InOrder(s) => InOrder(Tail(s))
                          /\ Ahead({Head(s)} \cap HostKeys, KeysOf(Tail(s)))
<1> DEFINE h == Head(s)
           t == Tail(s)
<1>1. /\ h \in Int /\ t \in Codes /\ Len(t) = Len(s) - 1 /\ Len(s) \in Nat \ {0}
      /\ \A i \in 1..Len(t) : t[i] = s[i + 1]
  BY HeadTailProperties, EmptySeq DEF Codes
<1>2. h = s[1]
  BY DEF Codes
<1> HIDE DEF h, t
<1>3. ASSUME NEW x PROVE x \in KeysOf(s) <=> x \in ({h} \cap HostKeys) \cup KeysOf(t)
  <2>1. ASSUME x \in KeysOf(s), x # h PROVE x \in KeysOf(t)
    <3>1. PICK i \in 1..Len(s) : s[i] = x
      BY <2>1, KeyAt
    <3>2. i - 1 \in 1..Len(t) /\ t[i - 1] = x
      BY <3>1, <2>1, <1>1, <1>2
    <3> QED
      BY <3>2, <2>1, <1>1, KeyAt
  <2>2. ASSUME x \in KeysOf(t) PROVE x \in KeysOf(s)
    <3>1. PICK i \in 1..Len(t) : t[i] = x
      BY <2>2, <1>1, KeyAt
    <3>2. i + 1 \in 1..Len(s) /\ s[i + 1] = x
      BY <3>1, <1>1
    <3> QED
      BY <3>2, <2>2, <1>1, KeyAt
  <2>3. ASSUME h \in HostKeys PROVE h \in KeysOf(s)
    <3>1. 1 \in 1..Len(s) /\ s[1] = h
      BY <1>1, <1>2
    <3> QED
      BY <3>1, <2>3, KeyAt
  <2>4. x \in KeysOf(s) => x \in HostKeys
    BY DEF KeysOf
  <2> QED
    BY <2>1, <2>2, <2>3, <2>4
<1>4. ASSUME InOrder(s) PROVE InOrder(t) /\ Ahead({h} \cap HostKeys, KeysOf(t))
  <2>1. ASSUME NEW i \in 1..Len(t), NEW j \in 1..Len(t), i < j,
               t[i] \in HostKeys, t[j] \in HostKeys
        PROVE  t[i] < t[j]
    <3>1. /\ i + 1 \in 1..Len(s) /\ j + 1 \in 1..Len(s) /\ i + 1 < j + 1
          /\ t[i] = s[i + 1] /\ t[j] = s[j + 1]
      BY <2>1, <1>1
    <3> QED
      BY <3>1, <2>1, <1>4, OrderAt
  <2>2. ASSUME NEW y \in KeysOf(t), h \in HostKeys PROVE h < y
    <3>1. PICK i \in 1..Len(t) : t[i] = y
      BY <2>2, <1>1, KeyAt
    <3>2. 1 \in 1..Len(s) /\ i + 1 \in 1..Len(s) /\ 1 < i + 1 /\ s[i + 1] = y
      BY <3>1, <1>1
    <3>3. y \in HostKeys
      BY <2>2 DEF KeysOf
    <3> QED
      BY <3>2, <3>3, <2>2, <1>2, <1>4, OrderAt
  <2> QED
    BY <2>1, <2>2, <1>1, OrderAt DEF Ahead
<1> QED
  BY <1>1, <1>3, <1>4 DEF h, t

(***************************************************************************)
(* The ring.                                                               *)
(***************************************************************************)
Places == 0 .. RingSize - 1

\* How many places of the ring are between t and h.
Gap(t, h) == IF t <= h THEN h - t ELSE h - t + RingSize

\* The keys of the ring with the places of slot.
From(slot, t, h) ==
  [i \in 1 .. (h - t) % RingSize |-> slot[(t + i - 1) % RingSize]]

LEMMA Remainder ==
  ASSUME NEW n \in Nat \ {0}, NEW x \in Int
  PROVE  /\ x % n \in 0 .. n - 1
         /\ x \in 0 .. n - 1 => x % n = x
         /\ x < 0 /\ 0 <= x + n => x % n = x + n
         /\ n <= x /\ x < n + n => x % n = x - n
<1>1. x % n \in 0 .. n - 1
  BY Z3
<1>2. x \in 0 .. n - 1 => x % n = x
  BY Z3
<1>3. x < 0 /\ 0 <= x + n => x % n = x + n
  BY Z3
<1>4. n <= x /\ x < n + n => x % n = x - n
  BY Z3
<1> QED
  BY <1>1, <1>2, <1>3, <1>4

LEMMA GapIs ==
  ASSUME NEW t \in Places, NEW h \in Places
  PROVE  /\ (h - t) % RingSize = Gap(t, h)
         /\ Gap(t, h) \in 0 .. RingSize - 1
         /\ Gap(t, t) = 0
<1>1. RingSize \in Nat \ {0}
  BY KeyboardAssumption
<1>2. h - t \in Int /\ t \in 0 .. RingSize - 1 /\ h \in 0 .. RingSize - 1
  BY <1>1 DEF Places
<1>3. CASE t <= h
  <2>1. h - t \in 0 .. RingSize - 1
    BY <1>1, <1>2, <1>3
  <2>2. (h - t) % RingSize = h - t
    BY <1>1, <1>2, <2>1, Remainder
  <2> QED
    BY <1>1, <1>2, <1>3, <2>1, <2>2 DEF Gap
<1>4. CASE ~(t <= h)
  <2>1. h - t < 0 /\ 0 <= (h - t) + RingSize /\ (h - t) + RingSize \in 0 .. RingSize - 1
    BY <1>1, <1>2, <1>4
  <2>2. (h - t) % RingSize = (h - t) + RingSize
    BY <1>1, <1>2, <2>1, Remainder
  <2> QED
    BY <1>1, <1>2, <1>4, <2>1, <2>2 DEF Gap
<1> QED
  BY <1>3, <1>4

LEMMA FollowingIs ==
  ASSUME NEW i \in Places
  PROVE  /\ Following(i) = IF i + 1 = RingSize THEN 0 ELSE i + 1
         /\ Following(i) \in Places
<1>1. RingSize \in Nat \ {0} /\ i + 1 \in Int
  BY KeyboardAssumption DEF Places
<1>2. (i + 1) % RingSize = IF i + 1 = RingSize THEN 0 ELSE i + 1
  <2>1. CASE i + 1 = RingSize
    BY <1>1, <2>1, Remainder
  <2>2. CASE i + 1 # RingSize
    <3>1. i + 1 \in 0 .. RingSize - 1
      BY <1>1, <2>2 DEF Places
    <3> QED
      BY <1>1, <2>2, <3>1, Remainder
  <2> QED
    BY <2>1, <2>2
<1> QED
  BY <1>1, <1>2 DEF Following, Places

\* Place number i from t on, and that it is not yet h.
LEMMA PlaceIs ==
  ASSUME NEW t \in Places, NEW h \in Places, NEW i \in 1 .. Gap(t, h)
  PROVE  (t + i - 1) % RingSize \in Places /\ (t + i - 1) % RingSize # h
<1>1. RingSize \in Nat \ {0} /\ t + i - 1 \in Int /\ Gap(t, h) \in 0 .. RingSize - 1
  BY KeyboardAssumption, GapIs DEF Places
<1>2. (t + i - 1) % RingSize \in 0 .. RingSize - 1
  BY <1>1, Remainder
<1>3. CASE t + i - 1 < RingSize
  <2>1. t + i - 1 \in 0 .. RingSize - 1
    BY <1>1, <1>3 DEF Places
  <2>2. (t + i - 1) % RingSize = t + i - 1
    BY <1>1, <2>1, Remainder
  <2> QED
    BY <1>1, <1>2, <1>3, <2>2 DEF Places, Gap
<1>4. CASE ~(t + i - 1 < RingSize)
  <2>1. RingSize <= t + i - 1 /\ t + i - 1 < RingSize + RingSize
    BY <1>1, <1>4 DEF Places
  <2>2. ASSUME NEW x \in Int, RingSize <= x, x < RingSize + RingSize
        PROVE  x % RingSize = x - RingSize
    BY <1>1, <2>2, Remainder
  <2>3. (t + i - 1) % RingSize = (t + i - 1) - RingSize
    BY <1>1, <2>1, <2>2
  <2> QED
    BY <1>1, <1>2, <1>4, <2>3 DEF Places, Gap
<1> QED
  BY <1>3, <1>4

\* Place number Gap(t, h) + 1 from t on is h.
LEMMA LastPlace ==
  ASSUME NEW t \in Places, NEW h \in Places
  PROVE  (t + (Gap(t, h) + 1) - 1) % RingSize = h
<1>1. RingSize \in Nat \ {0} /\ Gap(t, h) \in 0 .. RingSize - 1
  BY KeyboardAssumption, GapIs
<1>2. CASE t <= h
  <2>1. t + (Gap(t, h) + 1) - 1 = h /\ h \in 0 .. RingSize - 1 /\ h \in Int
    BY <1>1, <1>2 DEF Gap, Places
  <2> QED
    BY <1>1, <2>1, Remainder
<1>3. CASE ~(t <= h)
  <2>1. /\ t + (Gap(t, h) + 1) - 1 = h + RingSize /\ h + RingSize \in Int
        /\ RingSize <= h + RingSize /\ h + RingSize < RingSize + RingSize
    BY <1>1, <1>3 DEF Gap, Places
  <2>2. (h + RingSize) % RingSize = (h + RingSize) - RingSize
    BY <1>1, <2>1, Remainder
  <2> QED
    BY <1>1, <2>1, <2>2 DEF Places
<1> QED
  BY <1>2, <1>3

Slots == [Places -> Int]

LEMMA FromIs ==
  ASSUME NEW slot \in Slots, NEW t \in Places, NEW h \in Places
  PROVE  /\ From(slot, t, h) \in Codes
         /\ Len(From(slot, t, h)) = Gap(t, h)
         /\ \A i \in 1 .. Gap(t, h) :
              From(slot, t, h)[i] = slot[(t + i - 1) % RingSize]
<1>1. Gap(t, h) \in Nat /\ (h - t) % RingSize = Gap(t, h)
  BY GapIs, KeyboardAssumption
<1>2. \A i \in 1 .. Gap(t, h) : slot[(t + i - 1) % RingSize] \in Int
  BY PlaceIs DEF Slots
<1> QED
  BY <1>1, <1>2 DEF From, Codes

LEMMA FromNothing ==
  ASSUME NEW slot \in Slots, NEW h \in Places
  PROVE  From(slot, h, h) = <<>>
BY FromIs, GapIs DEF Codes

\* The store into the place of the head touches none of the keys before it.
LEMMA FromStored ==
  ASSUME NEW slot \in Slots, NEW t \in Places, NEW h \in Places, NEW x \in Int
  PROVE  From([slot EXCEPT ![h] = x], t, h) = From(slot, t, h)
<1> DEFINE new == [slot EXCEPT ![h] = x]
<1>1. \A i \in 1 .. (h - t) % RingSize :
        new[(t + i - 1) % RingSize] = slot[(t + i - 1) % RingSize]
  BY PlaceIs, GapIs DEF Slots
<1> QED
  BY <1>1 DEF From

\* The key published is one more at the end.
LEMMA FromPublished ==
  ASSUME NEW slot \in Slots, NEW t \in Places, NEW h \in Places, Following(h) # t
  PROVE  /\ Gap(t, Following(h)) = Gap(t, h) + 1
         /\ From(slot, t, Following(h)) = Append(From(slot, t, h), slot[h])
<1>1. Gap(t, Following(h)) = Gap(t, h) + 1
  BY FollowingIs, KeyboardAssumption DEF Gap, Places
<1> DEFINE s == From(slot, t, h)
           u == From(slot, t, Following(h))
           n == Gap(t, h)
<1>2. /\ u \in Codes /\ Len(u) = n + 1
      /\ \A i \in 1 .. n + 1 : u[i] = slot[(t + i - 1) % RingSize]
  BY <1>1, FromIs, FollowingIs
<1>3. /\ s \in Codes /\ Len(s) = n /\ n \in Nat
      /\ \A i \in 1 .. n : s[i] = slot[(t + i - 1) % RingSize]
  BY FromIs, GapIs, KeyboardAssumption
<1>4. u[n + 1] = slot[h] /\ slot[h] \in Int
  <2>1. n + 1 \in 1 .. n + 1
    BY <1>3
  <2> QED
    BY <1>2, <2>1, LastPlace DEF Slots
<1> HIDE DEF s, u, n
<1>5. /\ Append(s, slot[h]) \in Codes /\ Len(Append(s, slot[h])) = n + 1
      /\ \A i \in 1 .. n : Append(s, slot[h])[i] = s[i]
      /\ Append(s, slot[h])[n + 1] = slot[h]
  BY <1>3, <1>4, AppendProperties DEF Codes
<1>6. \A i \in 1 .. n + 1 : u[i] = Append(s, slot[h])[i]
  <2>1. ASSUME NEW i \in 1 .. n + 1 PROVE u[i] = Append(s, slot[h])[i]
    <3>1. CASE i = n + 1
      BY <3>1, <1>4, <1>5
    <3>2. CASE i # n + 1
      <4>1. i \in 1 .. n
        BY <3>2, <1>3
      <4> QED
        BY <4>1, <2>1, <1>2, <1>3, <1>5
    <3> QED
      BY <3>1, <3>2
  <2> QED
    BY <2>1
<1>7. u = Append(s, slot[h])
  BY <1>2, <1>5, <1>6, SeqEqual DEF Codes
<1> QED
  BY <1>1, <1>7 DEF s, u

(***************************************************************************)
(* The types of the keyboard's own state and of the ring.                  *)
(***************************************************************************)
Level == {"Z", "L", "H"}

Keyboards ==
  [queue : Codes, armed : BOOLEAN, waiting : BOOLEAN, deliver : BOOLEAN,
   resetPending : BOOLEAN, delay : Nat, ready : Level, ack : Level,
   pb6 : Level, pa : Int]

Wires == [irq : Level, ready : Level, ack : Level]
Rings == [slot : Slots, head : Places, tail : Places, taken : Places,
          pc : {"idle", "publish"}]

LineFields == {"pa", "pb", "lo", "hi", "data"}
LinesShape(l) == l = [x \in LineFields |-> l[x]] /\ l.pb \in [Bits -> Level]

HistFields == {"pressed", "sent", "delivered", "received", "queued", "writes",
               "pure", "early"}
HistShape(h) ==
  /\ h = [x \in HistFields |-> h[x]]
  /\ h.pressed \in 0 .. MaxHost /\ h.sent \subseteq 1 .. h.pressed
  /\ h.delivered \in Codes /\ h.queued \in Nat

ProgFields == {"pc", "a", "last", "irq", "request", "card", "read"}

KeyboardTypes ==
  /\ kbd \in Keyboards /\ wire \in Wires /\ ring \in Rings
  /\ LinesShape(lines) /\ HistShape(hist)
  /\ pc \in {"program", "kbd", "took"}

LEMMA InitTypes == Init => KeyboardTypes
<1> SUFFICES ASSUME Init PROVE KeyboardTypes
  OBVIOUS
<1>1. kbd \in Keyboards /\ wire \in Wires
  BY EmptyKeys DEF Init, KbdInit, Keyboards, Wires, Level, Zero
<1>2. 0 \in Places
  BY KeyboardAssumption DEF Places
<1>3. ring \in Rings
  BY <1>2 DEF Init, Rings, Slots, Places
<1>4. LinesShape(lines)
  BY DEF Init, LinesInit, LinesShape, LineFields, Level
<1>5. HistShape(hist)
  BY EmptyKeys, KeyboardAssumption DEF Init, HistShape, HistFields
<1> QED
  BY <1>1, <1>3, <1>4, <1>5 DEF KeyboardTypes, Init

\* What the chip and the multiplexers do to the lines.
LEMMA WrittenShape ==
  ASSUME NEW p, NEW l, LinesShape(l), NEW a
  PROVE  LinesShape(LinesWritten(p, l, a))
<1>1. \A v : Levels(v) \in [Bits -> Level]
  BY DEF Levels, Level
<1> DEFINE q == PpiWritten(p, a)
           d == IF a.port \in {"C", "mode", "bit"} THEN DriveC(q, l) ELSE l
<1>2. LinesShape(d)
  BY DEF DriveC, LinesShape, LineFields
<1> HIDE DEF q, d
<1>3. LinesShape([d EXCEPT !.pa = IF a.port \in {"A", "mode"} /\ ~q.aIn THEN q.a ELSE @,
                           !.pb = IF a.port \in {"B", "mode"} /\ ~q.bIn
                                  THEN Levels(q.b) ELSE @])
  BY <1>1, <1>2 DEF LinesShape, LineFields
<1> QED
  BY <1>3 DEF LinesWritten, q, d

LEMMA ChipShape ==
  ASSUME NEW p, NEW l, LinesShape(l), NEW a, NEW rst
  PROVE  LinesShape(Switches(LinesStep(p, l, a, rst), l))
<1> DEFINE r == IF rst /\ ~p.reset THEN PpiReset(p) ELSE p
           m == IF Executes(r, a) THEN LinesWritten(r, l, a) ELSE l
           n == IF a.kind = "read" /\ Starts(p, a)
                THEN [m EXCEPT !.data = ReadPort(r, m, a.port)] ELSE m
           o == Mux1(n, l)
<1>1. LinesShape(m)
  BY WrittenShape
<1>2. LinesShape(n)
  <2> HIDE DEF m, r
  <2> QED
    BY <1>1 DEF LinesShape, LineFields
<1>3. LinesStep(p, l, a, rst) = n
  BY DEF LinesStep
<1> HIDE DEF n
<1>4. LinesShape(o)
  BY <1>2 DEF Mux1, LinesShape, LineFields
<1> HIDE DEF o
<1>5. LinesShape(Mux2(o, l))
  BY <1>4 DEF Mux2, LinesShape, LineFields
<1> QED
  BY <1>3, <1>5 DEF Switches, o

\* The program touches neither the ring nor what was sent and delivered; of
\* the keyboard it touches the queue only, at its end.
ProgramKeeps ==
  /\ ring' = ring /\ pc = "program" /\ pc' = "kbd"
  /\ LinesShape(lines') /\ HistShape(hist') /\ wire' \in Wires
  /\ wire'.irq = wire.irq
  /\ hist'.delivered = hist.delivered /\ hist'.sent = hist.sent
  /\ hist'.pressed = hist.pressed
  /\ \/ kbd' = kbd
     \/ kbd' = [kbd EXCEPT !.queue = Append(@, MaxHost + hist.queued + 1)]

LEMMA ProgramKept ==
  ASSUME KeyboardTypes, Program
  PROVE  ProgramKeeps
<1>0. /\ kbd \in Keyboards /\ wire \in Wires /\ ring \in Rings
      /\ LinesShape(lines) /\ HistShape(hist)
  BY DEF KeyboardTypes
<1>1. ASSUME NEW a, NEW rst, NEW next, ChipCycle(a, rst, next)
      PROVE  LinesShape(lines') /\ kbd' = kbd /\ ring' = ring /\ pc' = "kbd"
  <2>1. lines' = Switches(LinesStep(ppi, lines, a, rst), lines)
    BY <1>1 DEF ChipCycle
  <2> QED
    BY <1>0, <1>1, <2>1, ChipShape DEF ChipCycle
<1>2. Free => pc = "program"
  BY DEF Free
<1>3. CASE SetUp
  BY <1>0, <1>1, <1>2, <1>3 DEF SetUp, Access, ProgramKeeps
<1>4. CASE Finish
  BY <1>0, <1>1, <1>4 DEF Finish, ProgramKeeps
<1>5. /\ Counted => /\ HistShape(hist') /\ hist'.delivered = hist.delivered
                    /\ hist'.sent = hist.sent /\ hist'.pressed = hist.pressed
      /\ MayWrite => pc = "program"
  BY <1>0, <1>2 DEF Counted, HistShape, HistFields, MayWrite
<1>6. CASE WritePortB
  BY <1>0, <1>1, <1>5, <1>6 DEF WritePortB, Access, ProgramKeeps
<1>7. CASE RestorePortB
  BY <1>0, <1>1, <1>2, <1>7 DEF RestorePortB, Access, ProgramKeeps
<1>8. CASE HoldPortB
  BY <1>0, <1>1, <1>2, <1>8 DEF HoldPortB, Wait, ProgramKeeps
<1>9. CASE ReadAPort
  BY <1>0, <1>1, <1>5, <1>9 DEF ReadAPort, Access, ProgramKeeps
<1>10. CASE WriteOther
  BY <1>0, <1>1, <1>5, <1>10 DEF WriteOther, Access, ProgramKeeps
<1>11. CASE ResetPulse
  BY <1>0, <1>1, <1>5, <1>11 DEF ResetPulse, ProgramKeeps
<1>12. CASE Enqueue
  <2>1. HistShape(hist') /\ hist'.delivered = hist.delivered
        /\ hist'.sent = hist.sent /\ hist'.pressed = hist.pressed
    <3>1. hist' = [hist EXCEPT !.queued = @ + 1, !.early = @ /\ wire.ready # "H"]
      BY <1>12 DEF Enqueue
    <3>2. ASSUME NEW e, NEW h, h = [hist EXCEPT !.queued = @ + 1, !.early = e]
          PROVE  /\ HistShape(h) /\ h.delivered = hist.delivered
                 /\ h.sent = hist.sent /\ h.pressed = hist.pressed
      <4>1. /\ hist = [x \in HistFields |-> hist[x]] /\ hist.queued \in Nat
        BY <1>0 DEF HistShape
      <4>2. h = [x \in HistFields |-> h[x]] 
        BY <4>1, <3>2 
      <4>3. h.queued = hist.queued + 1
        BY <4>1, <3>2 DEF HistFields
      <4>4. /\ h.delivered = hist.delivered /\ h.sent = hist.sent
            /\ h.pressed = hist.pressed
        BY <4>1, <3>2 DEF HistFields
      <4> QED
        BY <1>0, <4>1, <4>2, <4>3, <4>4 DEF HistShape
    <3> QED
      BY <3>1, <3>2
  <2>2. /\ pc = "program" /\ pc' = "kbd" /\ ring' = ring /\ lines' = lines /\ wire' = wire
    BY <1>2, <1>12 DEF Enqueue
  <2>3. kbd' = [kbd EXCEPT !.queue = Append(@, MaxHost + hist.queued + 1)]
    BY <1>12 DEF Enqueue
  <2> QED
    BY <1>0, <2>1, <2>2, <2>3 DEF ProgramKeeps
<1>13. CASE SetReady
  <2>1. wire' \in Wires /\ wire'.irq = wire.irq
    BY <1>0, <1>13 DEF SetReady, Wires, Level
  <2>2. hist' = hist /\ Free /\ ChipCycle(NoAccess, FALSE, prog)
    BY <1>13 DEF SetReady
  <2> QED
    BY <1>0, <1>1, <1>2, <2>1, <2>2 DEF ProgramKeeps
<1>14. CASE Handler
  BY <1>0, <1>1, <1>2, <1>14 DEF Handler, Access, ProgramKeeps
<1>15. CASE ClearKey
  <2>1. HistShape(hist') /\ hist'.delivered = hist.delivered
        /\ hist'.sent = hist.sent /\ hist'.pressed = hist.pressed
    BY <1>0, <1>15 DEF ClearKey, HistShape, HistFields
  <2>2. wire' = wire /\ pc = "program"
    BY <1>15, <1>2 DEF ClearKey, Access
  <2>3. LinesShape(lines') /\ kbd' = kbd /\ ring' = ring /\ pc' = "kbd"
    BY <1>1, <1>15 DEF ClearKey, Access
  <2> QED
    BY <1>0, <2>1, <2>2, <2>3 DEF ProgramKeeps
<1>16. CASE EnableKey
  BY <1>0, <1>1, <1>2, <1>16 DEF EnableKey, Access, ProgramKeeps
<1>17. CASE AckKey
  <2>1. wire' \in Wires /\ wire'.irq = wire.irq
    BY <1>0, <1>17 DEF AckKey, Wires, Level
  <2>2. hist' = hist /\ Free /\ ChipCycle(NoAccess, FALSE, [prog EXCEPT !.pc = "main"])
    BY <1>17 DEF AckKey
  <2> QED
    BY <1>0, <1>1, <1>2, <2>1, <2>2 DEF ProgramKeeps
<1>18. CASE IdleCycle
  BY <1>0, <1>1, <1>2, <1>18 DEF IdleCycle, Wait, ProgramKeeps
<1> QED
  BY <1>3, <1>4, <1>6, <1>7, <1>8, <1>9, <1>10, <1>11, <1>12, <1>13, <1>14,
     <1>15, <1>16, <1>17, <1>18 DEF Program

(***************************************************************************)
(* The keyboard's cycle, part by part.                                     *)
(***************************************************************************)
LEMMA ResetIs ==
  ASSUME KeyboardTypes, NEW k \in Keyboards, NEW r, r = KbdReset(k)
  PROVE  /\ r \in Keyboards /\ r.deliver = k.deliver /\ r.waiting = k.waiting
         /\ r.queue = k.queue \/ r.queue = <<Reset>> \o k.queue
         /\ k.armed => r.armed
         /\ r.delay = k.delay \/ r.delay = ResetDelay
<1>1. k.queue \in Codes
  BY DEF Keyboards
<1>2. <<Reset>> \o k.queue \in Codes
  BY <1>1, OneKey, ConcatKeys, KeyTypes
<1>3. ResetDelay \in Nat
  BY KeyboardAssumption
<1> DEFINE p == k.resetPending \/ (lines.pb[6] = "L" /\ k.pb6 = "H")
<1>4. CASE p /\ Rises(lines.pb[6], k.pb6)
  <2>1. r = [k EXCEPT !.resetPending = FALSE, !.queue = <<Reset>> \o @,
                      !.armed = TRUE, !.delay = ResetDelay]
    BY <1>4 DEF KbdReset
  <2> QED
    BY <2>1, <1>2, <1>3 DEF Keyboards
<1>5. CASE ~(p /\ Rises(lines.pb[6], k.pb6))
  <2>1. r = [k EXCEPT !.resetPending = p]
    BY <1>5 DEF KbdReset
  <2>2. p \in BOOLEAN
    OBVIOUS
  <2> HIDE DEF p
  <2> QED
    BY <2>1, <2>2 DEF Keyboards
<1> QED
  BY <1>4, <1>5

LEMMA CountdownIs ==
  ASSUME NEW k \in Keyboards, NEW r, r = Countdown(k)
  PROVE  /\ r \in Keyboards /\ r.queue = k.queue /\ r.waiting = k.waiting
         /\ k.armed => r.armed
         /\ r.deliver => k.deliver \/ (k.delay = 1 /\ r.armed)
<1>1. CASE k.delay = 0
  BY <1>1 DEF Countdown
<1>2. CASE k.delay # 0
  <2> DEFINE d == k.deliver \/ k.delay = 1
             m == k.armed \/ k.delay = 1
  <2>1. r = [k EXCEPT !.delay = k.delay - 1, !.deliver = d, !.armed = m]
    BY <1>2 DEF Countdown
  <2>2. /\ d \in BOOLEAN /\ m \in BOOLEAN
        /\ d => k.deliver \/ (k.delay = 1 /\ m)
        /\ k.armed => m
    OBVIOUS
  <2>3. k.delay - 1 \in Nat
    BY <1>2 DEF Keyboards
  <2> HIDE DEF d, m
  <2> QED
    BY <2>1, <2>2, <2>3 DEF Keyboards
<1> QED
  BY <1>1, <1>2

LEMMA DeliveredIs ==
  ASSUME NEW k \in Keyboards, NEW p, p = Delivered(k)
  PROVE  /\ p \in Keyboards
         /\ p.queue = IF Delivers(k) THEN Tail(k.queue) ELSE k.queue
         /\ p.armed = k.armed /\ p.deliver = k.deliver
         /\ p.waiting = (k.waiting \/ Delivers(k))
<1>1. k.queue \in Codes
  BY DEF Keyboards
<1>2. CASE Delivers(k)
  <2>1. Head(k.queue) \in Int /\ Tail(k.queue) \in Codes
    BY <1>1, <1>2, HeadKeys DEF Delivers
  <2>2. p = [k EXCEPT !.pa = Head(k.queue), !.queue = Tail(@), !.waiting = TRUE]
    BY <1>2 DEF Delivered
  <2> QED
    BY <1>2, <2>1, <2>2 DEF Keyboards
<1>3. CASE ~Delivers(k)
  BY <1>3 DEF Delivered, Keyboards
<1> QED
  BY <1>2, <1>3

LEMMA PresentedIs ==
  ASSUME NEW k \in Keyboards, NEW p, p = Presented(k)
  PROVE  /\ p \in Keyboards
         /\ p.queue = IF Presents(k) THEN Tail(k.queue) ELSE k.queue
         /\ k.armed => p.armed
         /\ p.deliver => k.deliver /\ ~k.armed
         /\ p.armed = (k.armed \/ Arms(k))
<1> DEFINE d == Delivered(k)
<1>1. /\ d \in Keyboards
      /\ d.queue = IF Delivers(k) THEN Tail(k.queue) ELSE k.queue
      /\ d.armed = k.armed /\ d.deliver = k.deliver
  BY DeliveredIs
<1> HIDE DEF d
<1>2. CASE Arms(k)
  <2>1. p = [d EXCEPT !.armed = TRUE] /\ ~k.armed
    BY <1>2 DEF Presented, Arms, d
  <2>2. Presents(k) <=> Delivers(k)
    BY <1>2 DEF Presents
  <2>3. /\ p \in Keyboards /\ p.queue = d.queue /\ p.armed
        /\ p.deliver = d.deliver
    BY <1>1, <2>1 DEF Keyboards
  <2> QED
    BY <1>1, <1>2, <2>1, <2>2, <2>3 DEF Keyboards
<1>3. CASE ~Arms(k) /\ k.armed /\ k.deliver
  <2>1. p = [d EXCEPT !.deliver = FALSE]
    BY <1>3 DEF Presented, d
  <2>2. Presents(k) <=> Delivers(k)
    BY <1>3 DEF Presents
  <2>3. /\ p \in Keyboards /\ p.queue = d.queue /\ p.armed = d.armed
        /\ ~p.deliver
    BY <1>1, <2>1 DEF Keyboards
  <2> QED
    BY <1>1, <1>3, <2>2, <2>3 DEF Keyboards
<1>4. CASE ~Arms(k) /\ ~(k.armed /\ k.deliver)
  <2>1. p = k /\ ~Presents(k)
    BY <1>4 DEF Presented, Presents
  <2> QED
    BY <1>4, <2>1 DEF Keyboards
<1> QED
  BY <1>2, <1>3, <1>4

LEMMA AcknowledgedIs ==
  ASSUME NEW k \in Keyboards, NEW n, n = Acknowledged(k)
  PROVE  n \in Keyboards /\ n.queue = k.queue /\ n.armed = k.armed /\ n.deliver /\ ~n.waiting
<1>1. n = [k EXCEPT !.pa = 0, !.waiting = FALSE, !.deliver = TRUE]
  BY DEF Acknowledged, Zero
<1>2. n \in Keyboards
  <2> DEFINE z == [k EXCEPT !.pa = 0]
  <2>1. z \in Keyboards
    BY DEF Keyboards
  <2>2. n = [z EXCEPT !.waiting = FALSE, !.deliver = TRUE]
    BY <1>1 DEF Keyboards
  <2> HIDE DEF z
  <2> QED
    BY <2>1, <2>2 DEF Keyboards
<1>3. n.queue = k.queue /\ n.armed = k.armed
  BY <1>1 DEF Keyboards
<1>4. n.deliver
  BY <1>1 DEF Keyboards
<1>5. ~n.waiting
  BY <1>1 DEF Keyboards
<1> QED
  BY <1>2, <1>3, <1>4, <1>5

\* What the cycle does to the queue, to port A's codes and to IRQ1.
CycleEffect(r) ==
  /\ r.queue = kbd.queue \/ r.queue = <<Reset>> \o kbd.queue
  /\ kbd' \in Keyboards /\ wire' \in Wires /\ LinesShape(lines')
  /\ kbd'.queue = IF Presents(r) THEN Tail(r.queue) ELSE r.queue
  /\ hist' = [hist EXCEPT !.delivered =
                IF Presents(r) THEN Append(@, Head(r.queue)) ELSE @]
  /\ Presents(r) => Delivers(r) /\ r.queue \in Codes
  /\ ~kbd'.armed => ~kbd.armed /\ wire'.irq = wire.irq
  /\ ~kbd'.armed /\ kbd'.deliver => kbd.deliver
  /\ kbd'.deliver => wire'.irq = "L" \/ (kbd.deliver /\ ~kbd.armed)
  /\ Presents(r) => ~kbd.armed \/ kbd.deliver \/ kbd.delay = 1

LEMMA CycleDoes ==
  ASSUME KeyboardTypes, KeyboardCycle
  PROVE  \E r : CycleEffect(r)
<1> DEFINE e == KbdReset(kbd)
           r == Countdown(e)
           p == Presented(r)
           c == IF r.armed /\ lines.pb[7] = "H" THEN [p EXCEPT !.pa = Zero] ELSE p
           acked == r.armed /\ Rises(wire.ack, r.ack) /\ c.waiting
           a == IF acked THEN Acknowledged(c) ELSE c
<1>1. /\ kbd \in Keyboards /\ wire \in Wires /\ LinesShape(lines) /\ HistShape(hist)
  BY DEF KeyboardTypes
<1>2. /\ kbd' = [a EXCEPT !.ready = wire.ready, !.ack = wire.ack,
                          !.pb6 = lines.pb[6]]
      /\ wire' = [wire EXCEPT
                   !.irq = IF acked THEN (IF a.waiting THEN "H" ELSE "L")
                           ELSE IF Presents(r) THEN "H" ELSE @,
                   !.ack = IF acked THEN "L" ELSE @]
      /\ lines' = IF r.armed THEN [lines EXCEPT !.pa = a.pa] ELSE lines
      /\ hist' = [hist EXCEPT !.delivered =
                    IF Len(a.queue) < Len(r.queue)
                    THEN Append(@, Head(r.queue)) ELSE @]
  BY DEF KeyboardCycle
<1>3. /\ e \in Keyboards /\ e.deliver = kbd.deliver
      /\ e.queue = kbd.queue \/ e.queue = <<Reset>> \o kbd.queue
      /\ kbd.armed => e.armed
      /\ e.delay = kbd.delay \/ e.delay = ResetDelay
  BY <1>1, ResetIs
<1> HIDE DEF e
<1>4. /\ r \in Keyboards /\ r.queue = e.queue
      /\ e.armed => r.armed
      /\ r.deliver => e.deliver \/ (e.delay = 1 /\ r.armed)
  BY <1>3, CountdownIs
<1> HIDE DEF r
<1>5. /\ p \in Keyboards
      /\ p.queue = IF Presents(r) THEN Tail(r.queue) ELSE r.queue
      /\ p.deliver => r.deliver /\ ~r.armed
      /\ p.armed = (r.armed \/ Arms(r))
  BY <1>4, PresentedIs
<1> HIDE DEF p
<1>6. /\ c \in Keyboards /\ c.queue = p.queue /\ c.deliver = p.deliver
      /\ c.armed = p.armed
  <2>1. CASE r.armed /\ lines.pb[7] = "H"
    BY <1>5, <2>1 DEF Keyboards, Zero
  <2>2. CASE ~(r.armed /\ lines.pb[7] = "H")
    BY <1>5, <2>2
  <2> QED
    BY <2>1, <2>2
<1> HIDE DEF c
<1>7. /\ a \in Keyboards /\ a.queue = c.queue /\ a.armed = c.armed
      /\ acked => a.deliver /\ ~a.waiting
      /\ ~acked => a.deliver = c.deliver
      /\ acked => r.armed
  <2> DEFINE n == Acknowledged(c)
  <2>1. CASE acked
    <3>1. n \in Keyboards /\ n.queue = c.queue /\ n.armed = c.armed /\ n.deliver /\ ~n.waiting
      BY <1>6, AcknowledgedIs
    <3>2. a = n /\ r.armed
      BY <2>1
    <3> HIDE DEF n, a, acked
    <3> QED
      BY <2>1, <3>1, <3>2
  <2>2. CASE ~acked
    BY <1>6, <2>2
  <2> QED
    BY <2>1, <2>2
<1> HIDE DEF acked, a
<1>8. wire.ready \in Level /\ wire.ack \in Level /\ lines.pb[6] \in Level
  BY <1>1, PPIAssumption DEF Wires, LinesShape
<1>9. /\ kbd' \in Keyboards /\ kbd'.queue = a.queue /\ kbd'.armed = a.armed
      /\ kbd'.deliver = a.deliver
  BY <1>2, <1>7, <1>8 DEF Keyboards
<1>10. /\ wire' \in Wires
       /\ acked => wire'.irq = "L"
       /\ ~acked => wire'.irq = IF Presents(r) THEN "H" ELSE wire.irq
  BY <1>1, <1>2, <1>7 DEF Wires, Level
<1>11. LinesShape(lines')
  BY <1>1, <1>2 DEF LinesShape, LineFields
<1>12. r.queue \in Codes /\ kbd.queue \in Codes
  BY <1>1, <1>4 DEF Keyboards
<1>13. Presents(r) => Delivers(r) /\ (Arms(r) \/ (r.armed /\ r.deliver))
  BY DEF Presents
<1>14. Len(a.queue) < Len(r.queue) <=> Presents(r)
  <2>1. CASE Presents(r)
    <3>1. a.queue = Tail(r.queue) /\ r.queue # <<>>
      BY <2>1, <1>5, <1>6, <1>7, <1>13 DEF Delivers
    <3>2. Len(Tail(r.queue)) = Len(r.queue) - 1 /\ Len(r.queue) \in Nat
      BY <3>1, <1>12, HeadTailProperties, LenProperties DEF Codes
    <3> QED
      BY <2>1, <3>1, <3>2
  <2>2. CASE ~Presents(r)
    <3>1. a.queue = r.queue /\ Len(r.queue) \in Nat
      BY <2>2, <1>5, <1>6, <1>7, <1>12 DEF Codes
    <3> QED
      BY <2>2, <3>1
  <2> QED
    BY <2>1, <2>2
<1>15. hist' = [hist EXCEPT !.delivered =
                  IF Presents(r) THEN Append(@, Head(r.queue)) ELSE @]
  BY <1>2, <1>14
<1>16. kbd.armed \in BOOLEAN /\ r.armed \in BOOLEAN /\ a.armed \in BOOLEAN
       /\ kbd.delay \in Nat /\ kbd.deliver \in BOOLEAN
  BY <1>1, <1>4, <1>7 DEF Keyboards
<1>17. ResetDelay # 1
  BY KeyboardAssumption
<1>18. Presents(r) => ~kbd.armed \/ kbd.deliver \/ kbd.delay = 1
  BY <1>3, <1>4, <1>13, <1>17 DEF Arms
<1>19. ~kbd'.armed => ~kbd.armed /\ ~acked /\ ~Presents(r)
  BY <1>3, <1>4, <1>5, <1>6, <1>7, <1>9, <1>13
<1>20. ~kbd'.armed /\ kbd'.deliver => kbd.deliver
  BY <1>3, <1>4, <1>5, <1>6, <1>7, <1>9, <1>19
<1>21. kbd'.deliver /\ ~acked => ~r.armed
  BY <1>5, <1>6, <1>7, <1>9
<1>22. kbd'.deliver => wire'.irq = "L" \/ (kbd.deliver /\ ~kbd.armed)
  BY <1>3, <1>4, <1>5, <1>6, <1>7, <1>9, <1>10, <1>21
<1> QED
  BY <1>3, <1>4, <1>5, <1>6, <1>7, <1>9, <1>10, <1>11, <1>12, <1>13, <1>15, <1>18,
     <1>19, <1>20, <1>22 DEF CycleEffect

(***************************************************************************)
(* IRQ1 is low when the next code is due.                                  *)
(***************************************************************************)
EdgeInv ==
  /\ ~kbd.armed => wire.irq = "L" /\ ~kbd.deliver
  /\ kbd.deliver => wire.irq = "L"

\* The other steps of the keyboard and those of the host.
LEMMA TakeDoes ==
  ASSUME KeyboardTypes, TakeKeys
  PROVE  /\ KeyboardTypes'
         /\ kbd' = [kbd EXCEPT !.queue = @ \o From(ring.slot, ring.tail, ring.head)]
         /\ ring' = [ring EXCEPT !.taken = ring.head]
<1>1. /\ kbd \in Keyboards /\ ring \in Rings
  BY DEF KeyboardTypes
<1>2. /\ kbd' = [kbd EXCEPT !.queue = @ \o From(ring.slot, ring.tail, ring.head)]
      /\ ring' = [ring EXCEPT !.taken = ring.head]
      /\ pc' = "took" /\ lines' = lines /\ wire' = wire /\ hist' = hist
  BY DEF TakeKeys, KeysFrom, From
<1>3. kbd.queue \o From(ring.slot, ring.tail, ring.head) \in Codes
  BY <1>1, FromIs, ConcatKeys DEF Keyboards, Rings
<1>4. kbd' \in Keyboards
  BY <1>1, <1>2, <1>3 DEF Keyboards
<1>5. ring' \in Rings
  BY <1>1, <1>2 DEF Rings
<1> QED
  BY <1>2, <1>4, <1>5 DEF KeyboardTypes

LEMMA FreeDoes ==
  ASSUME KeyboardTypes, FreeKeys
  PROVE  /\ KeyboardTypes' /\ hist' = hist
         /\ pc = "took" /\ pc' = "program"
         /\ ring' = [ring EXCEPT !.tail = ring.taken]
         /\ kbd'.queue = kbd.queue /\ kbd'.armed /\ wire'.irq = "L"
<1>1. /\ kbd \in Keyboards /\ ring \in Rings /\ wire \in Wires /\ LinesShape(lines)
  BY DEF KeyboardTypes
<1>2. /\ kbd' = [kbd EXCEPT !.waiting = FALSE, !.armed = TRUE, !.deliver = TRUE,
                            !.ready = wire.ready, !.ack = wire.ack,
                            !.pb6 = lines.pb[6]]
      /\ ring' = [ring EXCEPT !.tail = ring.taken]
      /\ wire' = [wire EXCEPT !.irq = "L"]
      /\ pc = "took" /\ pc' = "program" /\ lines' = lines /\ hist' = hist
  BY DEF FreeKeys
<1>3. wire.ready \in Level /\ wire.ack \in Level /\ lines.pb[6] \in Level
  BY <1>1, PPIAssumption DEF Wires, LinesShape
<1>4. kbd' \in Keyboards /\ kbd'.queue = kbd.queue /\ kbd'.armed
  <2> DEFINE z == [kbd EXCEPT !.waiting = FALSE, !.armed = TRUE, !.deliver = TRUE]
  <2>1. z \in Keyboards /\ z.queue = kbd.queue /\ z.armed
    BY <1>1 DEF Keyboards
  <2>2. kbd' = [z EXCEPT !.ready = wire.ready, !.ack = wire.ack, !.pb6 = lines.pb[6]]
    BY <1>1, <1>2 DEF Keyboards
  <2> HIDE DEF z
  <2> QED
    BY <2>1, <2>2, <1>3 DEF Keyboards
<1>5. ring' \in Rings
  BY <1>1, <1>2 DEF Rings
<1>6. wire' \in Wires /\ wire'.irq = "L"
  BY <1>1, <1>2 DEF Wires, Level
<1> QED
  BY <1>1, <1>2, <1>4, <1>5, <1>6 DEF KeyboardTypes

LEMMA CycleTypes ==
  ASSUME KeyboardTypes, KeyboardCycle
  PROVE  KeyboardTypes' /\ ring' = ring /\ pc = "kbd" /\ pc' = "program"
<1>1. PICK r : CycleEffect(r)
  BY CycleDoes
<1>2. ring' = ring /\ pc = "kbd" /\ pc' = "program"
  BY DEF KeyboardCycle
<1>3. HistShape(hist')
  <2>1. HistShape(hist)
    BY DEF KeyboardTypes
  <2>2. CASE Presents(r)
    <3>1. Append(hist.delivered, Head(r.queue)) \in Codes
      BY <1>1, <2>1, <2>2, HeadKeys, AppendKeys DEF CycleEffect, Delivers, HistShape
    <3>2. hist' = [hist EXCEPT !.delivered = Append(@, Head(r.queue))]
      BY <1>1, <2>2 DEF CycleEffect
    <3> HIDE DEF CycleEffect
    <3> QED
      BY <2>1, <3>1, <3>2 DEF HistShape, HistFields
  <2>3. CASE ~Presents(r)
    <3>1. hist' = [hist EXCEPT !.delivered = @]
      BY <1>1, <2>3 DEF CycleEffect
    <3> QED
      BY <2>1, <3>1 DEF HistShape, HistFields
  <2> QED
    BY <2>2, <2>3
<1> QED
  BY <1>1, <1>2, <1>3 DEF CycleEffect, KeyboardTypes

LEMMA InjectDoes ==
  ASSUME KeyboardTypes, HostInject
  PROVE  /\ KeyboardTypes' /\ ring.pc = "idle"
         /\ UNCHANGED <<kbd, wire, lines, pc>>
         /\ hist'.delivered = hist.delivered /\ hist'.sent = hist.sent
         /\ hist'.pressed = hist.pressed + 1
         /\ ring' = IF Publishes
                    THEN [ring EXCEPT !.slot = [@ EXCEPT ![ring.head] = hist.pressed + 1],
                                      !.pc = "publish"]
                    ELSE ring
<1>1. ring \in Rings /\ HistShape(hist)
  BY DEF KeyboardTypes
<1>2. /\ ring.pc = "idle" /\ hist.pressed < MaxHost
      /\ UNCHANGED <<kbd, wire, lines, pc>>
      /\ hist' = [hist EXCEPT !.pressed = @ + 1, !.pure = FALSE]
  BY DEF HostInject
<1>3. ring' = IF Publishes
              THEN [ring EXCEPT !.slot = [@ EXCEPT ![ring.head] = hist.pressed + 1],
                                !.pc = "publish"]
              ELSE ring
  BY DEF HostInject
<1>4. /\ hist' = [x \in HistFields |-> hist'[x]]
      /\ hist'.delivered = hist.delivered /\ hist'.sent = hist.sent
      /\ hist'.pressed = hist.pressed + 1 /\ hist'.queued = hist.queued
  BY <1>1, <1>2 DEF HistShape, HistFields
<1>5. hist.pressed \in 0 .. MaxHost /\ hist.sent \subseteq 1 .. hist.pressed /\ MaxHost \in Nat
  BY <1>1, KeyboardAssumption DEF HistShape
<1>6. hist'.pressed \in 0 .. MaxHost /\ hist'.sent \subseteq 1 .. hist'.pressed
  BY <1>2, <1>4, <1>5
<1>7. HistShape(hist')
  BY <1>1, <1>4, <1>6 DEF HistShape
<1>8. ring' \in Rings
  <2>1. [ring.slot EXCEPT ![ring.head] = hist.pressed + 1] \in Slots
    BY <1>1, <1>5 DEF Rings, Slots
  <2> QED
    BY <1>1, <1>3, <2>1 DEF Rings
<1> QED
  BY <1>2, <1>3, <1>4, <1>7, <1>8 DEF KeyboardTypes

\* Where the ring's indices are, and what is in the place to be published.
RingInv ==
  /\ pc = "took" =>
       Gap(ring.tail, ring.taken) + Gap(ring.taken, ring.head) = Gap(ring.tail, ring.head)
  /\ ring.pc = "publish" =>
       /\ Following(ring.head) # ring.tail
       /\ ring.slot[ring.head] = hist.pressed
       /\ hist.pressed \in HostKeys /\ hist.pressed \notin hist.sent

\* The keys delivered, those in the queue and those in the ring.
StreamInv ==
  LET d == hist.delivered
      q == kbd.queue
      k == InRing
  IN /\ InOrder(d) /\ InOrder(q) /\ InOrder(k)
     /\ Ahead(KeysOf(d), KeysOf(q)) /\ Ahead(KeysOf(d), KeysOf(k))
     /\ Ahead(KeysOf(q), KeysOf(k))
     /\ KeysOf(d) \cup KeysOf(q) \cup KeysOf(k) = hist.sent

KeyboardInv == KeyboardTypes /\ EdgeInv /\ RingInv /\ StreamInv

\* The start of what is in the ring.
Start == IF pc = "took" THEN ring.taken ELSE ring.tail

LEMMA InRingIs ==
  ASSUME KeyboardTypes
  PROVE  /\ InRing = From(ring.slot, Start, ring.head) /\ Start \in Places
         /\ InRing \in Codes
<1>1. InRing = From(ring.slot, Start, ring.head)
  BY DEF InRing, KeysFrom, From, Start
<1>2. Start \in Places /\ ring.slot \in Slots /\ ring.head \in Places
  BY DEF KeyboardTypes, Rings, Start
<1> QED
  BY <1>1, <1>2, FromIs

LEMMA InRingNext == InRing' = From(ring'.slot, Start', ring'.head)
  BY DEF InRing, KeysFrom, From, Start

\* The place of the head is not the start of what is in the ring.
LEMMA RoomFromStart ==
  ASSUME KeyboardTypes, RingInv, ring.pc = "publish"
  PROVE  Following(ring.head) # Start
<1>1. /\ ring.head \in Places /\ ring.tail \in Places /\ ring.taken \in Places
  BY DEF KeyboardTypes, Rings
<1>2. Following(ring.head) # ring.tail
  BY DEF RingInv
<1>3. CASE pc = "took"
  <2>1. Gap(ring.tail, ring.taken) + Gap(ring.taken, ring.head) = Gap(ring.tail, ring.head)
    BY <1>3 DEF RingInv
  <2> QED
    BY <1>1, <1>2, <1>3, <2>1, FollowingIs, KeyboardAssumption DEF Gap, Places, Start
<1>4. CASE pc # "took"
  BY <1>2, <1>4 DEF Start
<1> QED
  BY <1>3, <1>4

LEMMA InitKeyboardInv == Init => KeyboardInv
<1> SUFFICES ASSUME Init PROVE KeyboardInv
  OBVIOUS
<1>1. KeyboardTypes
  BY InitTypes
<1>2. EdgeInv /\ RingInv
  BY DEF Init, KbdInit, EdgeInv, RingInv
<1>3. InRing = <<>>
  <2>1. Start = 0 /\ ring.head = 0
    BY DEF Init, Start
  <2>2. 0 \in Places /\ ring.slot \in Slots
    BY <1>1, KeyboardAssumption DEF Places, KeyboardTypes, Rings
  <2> QED
    BY <1>1, <2>1, <2>2, InRingIs, FromNothing
<1>4. hist.delivered = <<>> /\ kbd.queue = <<>> /\ hist.sent = {}
  BY DEF Init, KbdInit
<1>5. StreamInv
  BY <1>3, <1>4, EmptyKeys DEF StreamInv, Ahead
<1> QED
  BY <1>1, <1>2, <1>5 DEF KeyboardInv

(***************************************************************************)
(* Every step keeps the invariant.                                         *)
(***************************************************************************)
LEMMA PressedKeys ==
  ASSUME KeyboardTypes
  PROVE  hist.pressed \in Nat /\ hist.sent \subseteq 1 .. hist.pressed
         /\ hist.pressed <= MaxHost
BY KeyboardAssumption DEF KeyboardTypes, HistShape

LEMMA ProgramKeepsInv ==
  ASSUME KeyboardInv, Program
  PROVE  KeyboardInv'
<1>1. KeyboardTypes /\ EdgeInv /\ RingInv /\ StreamInv
  BY DEF KeyboardInv
<1>2. ProgramKeeps
  BY <1>1, ProgramKept
<1>3. /\ ring' = ring /\ pc = "program" /\ pc' = "kbd"
      /\ LinesShape(lines') /\ HistShape(hist') /\ wire' \in Wires
      /\ wire'.irq = wire.irq
      /\ hist'.delivered = hist.delivered /\ hist'.sent = hist.sent
      /\ hist'.pressed = hist.pressed
  BY <1>2 DEF ProgramKeeps
<1>4. kbd \in Keyboards /\ kbd.queue \in Codes /\ hist.queued \in Nat /\ ring \in Rings
  BY <1>1 DEF KeyboardTypes, Keyboards, HistShape
<1>5. /\ kbd' \in Keyboards /\ kbd'.armed = kbd.armed /\ kbd'.deliver = kbd.deliver
      /\ InOrder(kbd.queue) => InOrder(kbd'.queue)
      /\ KeysOf(kbd'.queue) = KeysOf(kbd.queue)
  <2>1. CASE kbd' = kbd
    BY <2>1, <1>4
  <2>2. CASE kbd' = [kbd EXCEPT !.queue = Append(@, MaxHost + hist.queued + 1)]
    <3> DEFINE x == MaxHost + hist.queued + 1
    <3>1. x \in Int /\ {x} \cap HostKeys = {}
      BY <1>4, KeyboardAssumption DEF HostKeys
    <3>2. kbd' = [kbd EXCEPT !.queue = Append(@, x)]
      BY <2>2
    <3> HIDE DEF x
    <3>3. /\ Append(kbd.queue, x) \in Codes
          /\ KeysOf(Append(kbd.queue, x)) = KeysOf(kbd.queue)
          /\ InOrder(kbd.queue) => InOrder(Append(kbd.queue, x))
      BY <1>4, <3>1, AppendKeys DEF Ahead
    <3>4. /\ kbd' \in Keyboards /\ kbd'.queue = Append(kbd.queue, x)
          /\ kbd'.armed = kbd.armed /\ kbd'.deliver = kbd.deliver
      BY <1>4, <3>2, <3>3 DEF Keyboards
    <3> QED
      BY <3>3, <3>4
  <2> QED
    BY <1>2, <2>1, <2>2 DEF ProgramKeeps
<1>6. KeyboardTypes'
  BY <1>3, <1>4, <1>5 DEF KeyboardTypes
<1>7. EdgeInv'
  BY <1>1, <1>3, <1>5 DEF EdgeInv
<1>8. RingInv'
  BY <1>1, <1>3 DEF RingInv
<1>9. InRing' = InRing
  <2>1. Start' = Start
    BY <1>3 DEF Start
  <2>2. InRing' = From(ring'.slot, Start', ring'.head)
    BY InRingNext
  <2> QED
    BY <1>1, <1>3, <2>1, <2>2, InRingIs
<1>10. StreamInv'
  BY <1>1, <1>3, <1>5, <1>9 DEF StreamInv
<1> QED
  BY <1>6, <1>7, <1>8, <1>10 DEF KeyboardInv

LEMMA TakeKeepsInv ==
  ASSUME KeyboardInv, TakeKeys
  PROVE  KeyboardInv'
<1>1. KeyboardTypes /\ EdgeInv /\ RingInv /\ StreamInv
  BY DEF KeyboardInv
<1>2. /\ KeyboardTypes'
      /\ kbd' = [kbd EXCEPT !.queue = @ \o From(ring.slot, ring.tail, ring.head)]
      /\ ring' = [ring EXCEPT !.taken = ring.head]
  BY <1>1, TakeDoes
<1>3. wire' = wire /\ hist' = hist /\ pc = "kbd" /\ pc' = "took"
  BY DEF TakeKeys
<1>4. /\ kbd \in Keyboards /\ kbd.queue \in Codes /\ ring \in Rings
      /\ ring.head \in Places /\ ring.tail \in Places /\ ring.slot \in Slots
  BY <1>1 DEF KeyboardTypes, Keyboards, Rings
<1>5. InRing = From(ring.slot, ring.tail, ring.head) /\ InRing \in Codes
  BY <1>1, <1>3, InRingIs DEF Start
<1>6. /\ kbd'.queue = kbd.queue \o InRing
      /\ kbd'.armed = kbd.armed /\ kbd'.deliver = kbd.deliver
  BY <1>2, <1>4, <1>5 DEF Keyboards
<1>7. /\ ring'.taken = ring.head /\ ring'.tail = ring.tail /\ ring'.head = ring.head
      /\ ring'.slot = ring.slot /\ ring'.pc = ring.pc
  BY <1>2, <1>4 DEF Rings
<1>8. EdgeInv'
  BY <1>1, <1>3, <1>6 DEF EdgeInv
<1>9. RingInv'
  <2>1. Gap(ring.tail, ring.head) \in Int /\ Gap(ring.head, ring.head) = 0
    BY <1>4, GapIs, KeyboardAssumption
  <2> QED
    BY <1>1, <1>3, <1>7, <2>1 DEF RingInv
<1>10. InRing' = <<>>
  <2>1. Start' = ring.head
    BY <1>3, <1>7 DEF Start
  <2>2. InRing' = From(ring'.slot, Start', ring'.head)
    BY InRingNext
  <2> QED
    BY <1>4, <1>7, <2>1, <2>2, FromNothing
<1>11. StreamInv'
  <2>1. /\ InOrder(hist.delivered) /\ InOrder(kbd.queue) /\ InOrder(InRing)
        /\ Ahead(KeysOf(hist.delivered), KeysOf(kbd.queue))
        /\ Ahead(KeysOf(hist.delivered), KeysOf(InRing))
        /\ Ahead(KeysOf(kbd.queue), KeysOf(InRing))
        /\ KeysOf(hist.delivered) \cup KeysOf(kbd.queue) \cup KeysOf(InRing) = hist.sent
    BY <1>1 DEF StreamInv
  <2>2. /\ KeysOf(kbd'.queue) = KeysOf(kbd.queue) \cup KeysOf(InRing)
        /\ InOrder(kbd'.queue)
    BY <1>4, <1>5, <1>6, <2>1, ConcatKeys
  <2>3. Ahead(KeysOf(hist.delivered), KeysOf(kbd.queue) \cup KeysOf(InRing))
    BY <2>1 DEF Ahead
  <2> QED
    BY <1>3, <1>10, <2>1, <2>2, <2>3, EmptyKeys DEF StreamInv, Ahead
<1> QED
  BY <1>2, <1>8, <1>9, <1>11 DEF KeyboardInv

LEMMA FreeKeepsInv ==
  ASSUME KeyboardInv, FreeKeys
  PROVE  KeyboardInv'
<1>1. KeyboardTypes /\ EdgeInv /\ RingInv /\ StreamInv
  BY DEF KeyboardInv
<1>2. /\ KeyboardTypes' /\ hist' = hist
      /\ pc = "took" /\ pc' = "program"
      /\ ring' = [ring EXCEPT !.tail = ring.taken]
      /\ kbd'.queue = kbd.queue /\ kbd'.armed /\ wire'.irq = "L"
  BY <1>1, FreeDoes
<1>3. ring \in Rings
  BY <1>1 DEF KeyboardTypes
<1>4. /\ ring'.taken = ring.taken /\ ring'.tail = ring.taken /\ ring'.head = ring.head
      /\ ring'.slot = ring.slot /\ ring'.pc = ring.pc
  BY <1>2, <1>3 DEF Rings
<1>5. EdgeInv'
  BY <1>2 DEF EdgeInv
<1>6. Start = ring.taken /\ Start' = ring.taken
  BY <1>2, <1>4 DEF Start
<1>7. RingInv'
  <2>1. ring.pc = "publish" => Following(ring.head) # ring.taken
    BY <1>1, <1>6, RoomFromStart
  <2> QED
    BY <1>1, <1>2, <1>4, <2>1 DEF RingInv
<1>8. InRing' = InRing
  <2>1. InRing' = From(ring'.slot, Start', ring'.head)
    BY InRingNext
  <2> QED
    BY <1>1, <1>4, <1>6, <2>1, InRingIs
<1>9. StreamInv'
  BY <1>1, <1>2, <1>8 DEF StreamInv
<1> QED
  BY <1>2, <1>5, <1>7, <1>9 DEF KeyboardInv

LEMMA CycleKeepsInv ==
  ASSUME KeyboardInv, KeyboardCycle
  PROVE  KeyboardInv'
<1>1. KeyboardTypes /\ EdgeInv /\ RingInv /\ StreamInv
  BY DEF KeyboardInv
<1>2. KeyboardTypes' /\ ring' = ring /\ pc = "kbd" /\ pc' = "program"
  BY <1>1, CycleTypes
<1>3. PICK r : CycleEffect(r)
  BY <1>1, CycleDoes
<1>4. kbd.queue \in Codes /\ hist = [x \in HistFields |-> hist[x]]
      /\ hist.delivered \in Codes
  BY <1>1 DEF KeyboardTypes, Keyboards, HistShape
<1>5. kbd \in Keyboards /\ kbd' \in Keyboards
  BY <1>1, <1>3 DEF KeyboardTypes, CycleEffect
<1>6. EdgeInv'
  BY <1>1, <1>3, <1>5 DEF EdgeInv, CycleEffect, Keyboards
<1>7. /\ hist'.pressed = hist.pressed /\ hist'.sent = hist.sent
      /\ hist'.delivered = IF Presents(r) THEN Append(hist.delivered, Head(r.queue))
                           ELSE hist.delivered
  <2>1. hist' = [hist EXCEPT !.delivered =
                   IF Presents(r) THEN Append(@, Head(r.queue)) ELSE @]
    BY <1>3 DEF CycleEffect
  <2> QED
    BY <1>4, <2>1 DEF HistFields
<1>8. RingInv'
  BY <1>1, <1>2, <1>7 DEF RingInv
<1>9. InRing' = InRing
  <2>1. Start' = Start
    BY <1>2 DEF Start
  <2>2. InRing' = From(ring'.slot, Start', ring'.head)
    BY InRingNext
  <2> QED
    BY <1>1, <1>2, <2>1, <2>2, InRingIs
<1>10. /\ InOrder(hist.delivered) /\ InOrder(kbd.queue) /\ InOrder(InRing)
       /\ Ahead(KeysOf(hist.delivered), KeysOf(kbd.queue))
       /\ Ahead(KeysOf(hist.delivered), KeysOf(InRing))
       /\ Ahead(KeysOf(kbd.queue), KeysOf(InRing))
       /\ KeysOf(hist.delivered) \cup KeysOf(kbd.queue) \cup KeysOf(InRing) = hist.sent
  BY <1>1 DEF StreamInv
\* The reset code is no key of the host.
<1>11. r.queue \in Codes /\ KeysOf(r.queue) = KeysOf(kbd.queue) /\ InOrder(r.queue)
  <2>1. CASE r.queue = kbd.queue
    BY <2>1, <1>4, <1>10
  <2>2. CASE r.queue = <<Reset>> \o kbd.queue
    <3>1. /\ <<Reset>> \in Codes /\ InOrder(<<Reset>>) /\ KeysOf(<<Reset>>) = {}
      BY OneKey, KeyTypes
    <3>2. Ahead(KeysOf(<<Reset>>), KeysOf(kbd.queue))
      BY <3>1 DEF Ahead
    <3>3. /\ <<Reset>> \o kbd.queue \in Codes
          /\ KeysOf(<<Reset>> \o kbd.queue) = KeysOf(<<Reset>>) \cup KeysOf(kbd.queue)
          /\ InOrder(<<Reset>> \o kbd.queue)
      BY <3>1, <3>2, <1>4, <1>10, ConcatKeys
    <3>4. KeysOf(<<Reset>>) \cup KeysOf(kbd.queue) = KeysOf(kbd.queue)
      BY <3>1
    <3> QED
      BY <2>2, <3>3, <3>4
  <2> QED
    BY <1>3, <2>1, <2>2 DEF CycleEffect
<1>12. kbd'.queue = IF Presents(r) THEN Tail(r.queue) ELSE r.queue
  BY <1>3 DEF CycleEffect
<1>13. StreamInv'
  <2>1. CASE Presents(r)
    <3> DEFINE h == Head(r.queue)
               t == Tail(r.queue)
               d == hist.delivered
    <3>1. r.queue # <<>>
      BY <1>3, <2>1 DEF CycleEffect, Delivers
    <3>2. /\ h \in Int /\ t \in Codes
          /\ KeysOf(r.queue) = ({h} \cap HostKeys) \cup KeysOf(t)
          /\ InOrder(t) /\ Ahead({h} \cap HostKeys, KeysOf(t))
      BY <1>11, <3>1, HeadKeys
    <3>3. hist'.delivered = Append(d, h) /\ kbd'.queue = t /\ d \in Codes
      BY <1>4, <1>7, <1>12, <2>1
    <3> HIDE DEF h, t, d
    <3>4. /\ InOrder(d) /\ InOrder(InRing)
          /\ Ahead(KeysOf(d), ({h} \cap HostKeys) \cup KeysOf(t))
          /\ Ahead(KeysOf(d), KeysOf(InRing))
          /\ Ahead(({h} \cap HostKeys) \cup KeysOf(t), KeysOf(InRing))
          /\ KeysOf(d) \cup (({h} \cap HostKeys) \cup KeysOf(t)) \cup KeysOf(InRing) = hist.sent
      BY <1>10, <1>11, <3>2 DEF d
    <3>5. Ahead(KeysOf(d), {h} \cap HostKeys)
      BY <3>4 DEF Ahead
    <3>6. InOrder(Append(d, h)) /\ KeysOf(Append(d, h)) = KeysOf(d) \cup ({h} \cap HostKeys)
      BY <3>2, <3>3, <3>4, <3>5, AppendKeys
    <3>7. /\ Ahead(KeysOf(d) \cup ({h} \cap HostKeys), KeysOf(t))
          /\ Ahead(KeysOf(d) \cup ({h} \cap HostKeys), KeysOf(InRing))
          /\ Ahead(KeysOf(t), KeysOf(InRing))
      BY <3>2, <3>4 DEF Ahead
    <3>8. KeysOf(d) \cup ({h} \cap HostKeys) \cup KeysOf(t) \cup KeysOf(InRing) = hist.sent
      BY <3>4
    <3> QED
      BY <1>7, <1>9, <3>2, <3>3, <3>4, <3>6, <3>7, <3>8 DEF StreamInv
  <2>2. CASE ~Presents(r)
    <3>1. hist'.delivered = hist.delivered /\ kbd'.queue = r.queue
      BY <1>7, <1>12, <2>2
    <3> QED
      BY <1>7, <1>9, <1>10, <1>11, <3>1 DEF StreamInv
  <2> QED
    BY <2>1, <2>2
<1> QED
  BY <1>2, <1>6, <1>8, <1>13 DEF KeyboardInv

LEMMA InjectKeepsInv ==
  ASSUME KeyboardInv, HostInject
  PROVE  KeyboardInv'
<1>1. KeyboardTypes /\ EdgeInv /\ RingInv /\ StreamInv
  BY DEF KeyboardInv
<1>2. /\ KeyboardTypes' /\ ring.pc = "idle"
      /\ UNCHANGED <<kbd, wire, lines, pc>>
      /\ hist'.delivered = hist.delivered /\ hist'.sent = hist.sent
      /\ hist'.pressed = hist.pressed + 1
      /\ ring' = IF Publishes
                 THEN [ring EXCEPT !.slot = [@ EXCEPT ![ring.head] = hist.pressed + 1],
                                   !.pc = "publish"]
                 ELSE ring
  BY <1>1, InjectDoes
<1>3. /\ ring \in Rings /\ ring.slot \in Slots /\ ring.head \in Places
      /\ ring.tail \in Places
  BY <1>1 DEF KeyboardTypes, Rings
<1>4. /\ hist.pressed \in Nat /\ hist.sent \subseteq 1 .. hist.pressed
      /\ hist.pressed + 1 \in HostKeys
  BY <1>1, PressedKeys, KeyboardAssumption DEF HostInject, HostKeys
<1>5. InRing = From(ring.slot, Start, ring.head) /\ Start \in Places
  BY <1>1, InRingIs
<1>6. EdgeInv'
  BY <1>1, <1>2 DEF EdgeInv
<1>7. RingInv' /\ InRing' = InRing
  <2>1. CASE Publishes
    <3> DEFINE new == [ring.slot EXCEPT ![ring.head] = hist.pressed + 1]
    <3>1. /\ new \in Slots /\ new[ring.head] = hist.pressed + 1
          /\ From(new, Start, ring.head) = From(ring.slot, Start, ring.head)
      BY <1>3, <1>4, <1>5, FromStored DEF Slots
    <3>2. ring' = [ring EXCEPT !.slot = new, !.pc = "publish"]
      BY <1>2, <2>1
    <3> HIDE DEF new
    <3>3. /\ ring'.slot = new /\ ring'.head = ring.head /\ ring'.tail = ring.tail
          /\ ring'.taken = ring.taken /\ ring'.pc = "publish"
      BY <1>3, <3>2 DEF Rings
    <3>4. Start' = Start
      BY <1>2, <3>3 DEF Start
    <3>5. InRing' = InRing
      BY <1>5, <3>1, <3>3, <3>4, InRingNext
    <3>6. hist'.pressed \notin hist'.sent
      BY <1>2, <1>4
    <3> QED
      BY <1>1, <1>2, <1>4, <2>1, <3>1, <3>3, <3>5, <3>6 DEF RingInv, Publishes
  <2>2. CASE ~Publishes
    <3>1. ring' = ring /\ Start' = Start
      BY <1>2, <2>2 DEF Start
    <3> QED
      BY <1>1, <1>2, <1>5, <3>1, InRingNext DEF RingInv
  <2> QED
    BY <2>1, <2>2
<1>8. StreamInv'
  BY <1>1, <1>2, <1>7 DEF StreamInv
<1> QED
  BY <1>2, <1>6, <1>7, <1>8 DEF KeyboardInv

LEMMA PublishKeepsInv ==
  ASSUME KeyboardInv, HostPublish
  PROVE  KeyboardInv'
<1>1. KeyboardTypes /\ EdgeInv /\ RingInv /\ StreamInv
  BY DEF KeyboardInv
<1>2. /\ ring \in Rings /\ ring.slot \in Slots /\ ring.head \in Places
      /\ ring.tail \in Places /\ ring.taken \in Places /\ HistShape(hist)
  BY <1>1 DEF KeyboardTypes, Rings
<1>3. /\ ring.pc = "publish" /\ UNCHANGED <<kbd, wire, lines, pc>>
      /\ ring' = [ring EXCEPT !.head = Following(@), !.pc = "idle"]
      /\ hist' = [hist EXCEPT !.sent = @ \cup {ring.slot[ring.head]}]
  BY DEF HostPublish
<1>4. /\ ring'.slot = ring.slot /\ ring'.head = Following(ring.head)
      /\ ring'.tail = ring.tail /\ ring'.taken = ring.taken /\ ring'.pc = "idle"
      /\ ring' \in Rings
  <2>1. Following(ring.head) \in Places
    BY <1>2, FollowingIs
  <2> QED
    BY <1>2, <1>3, <2>1 DEF Rings
<1> DEFINE x == hist.pressed
<1>5. /\ ring.slot[ring.head] = x /\ x \in HostKeys /\ x \notin hist.sent
      /\ Following(ring.head) # ring.tail
  BY <1>1, <1>3 DEF RingInv
<1>6. /\ hist'.pressed = x /\ hist'.delivered = hist.delivered
      /\ hist'.sent = hist.sent \cup {x} /\ hist'.queued = hist.queued
      /\ hist' = [f \in HistFields |-> hist'[f]]
  BY <1>2, <1>3, <1>5 DEF HistShape, HistFields
<1>7. x \in Nat /\ hist.sent \subseteq 1 .. x /\ x \in 1 .. x
  BY <1>1, <1>5, PressedKeys, KeyboardAssumption DEF HostKeys
<1> HIDE DEF x
<1>8. KeyboardTypes'
  <2>1. hist'.sent \subseteq 1 .. x
    BY <1>6, <1>7
  <2>2. HistShape(hist')
    BY <1>2, <1>6, <2>1 DEF HistShape, x
  <2> QED
    BY <1>1, <1>3, <1>4, <2>2 DEF KeyboardTypes
<1>9. EdgeInv'
  BY <1>1, <1>3 DEF EdgeInv
<1>10. Start' = Start /\ Start \in Places /\ InRing = From(ring.slot, Start, ring.head)
       /\ InRing \in Codes
  BY <1>1, <1>3, <1>4, InRingIs DEF Start
<1>11. Following(ring.head) # Start
  BY <1>1, <1>3, RoomFromStart
<1>12. InRing' = Append(InRing, x)
  BY <1>2, <1>4, <1>5, <1>10, <1>11, FromPublished, InRingNext
<1>13. RingInv'
  <2>1. ASSUME pc = "took"
        PROVE  Gap(ring.tail, ring.taken) + Gap(ring.taken, Following(ring.head))
                 = Gap(ring.tail, Following(ring.head))
    <3>1. Following(ring.head) # ring.taken
      BY <1>11, <2>1 DEF Start
    <3>2. /\ Gap(ring.tail, Following(ring.head)) = Gap(ring.tail, ring.head) + 1
          /\ Gap(ring.taken, Following(ring.head)) = Gap(ring.taken, ring.head) + 1
      BY <1>2, <1>5, <3>1, FromPublished
    <3>3. Gap(ring.tail, ring.taken) + Gap(ring.taken, ring.head) = Gap(ring.tail, ring.head)
      BY <1>1, <2>1 DEF RingInv
    <3>4. /\ Gap(ring.tail, ring.taken) \in Int /\ Gap(ring.taken, ring.head) \in Int
          /\ Gap(ring.tail, ring.head) \in Int
      BY <1>2, GapIs, KeyboardAssumption
    <3> QED
      BY <3>2, <3>3, <3>4
  <2> QED
    BY <1>3, <1>4, <2>1 DEF RingInv
<1>14. StreamInv'
  <2> DEFINE d == hist.delivered
             q == kbd.queue
             k == InRing
  <2>1. /\ InOrder(d) /\ InOrder(q) /\ InOrder(k)
        /\ Ahead(KeysOf(d), KeysOf(q)) /\ Ahead(KeysOf(d), KeysOf(k))
        /\ Ahead(KeysOf(q), KeysOf(k))
        /\ KeysOf(d) \cup KeysOf(q) \cup KeysOf(k) = hist.sent
    BY <1>1 DEF StreamInv
  <2>2. hist'.delivered = d /\ kbd'.queue = q /\ InRing' = Append(k, x) /\ k \in Codes
    BY <1>3, <1>6, <1>10, <1>12
  <2> HIDE DEF d, q, k
  <2>3. {x} \cap HostKeys = {x}
    BY <1>5
  <2>4. \A y \in hist.sent : y < x
    BY <1>5, <1>7
  <2>5. Ahead(KeysOf(d), {x}) /\ Ahead(KeysOf(q), {x}) /\ Ahead(KeysOf(k), {x})
    BY <2>1, <2>4 DEF Ahead
  <2>6. KeysOf(Append(k, x)) = KeysOf(k) \cup {x} /\ InOrder(Append(k, x))
    BY <1>7, <2>1, <2>2, <2>3, <2>5, AppendKeys
  <2>7. /\ Ahead(KeysOf(d), KeysOf(k) \cup {x}) /\ Ahead(KeysOf(q), KeysOf(k) \cup {x})
    BY <2>1, <2>5 DEF Ahead
  <2>8. KeysOf(d) \cup KeysOf(q) \cup (KeysOf(k) \cup {x}) = hist.sent \cup {x}
    BY <2>1
  <2> QED
    BY <1>6, <2>1, <2>2, <2>6, <2>7, <2>8 DEF StreamInv
<1> QED
  BY <1>8, <1>9, <1>13, <1>14 DEF KeyboardInv

LEMMA StepKeepsInv == KeyboardInv /\ [Next]_vars => KeyboardInv'
<1> SUFFICES ASSUME KeyboardInv, [Next]_vars PROVE KeyboardInv'
  OBVIOUS
<1>1. CASE UNCHANGED vars
  <2>1. UNCHANGED <<lines, kbd, wire, ring, pc, hist>>
    BY <1>1 DEF vars
  <2>2. InRing' = InRing
    BY <2>1 DEF InRing, KeysFrom
  <2>3. KeyboardTypes' /\ EdgeInv' /\ RingInv'
    BY <2>1 DEF KeyboardInv, KeyboardTypes, EdgeInv, RingInv
  <2>4. StreamInv'
    BY <2>1, <2>2 DEF KeyboardInv, StreamInv
  <2> QED
    BY <2>3, <2>4 DEF KeyboardInv
<1> QED
  BY <1>1, ProgramKeepsInv, TakeKeepsInv, FreeKeepsInv, CycleKeepsInv,
     InjectKeepsInv, PublishKeepsInv DEF Next, KeyboardThread, Host

\* The state of the keyboard, the ring's indices and what is in the ring, the
\* queue and the history hang together as inject_key(), on_cycle() and
\* deliver_next() leave them.
THEOREM KeyboardInvariant == Spec => []KeyboardInv
  BY InitKeyboardInv, StepKeepsInv, PTL DEF Spec

LEMMA InvConserves ==
  ASSUME KeyboardInv
  PROVE  KeysConserved
<1>1. KeyboardTypes /\ StreamInv
  BY DEF KeyboardInv
<1> DEFINE d == hist.delivered
           q == kbd.queue
           k == InRing
<1>2. d \in Codes /\ q \in Codes /\ k \in Codes
  BY <1>1, InRingIs DEF KeyboardTypes, HistShape, Keyboards
<1>3. /\ InOrder(d) /\ InOrder(q) /\ InOrder(k)
      /\ Ahead(KeysOf(d), KeysOf(q)) /\ Ahead(KeysOf(d), KeysOf(k))
      /\ Ahead(KeysOf(q), KeysOf(k))
      /\ KeysOf(d) \cup KeysOf(q) \cup KeysOf(k) = hist.sent
  BY <1>1 DEF StreamInv
<1>4. KeysConserved <=> InOrder(d \o q \o k) /\ KeysOf(d \o q \o k) = hist.sent
  BY DEF KeysConserved
<1> HIDE DEF d, q, k
<1>5. /\ d \o q \in Codes /\ InOrder(d \o q)
      /\ KeysOf(d \o q) = KeysOf(d) \cup KeysOf(q)
  BY <1>2, <1>3, ConcatKeys
<1>6. Ahead(KeysOf(d \o q), KeysOf(k))
  BY <1>3, <1>5 DEF Ahead
<1>7. InOrder((d \o q) \o k) /\ KeysOf((d \o q) \o k) = KeysOf(d \o q) \cup KeysOf(k)
  BY <1>2, <1>3, <1>5, <1>6, ConcatKeys
<1> QED
  BY <1>3, <1>4, <1>5, <1>7

\* No key accepted by the ring is lost, doubled or overtaken on its way to
\* port A (inject_key(), on_cycle(), deliver_next()), whatever the sizes.
THEOREM KeysArrive == Spec => []KeysConserved
  BY KeyboardInvariant, InvConserves, PTL

\* A code comes with an edge of IRQ1, unless a reset makes it due (the early
\* return and the delayed deliveries of on_cycle()).
THEOREM EdgePerCode == Spec => CleanEdge
<1> DEFINE A == Len(hist'.delivered) > Len(hist.delivered)
                  => wire.irq = "L" \/ kbd.delay = 1
<1>1. ASSUME KeyboardInv, Next PROVE A
  <2>1. KeyboardTypes /\ EdgeInv
    BY <1>1 DEF KeyboardInv
  <2>2. Len(hist.delivered) \in Nat /\ kbd \in Keyboards
    BY <2>1 DEF KeyboardTypes, HistShape, Codes
  <2>3. CASE KeyboardCycle
    <3>1. PICK r : CycleEffect(r)
      BY <2>1, <2>3, CycleDoes
    <3>2. CASE Presents(r)
      <4>1. ~kbd.armed \/ kbd.deliver \/ kbd.delay = 1
        BY <3>1, <3>2 DEF CycleEffect
      <4> QED
        BY <2>1, <2>2, <4>1 DEF EdgeInv, Keyboards
    <3>3. CASE ~Presents(r)
      <4>1. hist' = [hist EXCEPT !.delivered = @]
        BY <3>1, <3>3 DEF CycleEffect
      <4>2. hist'.delivered = hist.delivered
        BY <2>1, <4>1 DEF KeyboardTypes, HistShape, HistFields
      <4> QED
        BY <2>2, <4>2
    <3> QED
      BY <3>2, <3>3
  <2>4. CASE ~KeyboardCycle
    <3>1. hist'.delivered = hist.delivered
      <4>1. CASE Program
        BY <2>1, <4>1, ProgramKept DEF ProgramKeeps
      <4>2. CASE TakeKeys \/ FreeKeys
        BY <4>2 DEF TakeKeys, FreeKeys
      <4>3. CASE HostInject
        BY <2>1, <4>3, InjectDoes
      <4>4. CASE HostPublish
        BY <2>1, <4>4 DEF HostPublish, KeyboardTypes, HistShape, HistFields
      <4> QED
        BY <1>1, <2>4, <4>1, <4>2, <4>3, <4>4 DEF Next, KeyboardThread, Host
    <3> QED
      BY <2>2, <3>1
  <2> QED
    BY <2>3, <2>4
<1>2. KeyboardInv /\ [Next]_vars => [A]_vars
  BY <1>1
<1>3. CleanEdge <=> [][A]_vars
  BY DEF CleanEdge
<1> HIDE DEF A
<1> QED
  BY <1>2, <1>3, KeyboardInvariant, PTL DEF Spec

(***************************************************************************)
(* The handshake of a program that acknowledges at the test card, while    *)
(* nobody types and nothing else is written to port B.                     *)
(***************************************************************************)
Pure == hist.pure /\ prog.card

\* The accesses of the program: 99h, the read of the handler, and its two
\* writes to port B.
SetMode == [kind |-> "write", port |-> "mode",
            value |-> [a |-> TRUE, b |-> FALSE, cu |-> TRUE, cl |-> TRUE]]
ReadA == [kind |-> "read", port |-> "A"]
ClearB == [kind |-> "write", port |-> "B", value |-> {6, 7}]
EnableB == [kind |-> "write", port |-> "B", value |-> {6}]

PpiFields == {"aIn", "bIn", "cuIn", "clIn", "a", "b", "c", "pending", "prev", "reset"}
PpiShape(p) ==
  /\ p = [x \in PpiFields |-> p[x]]
  /\ p.pending \in BOOLEAN /\ p.prev \in BOOLEAN /\ p.reset \in BOOLEAN

ProgShape(p) ==
  /\ p = [x \in ProgFields |-> p[x]]
  /\ p.last \in BOOLEAN /\ p.request \in BOOLEAN

\* No reset is under way and no key in the ring.
QuietInv ==
  /\ ring.head = ring.tail /\ ring.pc = "idle" /\ pc \in {"program", "kbd"}
  /\ kbd.delay = 0 /\ ~kbd.resetPending
  /\ kbd.pb6 = "H" => lines.pb[6] = "H"

\* The chip goes with the program's access; the data lines keep what was read;
\* the mode is set before the keyboard is armed, and bit 7 of port B is high
\* inside the handler only.
BusInv ==
  /\ PpiShape(ppi) /\ ProgShape(prog) /\ ~ppi.reset /\ ppi.aIn
  /\ ppi.prev <=> prog.a # NoAccess
  /\ ppi.pending <=> prog.a.kind = "write" /\ ~prog.last
  /\ prog.read = lines.data
  /\ \/ prog.pc = "start" /\ prog.a = NoAccess
     \/ prog.pc = "main" /\ prog.a \in {NoAccess, SetMode}
     \/ prog.pc = "clear" /\ prog.a \in {NoAccess, ReadA}
     \/ prog.pc = "enable" /\ prog.a \in {NoAccess, ClearB}
     \/ prog.pc = "ack" /\ prog.a \in {NoAccess, EnableB}
  /\ prog.pc = "start" \/ prog.a = SetMode =>
       /\ lines.pb[6] # "H" /\ kbd.pb6 # "H"
       /\ ~kbd.armed /\ wire.ready # "H"
  /\ ppi.bIn => prog.pc = "start" \/ (prog.a = SetMode /\ ~prog.last)
  /\ lines.pb[7] = "H" =>
       prog.pc = "enable" \/ (prog.pc = "ack" /\ prog.a = EnableB /\ ~prog.last)

\* The queue q holds the codes of the program after number m, up to n.
Queued(q, n, m) ==
  /\ m <= n /\ Len(q) = n - m
  /\ \A i \in 1 .. Len(q) : q[i] = MaxHost + m + i

Read == Len(hist.received)

\* No code is due or shown.
Resting ==
  /\ ~kbd.waiting /\ wire.irq = "L" /\ ~prog.request /\ wire.ack # "H"
  /\ prog.pc \in {"start", "main"} /\ (pc = "kbd" => prog.irq # "H")
  /\ Queued(kbd.queue, hist.queued, Read)

\* A code is at port A, and its edge has been or will be latched.
Showing ==
  /\ prog.pc = "main" /\ prog.a = NoAccess /\ wire.ack # "H"
  /\ kbd.pa = MaxHost + Read + 1
  /\ Queued(kbd.queue, hist.queued, Read + 1)
  /\ prog.request => prog.irq = "H" /\ (pc = "program" => lines.pa = kbd.pa)
  /\ ~prog.request => prog.irq # "H" /\ pc = "program"

\* The handler has read it, and has not yet stored it.
Taking ==
  /\ prog.pc = "clear" /\ wire.ack # "H" /\ ~prog.request /\ prog.irq = "H"
  /\ lines.data.A = MaxHost + Read + 1
  /\ Queued(kbd.queue, hist.queued, Read + 1)

\* It has stored it, and goes on to the acknowledge.
Handled ==
  /\ prog.pc \in {"enable", "ack"} /\ wire.ack # "H" /\ ~prog.request
  /\ prog.irq = "H" /\ Queued(kbd.queue, hist.queued, Read)

\* The acknowledge line has just risen.
Acking ==
  /\ prog.pc = "main" /\ prog.a = NoAccess /\ wire.ack = "H" /\ pc = "kbd"
  /\ ~prog.request /\ prog.irq = "H" /\ Queued(kbd.queue, hist.queued, Read)

HandshakeInv ==
  /\ hist.received \in Codes
  /\ \A i \in 1 .. Read : hist.received[i] = MaxHost + i
  /\ kbd.waiting => kbd.armed /\ ~kbd.deliver /\ kbd.ack # "H" /\ wire.irq = "H"
  /\ Resting \/ (kbd.waiting /\ (Showing \/ Taking \/ Handled \/ Acking))

PureInv == Pure => QuietInv /\ BusInv /\ HandshakeInv

(***************************************************************************)
(* A cycle of the chip with one of these accesses.                         *)
(***************************************************************************)
PureAccesses == {NoAccess, SetMode, ReadA, ClearB, EnableB}
PureWrites == {SetMode, ClearB, EnableB}

LEMMA AccessKinds ==
  /\ NoAccess.kind = "none" /\ ReadA.kind = "read" /\ ReadA.port = "A"
  /\ \A a \in PureWrites : a.kind = "write" /\ a.port \in {"mode", "B"}
  /\ \A a \in PureAccesses :
       /\ a.kind = "write" <=> a \in PureWrites
       /\ a.kind = "read" <=> a = ReadA
  /\ SetMode.port = "mode" /\ ClearB.port = "B" /\ EnableB.port = "B"
  /\ SetMode # NoAccess /\ ReadA # NoAccess /\ ClearB # NoAccess /\ EnableB # NoAccess
  /\ SetMode \notin {ReadA, ClearB, EnableB} /\ ReadA \notin {ClearB, EnableB}
  /\ ClearB # EnableB
<1>0. ClearB # EnableB
  <2>1. ClearB.value = {6, 7} /\ EnableB.value = {6} /\ 7 \in {6, 7} /\ 7 \notin {6}
    BY DEF ClearB, EnableB
  <2> QED
    BY <2>1
<1>1. /\ NoAccess.kind = "none" /\ ReadA.kind = "read" /\ ReadA.port = "A"
      /\ SetMode.kind = "write" /\ ClearB.kind = "write" /\ EnableB.kind = "write"
      /\ SetMode.port = "mode" /\ ClearB.port = "B" /\ EnableB.port = "B"
  BY DEF NoAccess, ReadA, SetMode, ClearB, EnableB
<1> QED
  BY <1>0, <1>1 DEF PureAccesses, PureWrites

\* The bits of port B that the three writes leave.
LEMMA WriteIs ==
  ASSUME NEW p, PpiShape(p), p.aIn, NEW l, LinesShape(l), NEW a \in PureWrites,
         NEW q, q = PpiWritten(p, a), NEW m, m = LinesWritten(p, l, a)
  PROVE  /\ PpiShape(q) /\ q.aIn /\ q.reset = p.reset
         /\ q.bIn => p.bIn /\ a # SetMode
         /\ LinesShape(m) /\ m.pa = l.pa /\ m.data = l.data
         /\ a = SetMode => m.pb[6] = "L" /\ m.pb[7] = "L"
         /\ a = ClearB => m.pb[6] = "H" \/ m.pb = l.pb
         /\ a = EnableB => /\ m.pb[6] = "H" \/ m.pb = l.pb
                           /\ m.pb[7] = "L" \/ p.bIn
<1>1. LinesShape(m)
  BY WrittenShape
<1>2. /\ Levels({})[6] = "L" /\ Levels({})[7] = "L" /\ Levels({6, 7})[6] = "H"
      /\ Levels({6})[6] = "H" /\ Levels({6})[7] = "L"
  BY PPIAssumption DEF Levels
<1>3. CASE a = SetMode
  <2> DEFINE v == SetMode.value
  <2>1. SetMode.port = "mode" /\ v.a = TRUE /\ v.b = FALSE
    BY DEF SetMode
  <2>2. q = ModeSet(p, v)
    BY <1>3, <2>1 DEF PpiWritten
  <2> HIDE DEF v
  <2>3. q = [p EXCEPT !.aIn = TRUE, !.bIn = FALSE, !.cuIn = v.cu, !.clIn = v.cl,
                      !.a = Zero, !.b = {}, !.c = [lo |-> Zero, hi |-> Zero]]
    BY <2>1, <2>2 DEF ModeSet
  <2>4. PpiShape(q) /\ q.aIn /\ q.reset = p.reset /\ ~q.bIn /\ q.b = {}
    BY <2>3 DEF PpiShape, PpiFields
  <2> DEFINE d == DriveC(q, l)
  <2>5. LinesShape(d) /\ d.pa = l.pa /\ d.data = l.data
    BY DEF DriveC, LinesShape, LineFields
  <2>6. m = [d EXCEPT !.pa = IF SetMode.port \in {"A", "mode"} /\ ~q.aIn THEN q.a ELSE @,
                      !.pb = IF SetMode.port \in {"B", "mode"} /\ ~q.bIn
                             THEN Levels(q.b) ELSE @]
    BY <1>3, <2>1 DEF LinesWritten
  <2> HIDE DEF d
  <2>7. m = [d EXCEPT !.pa = @, !.pb = Levels({})]
    BY <2>1, <2>4, <2>6
  <2>8. m.pa = l.pa /\ m.data = l.data /\ m.pb = Levels({})
    BY <2>5, <2>7 DEF LinesShape, LineFields
  <2>9. SetMode # ClearB /\ SetMode # EnableB
    BY AccessKinds
  <2> QED
    BY <1>1, <1>2, <1>3, <2>4, <2>8, <2>9
<1>4. ASSUME NEW v, a = [kind |-> "write", port |-> "B", value |-> v]
      PROVE  /\ PpiShape(q) /\ q.aIn /\ q.reset = p.reset /\ q.bIn = p.bIn
             /\ m.pa = l.pa /\ m.data = l.data
             /\ m.pb = IF p.bIn THEN l.pb ELSE Levels(v)
  <2>1. a.port = "B" /\ a.value = v
    BY <1>4
  <2>2. q = [p EXCEPT !.b = v]
    BY <2>1 DEF PpiWritten
  <2>3. PpiShape(q) /\ q.aIn /\ q.reset = p.reset /\ q.bIn = p.bIn /\ q.b = v
    BY <2>2 DEF PpiShape, PpiFields
  <2>4. m = [l EXCEPT !.pa = IF a.port \in {"A", "mode"} /\ ~q.aIn THEN q.a ELSE @,
                      !.pb = IF a.port \in {"B", "mode"} /\ ~q.bIn
                             THEN Levels(q.b) ELSE @]
    BY <2>1 DEF LinesWritten
  <2>5. m = [l EXCEPT !.pa = @, !.pb = IF p.bIn THEN @ ELSE Levels(v)]
    BY <2>1, <2>3, <2>4
  <2> QED
    BY <2>3, <2>5 DEF LinesShape, LineFields
<1>5. CASE a = ClearB
  <2>1. ClearB # SetMode /\ ClearB # EnableB
    BY AccessKinds
  <2> QED
    BY <1>1, <1>2, <1>4, <1>5, <2>1 DEF ClearB
<1>6. CASE a = EnableB
  <2>1. EnableB # SetMode /\ EnableB # ClearB
    BY AccessKinds
  <2> QED
    BY <1>1, <1>2, <1>4, <1>6, <2>1 DEF EnableB
<1> QED
  BY <1>3, <1>5, <1>6 DEF PureWrites

\* The multiplexers touch port B and the data lines not at all, and port A
\* only when bit 7 of port B rises.
LEMMA SwitchesIs ==
  ASSUME NEW l, LinesShape(l), NEW before, NEW m, m = Switches(l, before)
  PROVE  /\ LinesShape(m) /\ m.pb = l.pb /\ m.data = l.data
         /\ l.pb[7] # "H" \/ before.pb[7] = "H" => m.pa = l.pa
<1> DEFINE o == Mux1(l, before)
<1>1. /\ LinesShape(o) /\ o.pb = l.pb /\ o.data = l.data
      /\ l.pb[7] # "H" \/ before.pb[7] = "H" => o.pa = l.pa
  BY DEF Mux1, LinesShape, LineFields
<1>2. m = Mux2(o, before)
  BY DEF Switches
<1> HIDE DEF o
<1>3. LinesShape(m) /\ m.pb = o.pb /\ m.data = o.data /\ m.pa = o.pa
  BY <1>1, <1>2 DEF Mux2, LinesShape, LineFields
<1> QED
  BY <1>1, <1>3

\* The chip and the lines after a cycle with access a; the write is done when
\* it is pending.
ChipDone(a) ==
  LET done == ppi.pending /\ a \in PureWrites IN
  /\ PpiShape(ppi') /\ ppi'.aIn /\ ~ppi'.reset
  /\ ppi'.prev <=> a # NoAccess
  /\ ppi'.pending <=> ~ppi.pending /\ a \in PureWrites /\ ~ppi.prev
  /\ ppi'.bIn => ppi.bIn
  /\ done /\ a = SetMode => ~ppi'.bIn
  /\ LinesShape(lines')
  /\ ~done => lines'.pb = lines.pb
  /\ done /\ a = SetMode => lines'.pb[6] = "L" /\ lines'.pb[7] = "L"
  /\ done /\ a = ClearB => lines'.pb[6] = "H" \/ lines'.pb = lines.pb
  /\ done /\ a = EnableB => /\ lines'.pb[6] = "H" \/ lines'.pb = lines.pb
                            /\ lines'.pb[7] = "L" \/ ppi.bIn
  /\ lines'.data = IF a = ReadA /\ ~ppi.prev THEN [A |-> lines.pa] ELSE lines.data
  /\ lines'.pb[7] # "H" \/ lines.pb[7] = "H" => lines'.pa = lines.pa

LEMMA ChipIs ==
  ASSUME PpiShape(ppi), ppi.aIn, LinesShape(lines), NEW a \in PureAccesses,
         ppi' = PpiStep(ppi, a, FALSE),
         lines' = Switches(LinesStep(ppi, lines, a, FALSE), lines)
  PROVE  ChipDone(a)
<1> DEFINE done == ppi.pending /\ a \in PureWrites
           w == IF Executes(ppi, a) THEN PpiWritten(ppi, a) ELSE ppi
           m == IF Executes(ppi, a) THEN LinesWritten(ppi, lines, a) ELSE lines
<1>1. /\ a.kind = "write" <=> a \in PureWrites
      /\ a.kind = "read" <=> a = ReadA
      /\ ReadA.port = "A" /\ ReadA # NoAccess
      /\ \A x \in PureWrites : x # NoAccess
      /\ SetMode # ClearB /\ SetMode # EnableB
  BY AccessKinds DEF PureWrites
<1>2. Executes(ppi, a) <=> done
  BY <1>1 DEF Executes, PpiShape
<1>3. /\ PpiShape(w) /\ w.aIn /\ w.reset = ppi.reset
      /\ w.bIn => ppi.bIn /\ ~(done /\ a = SetMode)
      /\ LinesShape(m) /\ m.pa = lines.pa /\ m.data = lines.data
      /\ ~done => m.pb = lines.pb
      /\ done /\ a = SetMode => m.pb[6] = "L" /\ m.pb[7] = "L"
      /\ done /\ a = ClearB => m.pb[6] = "H" \/ m.pb = lines.pb
      /\ done /\ a = EnableB => /\ m.pb[6] = "H" \/ m.pb = lines.pb
                                /\ m.pb[7] = "L" \/ ppi.bIn
  <2>1. CASE done
    <3>1. w = PpiWritten(ppi, a) /\ m = LinesWritten(ppi, lines, a) /\ a \in PureWrites
      BY <1>2, <2>1
    <3> HIDE DEF w, m
    <3> QED
      BY <2>1, <3>1, WriteIs
  <2>2. CASE ~done
    <3>1. w = ppi /\ m = lines
      BY <1>2, <2>2
    <3> HIDE DEF w, m
    <3> QED
      BY <2>2, <3>1
  <2> QED
    BY <2>1, <2>2
<1>4. ppi' = [w EXCEPT !.pending = ~ppi.pending /\ a.kind = "write" /\ Starts(ppi, a),
                       !.prev = a # NoAccess, !.reset = FALSE]
  BY DEF PpiStep
<1> DEFINE n == IF a.kind = "read" /\ Starts(ppi, a)
                THEN [m EXCEPT !.data = ReadPort(ppi, m, a.port)] ELSE m
<1>5. lines' = Switches(n, lines)
  BY DEF LinesStep
<1> HIDE DEF w, m
<1>6. /\ PpiShape(ppi') /\ ppi'.aIn /\ ~ppi'.reset /\ ppi'.bIn = w.bIn
      /\ ppi'.prev <=> a # NoAccess
      /\ ppi'.pending <=> ~ppi.pending /\ a \in PureWrites /\ ~ppi.prev
  <2> DEFINE x == ~ppi.pending /\ a.kind = "write" /\ Starts(ppi, a)
             y == a # NoAccess
  <2>1. /\ x \in BOOLEAN /\ y \in BOOLEAN
        /\ x <=> ~ppi.pending /\ a \in PureWrites /\ ~ppi.prev
    BY <1>1 DEF Starts
  <2>2. ppi' = [w EXCEPT !.pending = x, !.prev = y, !.reset = FALSE]
    BY <1>4
  <2>3. y <=> a # NoAccess
    OBVIOUS
  <2> HIDE DEF x, y
  <2> QED
    BY <1>3, <2>1, <2>2, <2>3 DEF PpiShape, PpiFields
<1>7. /\ LinesShape(n) /\ n.pa = m.pa /\ n.pb = m.pb
      /\ n.data = IF a = ReadA /\ ~ppi.prev THEN [A |-> lines.pa] ELSE m.data
  <2>1. a.kind = "read" /\ Starts(ppi, a) <=> a = ReadA /\ ~ppi.prev
    BY <1>1 DEF Starts
  <2>2. CASE a = ReadA /\ ~ppi.prev
    <3>1. n = [m EXCEPT !.data = ReadPort(ppi, m, "A")]
      BY <1>1, <2>1, <2>2
    <3>2. ReadPort(ppi, m, "A") = [A |-> m.pa]
      BY DEF ReadPort
    <3> HIDE DEF n
    <3> QED
      BY <1>3, <2>2, <3>1, <3>2 DEF LinesShape, LineFields
  <2>3. CASE ~(a = ReadA /\ ~ppi.prev)
    BY <1>3, <2>1, <2>3
  <2> QED
    BY <2>2, <2>3
<1> HIDE DEF n
<1>8. /\ LinesShape(lines') /\ lines'.pb = n.pb /\ lines'.data = n.data
      /\ n.pb[7] # "H" \/ lines.pb[7] = "H" => lines'.pa = n.pa
  <2>1. LinesShape(n) /\ LinesShape(lines)
    BY <1>7
  <2>2. /\ LinesShape(Switches(n, lines)) /\ Switches(n, lines).pb = n.pb
        /\ Switches(n, lines).data = n.data
        /\ n.pb[7] # "H" \/ lines.pb[7] = "H" => Switches(n, lines).pa = n.pa
    BY <2>1, SwitchesIs
  <2> QED
    BY <1>5, <2>2
<1> HIDE DEF done
<1>9. ChipDone(a) <=>
        /\ PpiShape(ppi') /\ ppi'.aIn /\ ~ppi'.reset
        /\ ppi'.prev <=> a # NoAccess
        /\ ppi'.pending <=> ~ppi.pending /\ a \in PureWrites /\ ~ppi.prev
        /\ ppi'.bIn => ppi.bIn
        /\ done /\ a = SetMode => ~ppi'.bIn
        /\ LinesShape(lines')
        /\ ~done => lines'.pb = lines.pb
        /\ done /\ a = SetMode => lines'.pb[6] = "L" /\ lines'.pb[7] = "L"
        /\ done /\ a = ClearB => lines'.pb[6] = "H" \/ lines'.pb = lines.pb
        /\ done /\ a = EnableB => /\ lines'.pb[6] = "H" \/ lines'.pb = lines.pb
                                  /\ lines'.pb[7] = "L" \/ ppi.bIn
        /\ lines'.data = IF a = ReadA /\ ~ppi.prev THEN [A |-> lines.pa] ELSE lines.data
        /\ lines'.pb[7] # "H" \/ lines.pb[7] = "H" => lines'.pa = lines.pa
  BY DEF ChipDone, done
<1> QED
  BY <1>3, <1>6, <1>7, <1>8, <1>9

\* The program's next record, after a cycle with access a.
NextProg(a, next) ==
  /\ ProgShape(prog') /\ prog'.pc = next.pc /\ prog'.last = next.last
  /\ prog'.card = next.card /\ prog'.a = a /\ prog'.irq = wire.irq
  /\ prog'.read = lines'.data
  /\ prog'.request <=> next.request \/ Edge
  /\ pc' = "kbd" /\ kbd' = kbd /\ ring' = ring

LEMMA CycleOfProgram ==
  ASSUME KeyboardTypes, BusInv, NEW a \in PureAccesses, NEW next, ProgShape(next),
         ChipCycle(a, FALSE, next)
  PROVE  ChipDone(a) /\ NextProg(a, next)
<1>1. /\ ppi' = PpiStep(ppi, a, FALSE)
      /\ lines' = Switches(LinesStep(ppi, lines, a, FALSE), lines)
      /\ pc' = "kbd" /\ kbd' = kbd /\ ring' = ring
  BY DEF ChipCycle
<1>2. ChipDone(a)
  BY <1>1, ChipIs DEF BusInv, KeyboardTypes
<1>3. prog' = [next EXCEPT !.irq = wire.irq, !.request = @ \/ Edge, !.a = a,
                           !.read = lines'.data]
  BY DEF ChipCycle
<1> DEFINE e == next.request \/ Edge
<1>4. e \in BOOLEAN /\ (e <=> next.request \/ Edge)
  OBVIOUS
<1>5. prog' = [next EXCEPT !.irq = wire.irq, !.request = e, !.a = a, !.read = lines'.data]
  BY <1>3
<1> HIDE DEF e
<1>6. /\ ProgShape(prog') /\ prog'.pc = next.pc /\ prog'.last = next.last
      /\ prog'.card = next.card /\ prog'.a = a /\ prog'.irq = wire.irq
      /\ prog'.read = lines'.data /\ prog'.request = e
  BY <1>5, <1>4 DEF ProgShape, ProgFields
<1> QED
  BY <1>1, <1>2, <1>4, <1>6 DEF NextProg

\* Which access follows which: an access begins from none and from its second
\* cycle goes on to its end.
Begins(a, next) ==
  /\ prog.a = NoAccess
  /\ \/ a = NoAccess /\ next.pc = prog.pc
     \/ a = NoAccess /\ prog.pc = "ack" /\ next.pc = "main"
     \/ a = SetMode /\ prog.pc = "start" /\ next.pc = "main" /\ ~next.last
     \/ a = ReadA /\ prog.pc = "main" /\ next.pc = "clear" /\ ~next.last
     \/ a = ClearB /\ prog.pc = "clear" /\ next.pc = "enable" /\ ~next.last
     \/ a = EnableB /\ prog.pc = "enable" /\ next.pc = "ack" /\ ~next.last
GoesOn(a, next) ==
  /\ prog.a # NoAccess /\ next.pc = prog.pc
  /\ \/ a = prog.a /\ ~prog.last /\ next.last
     \/ a = NoAccess /\ prog.last

LEMMA BusStep ==
  ASSUME KeyboardTypes, BusInv, QuietInv, NEW a \in PureAccesses, NEW next,
         ChipDone(a), NextProg(a, next), Begins(a, next) \/ GoesOn(a, next),
         wire'.ready = "H" => wire.ready = "H" \/ (prog.pc # "start" /\ a # SetMode)
  PROVE  BusInv' /\ QuietInv'
<1> DEFINE done == ppi.pending /\ a \in PureWrites
<1>1. /\ ppi.prev \in BOOLEAN /\ ppi.pending \in BOOLEAN /\ prog.last \in BOOLEAN
      /\ ppi.prev <=> prog.a # NoAccess
      /\ ppi.pending <=> prog.a \in PureWrites /\ ~prog.last
      /\ prog.a \in PureAccesses
  <2>1. prog.a \in PureAccesses
    BY DEF BusInv, PureAccesses
  <2> QED
    BY <2>1, AccessKinds DEF BusInv, PpiShape, ProgShape
<1>2. /\ a.kind = "write" <=> a \in PureWrites
      /\ NoAccess \notin PureWrites /\ ReadA \notin PureWrites
      /\ SetMode # NoAccess /\ ReadA # NoAccess /\ ClearB # NoAccess /\ EnableB # NoAccess
      /\ SetMode \notin {ReadA, ClearB, EnableB} /\ ReadA \notin {ClearB, EnableB}
      /\ {SetMode, ClearB, EnableB} = PureWrites /\ ClearB # EnableB
  BY AccessKinds DEF PureWrites
<1>3. /\ prog'.a = a /\ prog'.pc = next.pc /\ prog'.last = next.last /\ kbd' = kbd
      /\ ring' = ring /\ pc' = "kbd" /\ prog'.read = lines'.data /\ ProgShape(prog')
  BY DEF NextProg
<1>4. prog'.last \in BOOLEAN
  BY <1>3 DEF ProgShape
<1>5. ppi'.pending <=> prog'.a \in PureWrites /\ ~prog'.last
  <2>1. ppi'.pending <=> ~ppi.pending /\ a \in PureWrites /\ ~ppi.prev
    BY DEF ChipDone
  <2>2. CASE Begins(a, next)
    BY <1>1, <1>2, <1>3, <2>1, <2>2 DEF Begins
  <2>3. CASE GoesOn(a, next)
    BY <1>1, <1>2, <1>3, <2>1, <2>3 DEF GoesOn
  <2> QED
    BY <2>2, <2>3
<1>6. \/ prog'.pc = "start" /\ prog'.a = NoAccess
      \/ prog'.pc = "main" /\ prog'.a \in {NoAccess, SetMode}
      \/ prog'.pc = "clear" /\ prog'.a \in {NoAccess, ReadA}
      \/ prog'.pc = "enable" /\ prog'.a \in {NoAccess, ClearB}
      \/ prog'.pc = "ack" /\ prog'.a \in {NoAccess, EnableB}
  <2>1. \/ prog.pc = "start" /\ prog.a = NoAccess
        \/ prog.pc = "main" /\ prog.a \in {NoAccess, SetMode}
        \/ prog.pc = "clear" /\ prog.a \in {NoAccess, ReadA}
        \/ prog.pc = "enable" /\ prog.a \in {NoAccess, ClearB}
        \/ prog.pc = "ack" /\ prog.a \in {NoAccess, EnableB}
    BY DEF BusInv
  <2>2. CASE Begins(a, next)
    BY <1>3, <2>1, <2>2 DEF Begins
  <2>3. CASE GoesOn(a, next)
    BY <1>3, <2>1, <2>3 DEF GoesOn
  <2> QED
    BY <2>2, <2>3
\* How the write was brought about.
<1>7. done => GoesOn(a, next) /\ a = prog.a /\ ~prog.last /\ next.last
  BY <1>1, <1>2 DEF Begins, GoesOn
<1>8. /\ ppi'.bIn => ppi.bIn
      /\ done /\ a = SetMode => ~ppi'.bIn /\ lines'.pb[6] = "L" /\ lines'.pb[7] = "L"
      /\ ~done => lines'.pb = lines.pb
      /\ done /\ a = ClearB => lines'.pb[6] = "H" \/ lines'.pb = lines.pb
      /\ done /\ a = EnableB => /\ lines'.pb[6] = "H" \/ lines'.pb = lines.pb
                                /\ lines'.pb[7] = "L" \/ ppi.bIn
  BY DEF ChipDone
<1>9. /\ ppi.bIn => prog.pc = "start" \/ (prog.a = SetMode /\ ~prog.last)
      /\ lines.pb[7] = "H" =>
           prog.pc = "enable" \/ (prog.pc = "ack" /\ prog.a = EnableB /\ ~prog.last)
      /\ prog.pc = "start" \/ prog.a = SetMode =>
           /\ lines.pb[6] # "H" /\ kbd.pb6 # "H"
           /\ ~kbd.armed /\ wire.ready # "H"
      /\ prog.pc = "start" => prog.a = NoAccess
      /\ prog.a = SetMode => prog.pc = "main"
      /\ prog.a = EnableB => prog.pc = "ack"
      /\ prog.a = ClearB => prog.pc = "enable"
  <2>1. /\ ppi.bIn => prog.pc = "start" \/ (prog.a = SetMode /\ ~prog.last)
        /\ lines.pb[7] = "H" =>
             prog.pc = "enable" \/ (prog.pc = "ack" /\ prog.a = EnableB /\ ~prog.last)
        /\ prog.pc = "start" \/ prog.a = SetMode =>
             /\ lines.pb[6] # "H" /\ kbd.pb6 # "H"
             /\ ~kbd.armed /\ wire.ready # "H"
    BY DEF BusInv
  <2>2. \/ prog.pc = "start" /\ prog.a = NoAccess
        \/ prog.pc = "main" /\ prog.a \in {NoAccess, SetMode}
        \/ prog.pc = "clear" /\ prog.a \in {NoAccess, ReadA}
        \/ prog.pc = "enable" /\ prog.a \in {NoAccess, ClearB}
        \/ prog.pc = "ack" /\ prog.a \in {NoAccess, EnableB}
    BY DEF BusInv
  <2>3. /\ prog.pc = "start" => prog.a = NoAccess
        /\ prog.a = SetMode => prog.pc = "main"
        /\ prog.a = EnableB => prog.pc = "ack"
        /\ prog.a = ClearB => prog.pc = "enable"
    BY <1>2, <2>2
  <2> QED
    BY <2>1, <2>3
<1> HIDE DEF done
<1>10. ppi'.bIn => prog'.pc = "start" \/ (prog'.a = SetMode /\ ~prog'.last)
  <2>1. CASE Begins(a, next)
    BY <1>2, <1>3, <1>8, <1>9, <2>1 DEF Begins
  <2>2. CASE GoesOn(a, next)
    <3>1. a = prog.a /\ ~prog.last => (done <=> a \in PureWrites)
      BY <1>1 DEF done
    <3> QED
      BY <1>2, <1>3, <1>8, <1>9, <2>2, <3>1 DEF GoesOn
  <2> QED
    BY <2>1, <2>2
<1>11. lines'.pb[7] = "H" =>
         prog'.pc = "enable" \/ (prog'.pc = "ack" /\ prog'.a = EnableB /\ ~prog'.last)
  <2>1. CASE Begins(a, next)
    <3>1. lines'.pb = lines.pb
      BY <1>7, <1>8, <2>1 DEF Begins, GoesOn
    <3> QED
      BY <1>2, <1>3, <1>9, <2>1, <3>1 DEF Begins
  <2>2. CASE GoesOn(a, next)
    <3>1. a = prog.a /\ ~prog.last => (done <=> a \in PureWrites)
      BY <1>1 DEF done
    <3>2. prog'.pc = prog.pc
      BY <1>3, <2>2 DEF GoesOn
    <3>3. CASE done
      <4>1. a \in PureWrites
        BY <3>3 DEF done
      <4> QED
        BY <1>2, <1>3, <1>7, <1>8, <1>9, <3>2, <3>3, <4>1 DEF PureWrites
    <3>4. CASE ~done
      <4>1. lines'.pb = lines.pb
        BY <1>8, <3>4
      <4> QED
        BY <1>2, <1>9, <2>2, <3>1, <3>2, <3>4, <4>1 DEF GoesOn
    <3> QED
      BY <3>3, <3>4
  <2> QED
    BY <2>1, <2>2
<1>12. prog'.pc = "start" \/ prog'.a = SetMode =>
         /\ lines'.pb[6] # "H" /\ kbd'.pb6 # "H"
         /\ ~kbd'.armed /\ wire'.ready # "H"
  <2>1. ASSUME prog'.pc = "start" \/ prog'.a = SetMode
        PROVE  prog.pc = "start" \/ prog.a = SetMode
    BY <1>2, <1>3, <1>9, <2>1 DEF Begins, GoesOn
  <2>2. ASSUME prog'.pc = "start" \/ prog'.a = SetMode
        PROVE  prog.pc = "start" \/ a = SetMode
    BY <1>2, <1>3, <1>9, <2>2 DEF Begins, GoesOn
  <2>3. ASSUME prog'.pc = "start" \/ prog'.a = SetMode
        PROVE  lines'.pb[6] # "H"
    <3>1. CASE done
      <4>1. a \in PureWrites /\ a = prog.a
        BY <1>7, <3>1 DEF done
      <4>2. a = SetMode
        BY <1>2, <1>9, <2>1, <2>3, <4>1
      <4> QED
        BY <1>8, <3>1, <4>2
    <3>2. CASE ~done
      BY <1>8, <1>9, <2>1, <2>3, <3>2
    <3> QED
      BY <3>1, <3>2
  <2> QED
    BY <1>3, <1>9, <2>1, <2>2, <2>3
<1>13. kbd'.pb6 = "H" => lines'.pb[6] = "H"
  <2>1. kbd.pb6 = "H" => lines.pb[6] = "H" /\ prog.a # SetMode
    BY <1>9 DEF QuietInv
  <2>2. CASE done
    <3>1. a = prog.a /\ a \in PureWrites
      BY <1>7, <2>2 DEF done
    <3> QED
      BY <1>2, <1>3, <1>8, <2>1, <2>2, <3>1
  <2>3. CASE ~done
    BY <1>3, <1>8, <2>1, <2>3
  <2> QED
    BY <2>2, <2>3
<1>14. QuietInv'
  BY <1>3, <1>13 DEF QuietInv
<1>15. prog'.a.kind = "write" <=> prog'.a \in PureWrites
  BY <1>2, <1>3
<1>16. PpiShape(ppi') /\ ~ppi'.reset /\ ppi'.aIn /\ (ppi'.prev <=> prog'.a # NoAccess)
  BY <1>3 DEF ChipDone
<1>17. BusInv'
  BY <1>3, <1>5, <1>6, <1>10, <1>11, <1>12, <1>15, <1>16 DEF BusInv
<1> QED
  BY <1>14, <1>17

\* A step of the program that leaves the handler where it is in its course.
LEMMA PassingStep ==
  ASSUME BusInv, HandshakeInv, NEW a, NEW next,
         ChipDone(a), NextProg(a, next), pc = "program",
         next.request = prog.request,
         wire'.irq = wire.irq, wire'.ack = wire.ack,
         hist'.received = hist.received, hist'.queued = hist.queued,
         \/ next.pc = prog.pc
         \/ prog.pc = "start" /\ next.pc = "main"
         \/ prog.pc = "enable" /\ next.pc = "ack",
         prog.pc = "main" /\ prog.a = NoAccess => a = NoAccess,
         a = ReadA => ppi.prev
  PROVE  HandshakeInv'
<1>1. /\ prog'.pc = next.pc /\ prog'.a = a /\ prog'.irq = wire.irq
      /\ prog'.request <=> next.request \/ Edge
      /\ pc' = "kbd" /\ kbd' = kbd
  BY DEF NextProg
<1>2. Read' = Read
  BY DEF Read
<1>3. /\ hist.received \in Codes
      /\ \A i \in 1 .. Read : hist.received[i] = MaxHost + i
      /\ kbd.waiting => kbd.armed /\ ~kbd.deliver /\ kbd.ack # "H" /\ wire.irq = "H"
  BY DEF HandshakeInv
<1>4. /\ hist'.received \in Codes
      /\ \A i \in 1 .. Read' : hist'.received[i] = MaxHost + i
      /\ kbd'.waiting => kbd'.armed /\ ~kbd'.deliver /\ kbd'.ack # "H" /\ wire'.irq = "H"
  BY <1>1, <1>2, <1>3
<1>5. Edge <=> wire.irq = "H" /\ prog.irq # "H"
  BY DEF Edge
<1>6. lines'.data = lines.data
  BY DEF ChipDone
<1>7. CASE Resting
  <2>1. Resting'
    BY <1>1, <1>2, <1>5, <1>7 DEF Resting
  <2> QED
    BY <1>4, <2>1 DEF HandshakeInv
<1>8. CASE kbd.waiting /\ Showing
  <2>1. Showing'
    <3>1. prog'.request /\ prog'.irq = "H"
      BY <1>1, <1>3, <1>5, <1>8 DEF Showing
    <3>2. prog'.pc = "main" /\ prog'.a = NoAccess
      BY <1>1, <1>8 DEF Showing
    <3> QED
      BY <1>1, <1>2, <1>8, <3>1, <3>2 DEF Showing
  <2> QED
    BY <1>1, <1>4, <1>8, <2>1 DEF HandshakeInv
<1>9. CASE kbd.waiting /\ Taking
  <2>1. Taking'
    BY <1>1, <1>2, <1>3, <1>5, <1>6, <1>9 DEF Taking
  <2> QED
    BY <1>1, <1>4, <1>9, <2>1 DEF HandshakeInv
<1>10. CASE kbd.waiting /\ Handled
  <2>1. Handled'
    BY <1>1, <1>2, <1>3, <1>5, <1>10 DEF Handled
  <2> QED
    BY <1>1, <1>4, <1>10, <2>1 DEF HandshakeInv
<1> QED
  BY <1>7, <1>8, <1>9, <1>10 DEF HandshakeInv, Acking

LEMMA HandlerStep ==
  ASSUME BusInv, HandshakeInv, Handler, ChipDone(ReadA),
         NextProg(ReadA, [prog EXCEPT !.pc = "clear", !.request = FALSE, !.last = FALSE])
  PROVE  HandshakeInv'
<1>1. /\ prog.a = NoAccess /\ pc = "program" /\ prog.pc = "main" /\ prog.request
      /\ wire' = wire /\ hist' = hist
  BY DEF Handler, Free, Access
<1> DEFINE next == [prog EXCEPT !.pc = "clear", !.request = FALSE, !.last = FALSE]
<1>2. next.pc = "clear" /\ next.request = FALSE
  BY DEF BusInv, ProgShape, ProgFields
<1> HIDE DEF next
<1>3. /\ prog'.pc = "clear" /\ prog'.irq = wire.irq /\ (prog'.request <=> Edge)
      /\ pc' = "kbd" /\ kbd' = kbd
  BY <1>2 DEF NextProg, next
<1>4. Edge <=> wire.irq = "H" /\ prog.irq # "H"
  BY DEF Edge
<1>5. kbd.waiting /\ Showing /\ wire.irq = "H" /\ prog.irq = "H" /\ lines.pa = kbd.pa
  BY <1>1 DEF HandshakeInv, Resting, Showing, Taking, Handled, Acking
<1>6. lines'.data = [A |-> lines.pa]
  BY <1>1 DEF ChipDone, BusInv
<1>7. Read' = Read
  BY <1>1 DEF Read
<1>8. Taking'
  BY <1>1, <1>3, <1>4, <1>5, <1>6, <1>7 DEF Taking, Showing
<1> QED
  BY <1>1, <1>3, <1>5, <1>7, <1>8 DEF HandshakeInv

LEMMA ClearStep ==
  ASSUME KeyboardTypes, BusInv, HandshakeInv, ClearKey, ChipDone(ClearB),
         NextProg(ClearB, [prog EXCEPT !.pc = "enable", !.last = FALSE])
  PROVE  HandshakeInv'
<1>1. /\ prog.a = NoAccess /\ pc = "program" /\ prog.pc = "clear" /\ wire' = wire
      /\ hist' = [hist EXCEPT !.received = Append(@, prog.read.A)]
  BY DEF ClearKey, Free, Access
<1> DEFINE next == [prog EXCEPT !.pc = "enable", !.last = FALSE]
<1>2. next.pc = "enable" /\ next.request = prog.request
  BY DEF BusInv, ProgShape, ProgFields
<1> HIDE DEF next
<1>3. /\ prog'.pc = "enable" /\ prog'.irq = wire.irq
      /\ prog'.request <=> prog.request \/ Edge
      /\ pc' = "kbd" /\ kbd' = kbd
  BY <1>2 DEF NextProg, next
<1>4. Edge <=> wire.irq = "H" /\ prog.irq # "H"
  BY DEF Edge
<1>5. /\ kbd.waiting /\ Taking /\ wire.irq = "H"
      /\ kbd.armed /\ ~kbd.deliver /\ kbd.ack # "H"
      /\ hist.received \in Codes
      /\ \A i \in 1 .. Read : hist.received[i] = MaxHost + i
  BY <1>1 DEF HandshakeInv, Resting, Showing, Taking, Handled, Acking
<1> DEFINE x == prog.read.A
<1>6. x = MaxHost + Read + 1 /\ x \in Int /\ Read \in Nat
  <2>1. Read \in Nat /\ MaxHost \in Nat
    BY <1>5, KeyboardAssumption DEF Read, Codes
  <2> QED
    BY <1>5, <2>1 DEF BusInv, Taking
<1>7. hist'.received = Append(hist.received, x) /\ hist'.queued = hist.queued
  BY <1>1 DEF KeyboardTypes, HistShape, HistFields
<1> HIDE DEF x
<1>8. /\ hist'.received \in Codes /\ Read' = Read + 1
      /\ \A i \in 1 .. Read' : hist'.received[i] = MaxHost + i
  <2>1. /\ Append(hist.received, x) \in Codes /\ Len(Append(hist.received, x)) = Read + 1
        /\ \A i \in 1 .. Read : Append(hist.received, x)[i] = hist.received[i]
        /\ Append(hist.received, x)[Read + 1] = x
    BY <1>5, <1>6, AppendProperties DEF Codes, Read
  <2>2. Read' = Read + 1
    BY <1>7, <2>1 DEF Read
  <2>3. ASSUME NEW i \in 1 .. Read + 1 PROVE hist'.received[i] = MaxHost + i
    <3>1. CASE i = Read + 1
      BY <1>6, <1>7, <2>1, <3>1, KeyboardAssumption
    <3>2. CASE i # Read + 1
      <4>1. i \in 1 .. Read
        BY <1>6, <3>2
      <4> QED
        BY <1>5, <1>7, <2>1, <4>1
    <3> QED
      BY <3>1, <3>2
  <2> QED
    BY <1>7, <2>1, <2>2, <2>3
<1>9. Handled'
  BY <1>1, <1>3, <1>4, <1>5, <1>7, <1>8 DEF Taking, Handled
<1> QED
  BY <1>1, <1>3, <1>5, <1>8, <1>9 DEF HandshakeInv

LEMMA AckStep ==
  ASSUME KeyboardTypes, BusInv, HandshakeInv, AckKey, ChipDone(NoAccess),
         NextProg(NoAccess, [prog EXCEPT !.pc = "main"])
  PROVE  HandshakeInv'
<1>1. /\ prog.a = NoAccess /\ pc = "program" /\ prog.pc = "ack" /\ hist' = hist
      /\ wire' = [wire EXCEPT !.ack = "H"]
  BY DEF AckKey, Free
<1>2. wire'.irq = wire.irq /\ wire'.ack = "H"
  BY <1>1 DEF KeyboardTypes, Wires
<1> DEFINE next == [prog EXCEPT !.pc = "main"]
<1>3. next.pc = "main" /\ next.request = prog.request
  BY DEF BusInv, ProgShape, ProgFields
<1> HIDE DEF next
<1>4. /\ prog'.pc = "main" /\ prog'.irq = wire.irq /\ prog'.a = NoAccess
      /\ prog'.request <=> prog.request \/ Edge
      /\ pc' = "kbd" /\ kbd' = kbd
  BY <1>3 DEF NextProg, next
<1>5. Edge <=> wire.irq = "H" /\ prog.irq # "H"
  BY DEF Edge
<1>6. kbd.waiting /\ Handled /\ wire.irq = "H"
  BY <1>1 DEF HandshakeInv, Resting, Showing, Taking, Handled, Acking
<1>7. Read' = Read
  BY <1>1 DEF Read
<1>8. Acking'
  BY <1>1, <1>2, <1>4, <1>5, <1>6, <1>7 DEF Acking, Handled
<1> QED
  BY <1>1, <1>2, <1>4, <1>6, <1>7, <1>8 DEF HandshakeInv

LEMMA QueuedMore ==
  ASSUME NEW q \in Codes, NEW n \in Nat, NEW m \in Nat, Queued(q, n, m)
  PROVE  Queued(Append(q, MaxHost + n + 1), n + 1, m)
<1> DEFINE x == MaxHost + n + 1
<1>1. x \in Int /\ MaxHost \in Nat /\ Len(q) \in Nat
  BY KeyboardAssumption DEF Codes
<1>2. /\ Len(Append(q, x)) = Len(q) + 1
      /\ \A i \in 1 .. Len(q) : Append(q, x)[i] = q[i]
      /\ Append(q, x)[Len(q) + 1] = x
  BY <1>1, AppendProperties DEF Codes
<1>3. x = MaxHost + m + (Len(q) + 1)
  BY <1>1 DEF Queued
<1> HIDE DEF x
<1>4. ASSUME NEW i \in 1 .. Len(q) + 1 PROVE Append(q, x)[i] = MaxHost + m + i
  <2>1. CASE i = Len(q) + 1
    BY <1>2, <1>3, <2>1
  <2>2. CASE i # Len(q) + 1
    <3>1. i \in 1 .. Len(q)
      BY <1>1, <2>2
    <3> QED
      BY <1>2, <3>1 DEF Queued
  <2> QED
    BY <2>1, <2>2
<1>5. m <= n + 1 /\ Len(q) + 1 = (n + 1) - m
  BY <1>1 DEF Queued
<1> QED
  BY <1>2, <1>4, <1>5 DEF Queued, x

LEMMA EnqueueStep ==
  ASSUME KeyboardTypes, BusInv, QuietInv, HandshakeInv, Enqueue
  PROVE  QuietInv' /\ BusInv' /\ HandshakeInv'
<1>1. /\ prog.a = NoAccess /\ pc = "program" /\ prog.pc = "main" /\ pc' = "kbd"
      /\ UNCHANGED <<ppi, lines, wire, ring>>
      /\ kbd' = [kbd EXCEPT !.queue = Append(@, MaxHost + hist.queued + 1)]
  BY DEF Enqueue, Free
<1>2. prog' = [prog EXCEPT !.irq = wire.irq, !.request = @ \/ Edge]
  BY DEF Enqueue
<1>3. /\ ProgShape(prog') /\ prog'.pc = "main" /\ prog'.a = NoAccess
      /\ prog'.last = prog.last /\ prog'.read = prog.read /\ prog'.irq = wire.irq
      /\ prog'.request <=> prog.request \/ Edge
  <2> DEFINE e == prog.request \/ Edge
  <2>1. e \in BOOLEAN /\ (e <=> prog.request \/ Edge)
    OBVIOUS
  <2>2. prog' = [prog EXCEPT !.irq = wire.irq, !.request = e]
    BY <1>2
  <2>3. ProgShape(prog)
    BY DEF BusInv
  <2> HIDE DEF e
  <2> QED
    BY <1>1, <2>1, <2>2, <2>3 DEF ProgShape, ProgFields
<1>4. hist'.received = hist.received /\ hist'.queued = hist.queued + 1
      /\ hist.queued \in Nat
  <2>1. hist' = [hist EXCEPT !.queued = @ + 1, !.early = @ /\ wire.ready # "H"]
    BY DEF Enqueue
  <2>2. ASSUME NEW e, NEW h, h = [hist EXCEPT !.queued = @ + 1, !.early = e]
        PROVE  h.received = hist.received /\ h.queued = hist.queued + 1
    BY <2>2 DEF KeyboardTypes, HistShape, HistFields
  <2> QED
    BY <2>1, <2>2 DEF KeyboardTypes, HistShape
<1>5. /\ kbd.queue \in Codes /\ kbd'.queue = Append(kbd.queue, MaxHost + hist.queued + 1)
      /\ kbd'.armed = kbd.armed /\ kbd'.waiting = kbd.waiting /\ kbd'.deliver = kbd.deliver
      /\ kbd'.ack = kbd.ack /\ kbd'.pb6 = kbd.pb6 /\ kbd'.delay = kbd.delay
      /\ kbd'.resetPending = kbd.resetPending /\ kbd'.pa = kbd.pa
  BY <1>1 DEF KeyboardTypes, Keyboards
<1>6. QuietInv'
  BY <1>1, <1>5 DEF QuietInv
<1>7. BusInv'
  BY <1>1, <1>3, <1>5, AccessKinds DEF BusInv
<1>8. Read' = Read /\ Read \in Nat
  BY <1>4 DEF Read, HandshakeInv, Codes
<1>9. Edge <=> wire.irq = "H" /\ prog.irq # "H"
  BY DEF Edge
<1>10. /\ hist'.received \in Codes
       /\ \A i \in 1 .. Read' : hist'.received[i] = MaxHost + i
       /\ kbd'.waiting => kbd'.armed /\ ~kbd'.deliver /\ kbd'.ack # "H" /\ wire'.irq = "H"
       /\ kbd.waiting => wire.irq = "H"
  BY <1>1, <1>4, <1>5, <1>8 DEF HandshakeInv
<1>11. CASE Resting
  <2>1. Queued(kbd'.queue, hist'.queued, Read')
    <3>1. Queued(kbd.queue, hist.queued, Read)
      BY <1>11 DEF Resting
    <3>2. Queued(Append(kbd.queue, MaxHost + hist.queued + 1), hist.queued + 1, Read)
      BY <1>4, <1>5, <1>8, <3>1, QueuedMore
    <3> QED
      BY <1>4, <1>5, <1>8, <3>2
  <2>2. Resting'
    BY <1>1, <1>3, <1>5, <1>9, <1>11, <2>1 DEF Resting
  <2> QED
    BY <1>6, <1>7, <1>10, <2>2 DEF HandshakeInv
<1>12. CASE kbd.waiting /\ Showing
  <2>1. Queued(kbd'.queue, hist'.queued, Read' + 1)
    <3>1. Queued(kbd.queue, hist.queued, Read + 1) /\ Read + 1 \in Nat
      BY <1>8, <1>12 DEF Showing
    <3>2. Queued(Append(kbd.queue, MaxHost + hist.queued + 1), hist.queued + 1, Read + 1)
      BY <1>4, <1>5, <3>1, QueuedMore
    <3> QED
      BY <1>4, <1>5, <1>8, <3>2
  <2>2. prog'.request /\ prog'.irq = "H"
    BY <1>3, <1>9, <1>10, <1>12 DEF Showing
  <2>3. Showing'
    BY <1>1, <1>3, <1>5, <1>8, <1>12, <2>1, <2>2 DEF Showing
  <2> QED
    BY <1>5, <1>6, <1>7, <1>10, <1>12, <2>3 DEF HandshakeInv
<1>13. Resting \/ (kbd.waiting /\ Showing)
  BY <1>1 DEF HandshakeInv, Taking, Handled, Acking
<1> QED
  BY <1>11, <1>12, <1>13

\* The keyboard's record in such a run: no reset, nothing to count down.
LEMMA NoReset ==
  ASSUME KeyboardTypes, QuietInv
  PROVE  Countdown(KbdReset(kbd)) = kbd
<1>1. kbd \in Keyboards
  BY DEF KeyboardTypes
<1>2. ~(kbd.resetPending \/ (lines.pb[6] = "L" /\ kbd.pb6 = "H")) /\ kbd.resetPending = FALSE
  BY <1>1 DEF QuietInv, Keyboards
<1>3. KbdReset(kbd) = [kbd EXCEPT !.resetPending = FALSE]
  BY <1>2 DEF KbdReset
<1>4. KbdReset(kbd) = kbd
  BY <1>1, <1>2, <1>3 DEF Keyboards
<1> QED
  BY <1>4 DEF Countdown, QuietInv

LEMMA PresentedMore ==
  ASSUME NEW k \in Keyboards, NEW p, p = Presented(k)
  PROVE  /\ p.waiting = (k.waiting \/ Presents(k))
         /\ p.pa = IF Presents(k) THEN Head(k.queue) ELSE k.pa
         /\ p.delay = k.delay /\ p.resetPending = k.resetPending
<1> DEFINE d == Delivered(k)
<1>0. k.queue \in Codes
  BY DEF Keyboards
<1>1. /\ d \in Keyboards /\ d.waiting = (k.waiting \/ Delivers(k))
      /\ d.pa = IF Delivers(k) THEN Head(k.queue) ELSE k.pa
      /\ d.delay = k.delay /\ d.resetPending = k.resetPending
  <2>1. d \in Keyboards /\ d.waiting = (k.waiting \/ Delivers(k))
    BY DeliveredIs
  <2>2. CASE Delivers(k)
    BY <2>1, <2>2 DEF Delivered, Keyboards
  <2>3. CASE ~Delivers(k)
    BY <2>1, <2>3 DEF Delivered, Keyboards
  <2> QED
    BY <2>2, <2>3
<1> HIDE DEF d
<1>2. CASE Arms(k)
  <2>1. p = [d EXCEPT !.armed = TRUE] /\ (Presents(k) <=> Delivers(k))
    BY <1>2 DEF Presented, Presents, d
  <2>2. /\ p.waiting = d.waiting /\ p.pa = d.pa /\ p.delay = d.delay
        /\ p.resetPending = d.resetPending
    BY <1>1, <2>1 DEF Keyboards
  <2> QED
    BY <1>1, <2>1, <2>2
<1>3. CASE ~Arms(k) /\ k.armed /\ k.deliver
  <2>1. p = [d EXCEPT !.deliver = FALSE] /\ (Presents(k) <=> Delivers(k))
    BY <1>3 DEF Presented, Presents, d
  <2>2. /\ p.waiting = d.waiting /\ p.pa = d.pa /\ p.delay = d.delay
        /\ p.resetPending = d.resetPending
    BY <1>1, <2>1 DEF Keyboards
  <2> QED
    BY <1>1, <2>1, <2>2
<1>4. CASE ~Arms(k) /\ ~(k.armed /\ k.deliver)
  <2>1. p = k /\ ~Presents(k)
    BY <1>4 DEF Presented, Presents
  <2>2. p.waiting = (k.waiting \/ Presents(k))
    BY <2>1 DEF Keyboards
  <2> QED
    BY <2>1, <2>2
<1> QED
  BY <1>2, <1>3, <1>4

\* The acknowledge is taken.
Acks == kbd.armed /\ wire.ack = "H" /\ kbd.ack # "H" /\ (kbd.waiting \/ Presents(kbd))

PureCycleDone ==
  /\ kbd'.queue = IF Presents(kbd) THEN Tail(kbd.queue) ELSE kbd.queue
  /\ kbd'.armed <=> kbd.armed \/ Arms(kbd)
  /\ kbd'.waiting <=> (kbd.waiting \/ Presents(kbd)) /\ ~Acks
  /\ kbd'.deliver => Acks \/ (kbd.deliver /\ ~kbd.armed)
  /\ lines.pb[7] # "H" /\ ~Acks =>
       kbd'.pa = IF Presents(kbd) THEN Head(kbd.queue) ELSE kbd.pa
  /\ kbd'.ack = wire.ack /\ kbd'.pb6 = lines.pb[6]
  /\ kbd'.delay = 0 /\ ~kbd'.resetPending
  /\ lines'.pb = lines.pb /\ lines'.data = lines.data
  /\ kbd.armed => lines'.pa = kbd'.pa
  /\ wire'.irq = IF Acks THEN "L" ELSE IF Presents(kbd) THEN "H" ELSE wire.irq
  /\ wire'.ack = IF Acks THEN "L" ELSE wire.ack
  /\ wire'.ready = wire.ready
  /\ hist'.received = hist.received /\ hist'.queued = hist.queued
  /\ prog' = prog /\ ppi' = ppi /\ ring' = ring /\ pc = "kbd" /\ pc' = "program"

LEMMA PureCycleIs ==
  ASSUME KeyboardTypes, QuietInv, KeyboardCycle
  PROVE  PureCycleDone
<1> DEFINE r == kbd
           p == Presented(r)
           c == IF r.armed /\ lines.pb[7] = "H" THEN [p EXCEPT !.pa = Zero] ELSE p
           acked == r.armed /\ Rises(wire.ack, r.ack) /\ c.waiting
           a == IF acked THEN Acknowledged(c) ELSE c
<1>1. /\ kbd \in Keyboards /\ wire \in Wires /\ LinesShape(lines) /\ HistShape(hist)
  BY DEF KeyboardTypes
<1>2. /\ kbd' = [a EXCEPT !.ready = wire.ready, !.ack = wire.ack,
                          !.pb6 = lines.pb[6]]
      /\ wire' = [wire EXCEPT
                   !.irq = IF acked THEN (IF a.waiting THEN "H" ELSE "L")
                           ELSE IF Presents(r) THEN "H" ELSE @,
                   !.ack = IF acked THEN "L" ELSE @]
      /\ lines' = IF r.armed THEN [lines EXCEPT !.pa = a.pa] ELSE lines
      /\ prog' = prog /\ ppi' = ppi /\ ring' = ring /\ pc = "kbd" /\ pc' = "program"
  BY NoReset DEF KeyboardCycle
<1>3. \E s : hist' = [hist EXCEPT !.delivered = s]
  BY DEF KeyboardCycle
<1>4. hist'.received = hist.received /\ hist'.queued = hist.queued
  BY <1>1, <1>3 DEF HistShape, HistFields
<1>5. /\ p \in Keyboards
      /\ p.queue = IF Presents(r) THEN Tail(r.queue) ELSE r.queue
      /\ p.deliver => r.deliver /\ ~r.armed
      /\ p.armed = (r.armed \/ Arms(r))
      /\ p.waiting = (r.waiting \/ Presents(r))
      /\ p.pa = IF Presents(r) THEN Head(r.queue) ELSE r.pa
      /\ p.delay = r.delay /\ p.resetPending = r.resetPending
  BY <1>1, PresentedIs, PresentedMore
<1> HIDE DEF p
<1>6. /\ c \in Keyboards /\ c.queue = p.queue /\ c.deliver = p.deliver
      /\ c.armed = p.armed /\ c.waiting = p.waiting /\ c.delay = p.delay
      /\ c.resetPending = p.resetPending
      /\ lines.pb[7] # "H" => c.pa = p.pa
  <2>1. CASE r.armed /\ lines.pb[7] = "H"
    BY <1>5, <2>1 DEF Keyboards, Zero
  <2>2. CASE ~(r.armed /\ lines.pb[7] = "H")
    BY <1>5, <2>2
  <2> QED
    BY <2>1, <2>2
<1> HIDE DEF c
<1>7. acked <=> Acks
  BY <1>1, <1>5, <1>6 DEF Acks, Rises, Keyboards
<1>8. /\ a \in Keyboards /\ a.queue = c.queue /\ a.armed = c.armed
      /\ a.delay = c.delay /\ a.resetPending = c.resetPending
      /\ acked => ~a.waiting
      /\ ~acked => a = c
  <2> DEFINE n == Acknowledged(c)
  <2>1. CASE acked
    <3>1. n \in Keyboards /\ n.queue = c.queue /\ n.armed = c.armed /\ n.deliver /\ ~n.waiting
      BY <1>6, AcknowledgedIs
    <3>2. n.delay = c.delay /\ n.resetPending = c.resetPending
      BY <1>6 DEF Acknowledged, Keyboards
    <3>3. a = n
      BY <2>1
    <3> HIDE DEF n, a, acked
    <3> QED
      BY <2>1, <3>1, <3>2, <3>3
  <2>2. CASE ~acked
    <3>1. a = c
      BY <2>2
    <3> HIDE DEF n, a, acked
    <3> QED
      BY <1>6, <2>2, <3>1
  <2> QED
    BY <2>1, <2>2
<1> HIDE DEF acked, a
<1>9. /\ kbd'.queue = a.queue /\ kbd'.armed = a.armed /\ kbd'.waiting = a.waiting
      /\ kbd'.deliver = a.deliver /\ kbd'.pa = a.pa
      /\ kbd'.delay = a.delay /\ kbd'.resetPending = a.resetPending
      /\ kbd'.ack = wire.ack /\ kbd'.pb6 = lines.pb[6]
  BY <1>2, <1>8 DEF Keyboards
<1>10. /\ acked => wire'.irq = "L" /\ wire'.ack = "L"
       /\ ~acked => /\ wire'.irq = IF Presents(r) THEN "H" ELSE wire.irq
                    /\ wire'.ack = wire.ack
       /\ wire'.ready = wire.ready
  BY <1>1, <1>2, <1>8 DEF Wires
<1>11. /\ lines'.pb = lines.pb /\ lines'.data = lines.data
       /\ kbd.armed => lines'.pa = a.pa
  BY <1>1, <1>2 DEF LinesShape, LineFields
<1>12. kbd.delay = 0 /\ ~kbd.resetPending
  BY DEF QuietInv
<1>13. kbd'.waiting <=> (kbd.waiting \/ Presents(kbd)) /\ ~Acks
  BY <1>5, <1>6, <1>7, <1>8, <1>9
<1>14. kbd'.deliver => Acks \/ (kbd.deliver /\ ~kbd.armed)
  BY <1>5, <1>6, <1>7, <1>8, <1>9
<1>15. lines.pb[7] # "H" /\ ~Acks =>
         kbd'.pa = IF Presents(kbd) THEN Head(kbd.queue) ELSE kbd.pa
  BY <1>5, <1>6, <1>7, <1>8, <1>9
<1>16. kbd'.armed <=> kbd.armed \/ Arms(kbd)
  BY <1>5, <1>6, <1>8, <1>9
<1> QED
  BY <1>2, <1>4, <1>5, <1>6, <1>7, <1>8, <1>9, <1>10, <1>11, <1>12, <1>13, <1>14,
     <1>15, <1>16 DEF PureCycleDone

\* The first code of the program's in the queue is the next one to be read.
LEMMA QueuedHead ==
  ASSUME NEW q \in Codes, q # <<>>, NEW n \in Nat, NEW m \in Nat, Queued(q, n, m)
  PROVE  Head(q) = MaxHost + m + 1 /\ Queued(Tail(q), n, m + 1)
<1>1. /\ Len(q) \in Nat \ {0} /\ Len(Tail(q)) = Len(q) - 1
      /\ \A i \in 1 .. Len(Tail(q)) : Tail(q)[i] = q[i + 1]
  BY HeadTailProperties, EmptySeq DEF Codes
<1>2. Head(q) = q[1]
  BY DEF Codes
<1>3. 1 \in 1 .. Len(q)
  BY <1>1
<1>4. Head(q) = MaxHost + m + 1
  BY <1>2, <1>3 DEF Queued
<1>5. m + 1 <= n /\ Len(Tail(q)) = n - (m + 1)
  BY <1>1 DEF Queued
<1>6. ASSUME NEW i \in 1 .. Len(Tail(q)) PROVE Tail(q)[i] = MaxHost + (m + 1) + i
  <2>1. i + 1 \in 1 .. Len(q) /\ i \in Int
    BY <1>1
  <2>2. q[i + 1] = MaxHost + m + (i + 1)
    BY <2>1 DEF Queued
  <2> QED
    BY <1>1, <2>1, <2>2, KeyboardAssumption
<1> QED
  BY <1>4, <1>5, <1>6 DEF Queued

LEMMA CyclePure ==
  ASSUME KeyboardTypes, EdgeInv, QuietInv, BusInv, HandshakeInv, KeyboardCycle
  PROVE  QuietInv' /\ BusInv' /\ HandshakeInv'
<1>1. PureCycleDone
  BY PureCycleIs
<1>2. /\ kbd'.queue = IF Presents(kbd) THEN Tail(kbd.queue) ELSE kbd.queue
      /\ kbd'.armed <=> kbd.armed \/ Arms(kbd)
      /\ kbd'.waiting <=> (kbd.waiting \/ Presents(kbd)) /\ ~Acks
      /\ kbd'.deliver => Acks \/ (kbd.deliver /\ ~kbd.armed)
      /\ lines.pb[7] # "H" /\ ~Acks =>
           kbd'.pa = IF Presents(kbd) THEN Head(kbd.queue) ELSE kbd.pa
      /\ kbd'.ack = wire.ack /\ kbd'.pb6 = lines.pb[6]
      /\ kbd'.delay = 0 /\ ~kbd'.resetPending
      /\ lines'.pb = lines.pb /\ lines'.data = lines.data
      /\ kbd.armed => lines'.pa = kbd'.pa
  BY <1>1 DEF PureCycleDone
<1>3. /\ wire'.irq = IF Acks THEN "L" ELSE IF Presents(kbd) THEN "H" ELSE wire.irq
      /\ wire'.ack = IF Acks THEN "L" ELSE wire.ack
      /\ wire'.ready = wire.ready
      /\ hist'.received = hist.received /\ hist'.queued = hist.queued
      /\ prog' = prog /\ ppi' = ppi /\ ring' = ring /\ pc = "kbd" /\ pc' = "program"
  BY <1>1 DEF PureCycleDone
<1>4. /\ Arms(kbd) => ~kbd.armed /\ wire.ready = "H"
      /\ Presents(kbd) => Arms(kbd) \/ (kbd.armed /\ kbd.deliver)
      /\ Presents(kbd) => kbd.queue # <<>>
      /\ Acks => wire.ack = "H" /\ kbd.armed /\ (kbd.waiting \/ Presents(kbd))
      /\ kbd.armed /\ wire.ack = "H" /\ kbd.ack # "H" /\ kbd.waiting => Acks
  BY DEF Arms, Presents, Rises, Delivers, Acks
<1>5. QuietInv'
  BY <1>2, <1>3 DEF QuietInv
<1>6. BusInv'
  <2>1. prog.pc = "start" \/ prog.a = SetMode =>
          /\ lines.pb[6] # "H" /\ ~kbd.armed /\ wire.ready # "H"
    BY DEF BusInv
  <2>2. prog'.pc = "start" \/ prog'.a = SetMode =>
          /\ lines'.pb[6] # "H" /\ kbd'.pb6 # "H"
          /\ ~kbd'.armed /\ wire'.ready # "H"
    BY <1>2, <1>3, <1>4, <2>1
  <2> QED
    BY <1>2, <1>3, <2>2 DEF BusInv
<1>7. Read' = Read /\ Read \in Nat /\ hist.queued \in Nat /\ kbd.queue \in Codes
  BY <1>3 DEF Read, HandshakeInv, Codes, KeyboardTypes, HistShape, Keyboards
<1>8. /\ hist'.received \in Codes
      /\ \A i \in 1 .. Read' : hist'.received[i] = MaxHost + i
      /\ kbd.waiting => kbd.armed /\ ~kbd.deliver /\ kbd.ack # "H" /\ wire.irq = "H"
  BY <1>3, <1>7 DEF HandshakeInv
\* Nothing is presented while a code waits for its acknowledge.
<1>9. kbd.waiting => ~Presents(kbd) /\ kbd'.queue = kbd.queue
  BY <1>2, <1>4, <1>8
<1>10. CASE Resting
  <2>1. ~Acks /\ wire'.ack # "H"
    BY <1>3, <1>4, <1>10 DEF Resting
  <2>2. CASE Presents(kbd)
    <3>1. kbd'.waiting /\ wire'.irq = "H" /\ kbd'.ack # "H" /\ kbd'.armed
      BY <1>2, <1>3, <1>4, <1>10, <2>1, <2>2 DEF Resting
    <3>2. ~kbd'.deliver
      BY <1>2, <1>4, <2>1, <2>2 DEF EdgeInv
    <3>3. prog.pc = "main" /\ prog.a = NoAccess
      <4>1. prog.pc # "start" /\ prog.a # SetMode
        BY <1>4, <2>2 DEF BusInv
      <4> QED
        BY <1>10, <4>1 DEF BusInv, Resting
    <3>4. lines.pb[7] # "H"
      BY <3>3 DEF BusInv
    <3>5. kbd'.pa = Head(kbd.queue) /\ kbd'.queue = Tail(kbd.queue) /\ kbd.queue # <<>>
      BY <1>2, <1>4, <2>1, <2>2, <3>4
    <3>6. Queued(kbd.queue, hist.queued, Read)
      BY <1>10 DEF Resting
    <3>7. Head(kbd.queue) = MaxHost + Read + 1 /\ Queued(Tail(kbd.queue), hist.queued, Read + 1)
      BY <1>7, <3>5, <3>6, QueuedHead
    <3>8. ~prog.request /\ prog.irq # "H"
      BY <1>3, <1>10 DEF Resting
    <3>9. Showing'
      BY <1>3, <1>7, <2>1, <3>3, <3>5, <3>7, <3>8 DEF Showing
    <3> QED
      BY <1>5, <1>6, <1>8, <3>1, <3>2, <3>9 DEF HandshakeInv
  <2>3. CASE ~Presents(kbd)
    <3>1. ~kbd'.waiting /\ wire'.irq = "L" /\ kbd'.queue = kbd.queue
      BY <1>2, <1>3, <1>10, <2>1, <2>3 DEF Resting
    <3>2. Resting'
      BY <1>3, <1>7, <1>10, <2>1, <3>1 DEF Resting
    <3> QED
      BY <1>5, <1>6, <1>8, <3>1, <3>2 DEF HandshakeInv
  <2> QED
    BY <2>2, <2>3
<1>11. CASE kbd.waiting /\ ~Acks
  <2>1. /\ kbd'.waiting /\ kbd'.armed /\ ~kbd'.deliver
        /\ wire'.irq = wire.irq /\ wire'.ack = wire.ack /\ kbd'.ack = wire.ack
        /\ kbd'.queue = kbd.queue
    BY <1>2, <1>3, <1>8, <1>9, <1>11
  <2>2. CASE Showing
    <3>1. lines.pb[7] # "H"
      BY <2>2 DEF Showing, BusInv
    <3>2. kbd'.pa = kbd.pa /\ lines'.pa = kbd'.pa
      BY <1>2, <1>8, <1>9, <1>11, <3>1
    <3>3. prog.request
      BY <1>3, <2>2 DEF Showing
    <3>4. Showing'
      BY <1>3, <1>7, <2>1, <2>2, <3>2, <3>3 DEF Showing
    <3>5. wire.ack # "H"
      BY <2>2 DEF Showing
    <3> QED
      BY <1>5, <1>6, <1>8, <1>11, <2>1, <3>4, <3>5 DEF HandshakeInv
  <2>3. CASE Taking
    <3>1. Taking' /\ wire.ack # "H"
      BY <1>2, <1>3, <1>7, <2>1, <2>3 DEF Taking
    <3> QED
      BY <1>5, <1>6, <1>8, <1>11, <2>1, <3>1 DEF HandshakeInv
  <2>4. CASE Handled
    <3>1. Handled' /\ wire.ack # "H"
      BY <1>3, <1>7, <2>1, <2>4 DEF Handled
    <3> QED
      BY <1>5, <1>6, <1>8, <1>11, <2>1, <3>1 DEF HandshakeInv
  <2>5. CASE Acking
    BY <1>4, <1>8, <1>11, <2>5 DEF Acking
  <2> QED
    BY <1>10, <1>11, <2>2, <2>3, <2>4, <2>5 DEF HandshakeInv
<1>12. CASE kbd.waiting /\ Acks
  <2>1. Acking
    <3>1. wire.ack = "H"
      BY <1>4, <1>12
    <3> QED
      BY <1>12, <3>1 DEF HandshakeInv, Resting, Showing, Taking, Handled
  <2>2. ~kbd'.waiting /\ wire'.irq = "L" /\ wire'.ack = "L" /\ kbd'.queue = kbd.queue
    BY <1>2, <1>3, <1>9, <1>12
  <2>3. Resting'
    BY <1>3, <1>7, <2>1, <2>2 DEF Acking, Resting
  <2> QED
    BY <1>5, <1>6, <1>8, <2>2, <2>3 DEF HandshakeInv
<1> QED
  BY <1>10, <1>11, <1>12 DEF HandshakeInv

LEMMA ProgramPure ==
  ASSUME KeyboardTypes, QuietInv, BusInv, HandshakeInv, Pure, hist'.pure, Program
  PROVE  QuietInv' /\ BusInv' /\ HandshakeInv'
<1>1. /\ ProgShape(prog) /\ prog.read = lines.data /\ prog.card
      /\ prog.pc \in {"start", "main", "clear", "enable", "ack"}
      /\ prog.a \in PureAccesses
      /\ ppi.prev <=> prog.a # NoAccess
  BY DEF BusInv, PureAccesses, Pure
<1>2. /\ NoAccess \in PureAccesses /\ SetMode \in PureAccesses /\ ReadA \in PureAccesses
      /\ ClearB \in PureAccesses /\ EnableB \in PureAccesses
      /\ ReadA # NoAccess /\ SetMode # ReadA /\ ClearB # ReadA /\ EnableB # ReadA
  BY AccessKinds DEF PureAccesses
<1>3. Free => pc = "program" /\ prog.a = NoAccess
  BY DEF Free
<1>4. Counted => ~hist'.pure
  BY DEF Counted, KeyboardTypes, HistShape, HistFields
<1>5. wire \in Wires
  BY DEF KeyboardTypes
\* A cycle that leaves the handler in its course.
<1>6. ASSUME NEW a \in PureAccesses, NEW next, ProgShape(next),
             ChipCycle(a, FALSE, next), pc = "program",
             Begins(a, next) \/ GoesOn(a, next),
             wire'.ready = "H" => wire.ready = "H" \/ (prog.pc # "start" /\ a # SetMode),
             wire'.irq = wire.irq, wire'.ack = wire.ack, hist' = hist,
             next.request = prog.request,
             \/ next.pc = prog.pc
             \/ prog.pc = "start" /\ next.pc = "main"
             \/ prog.pc = "enable" /\ next.pc = "ack",
             prog.pc = "main" /\ prog.a = NoAccess => a = NoAccess,
             a = ReadA => ppi.prev
      PROVE  QuietInv' /\ BusInv' /\ HandshakeInv'
  <2>1. ChipDone(a) /\ NextProg(a, next)
    BY <1>6, CycleOfProgram
  <2>2. BusInv' /\ QuietInv'
    BY <1>6, <2>1, BusStep
  <2>3. HandshakeInv'
    BY <1>6, <2>1, PassingStep
  <2> QED
    BY <2>2, <2>3
<1>7. CASE SetUp
  <2> DEFINE next == [prog EXCEPT !.pc = "main", !.last = FALSE]
  <2>1. /\ pc = "program" /\ prog.a = NoAccess /\ prog.pc = "start"
        /\ wire' = wire /\ hist' = hist
    BY <1>3, <1>7 DEF SetUp, Access
  <2>2. ChipCycle(SetMode, FALSE, [[prog EXCEPT !.pc = "main"] EXCEPT !.last = FALSE])
    BY <1>7 DEF SetUp, Access, SetMode
  <2>3. [[prog EXCEPT !.pc = "main"] EXCEPT !.last = FALSE] = next
    BY <1>1 DEF ProgShape, ProgFields
  <2>4. ChipCycle(SetMode, FALSE, next)
    BY <2>2, <2>3
  <2>5. /\ ProgShape(next) /\ next.pc = "main" /\ next.request = prog.request
        /\ next.last = FALSE
    BY <1>1 DEF ProgShape, ProgFields
  <2> HIDE DEF next
  <2>6. Begins(SetMode, next)
    BY <2>1, <2>5 DEF Begins
  <2>7. /\ wire'.ready = "H" => wire.ready = "H" \/ (prog.pc # "start" /\ SetMode # SetMode)
        /\ wire'.irq = wire.irq /\ wire'.ack = wire.ack
        /\ prog.pc = "start" /\ next.pc = "main"
        /\ prog.pc = "main" /\ prog.a = NoAccess => SetMode = NoAccess
        /\ SetMode = ReadA => ppi.prev
    BY <1>2, <2>1, <2>5
  <2> QED
    BY <1>2, <1>6, <2>1, <2>4, <2>5, <2>6, <2>7
<1>8. CASE Finish
  <2>1. pc = "program" /\ prog.a # NoAccess /\ wire' = wire /\ hist' = hist
    BY <1>8 DEF Finish
  <2>2. CASE ~prog.last /\ ChipCycle(prog.a, FALSE, [prog EXCEPT !.last = TRUE])
    <3> DEFINE next == [prog EXCEPT !.last = TRUE]
    <3>1. /\ ProgShape(next) /\ next.pc = prog.pc /\ next.request = prog.request
          /\ next.last = TRUE
      BY <1>1 DEF ProgShape, ProgFields
    <3>2. ChipCycle(prog.a, FALSE, next)
      BY <2>2
    <3> HIDE DEF next
    <3>3. GoesOn(prog.a, next)
      BY <2>1, <2>2, <3>1 DEF GoesOn
    <3>4. /\ wire'.ready = "H" => wire.ready = "H" \/ (prog.pc # "start" /\ prog.a # SetMode)
          /\ wire'.irq = wire.irq /\ wire'.ack = wire.ack
          /\ prog.pc = "main" /\ prog.a = NoAccess => prog.a = NoAccess
          /\ prog.a = ReadA => ppi.prev
      BY <1>1, <2>1
    <3> QED
      BY <1>1, <1>6, <2>1, <3>1, <3>2, <3>3, <3>4
  <2>3. CASE prog.last /\ ChipCycle(NoAccess, FALSE, [prog EXCEPT !.last = FALSE])
    <3> DEFINE next == [prog EXCEPT !.last = FALSE]
    <3>1. ProgShape(next) /\ next.pc = prog.pc /\ next.request = prog.request
      BY <1>1 DEF ProgShape, ProgFields
    <3>2. ChipCycle(NoAccess, FALSE, next)
      BY <2>3
    <3> HIDE DEF next
    <3>3. GoesOn(NoAccess, next)
      BY <2>1, <2>3, <3>1 DEF GoesOn
    <3>4. /\ wire'.ready = "H" => wire.ready = "H" \/ (prog.pc # "start" /\ NoAccess # SetMode)
          /\ wire'.irq = wire.irq /\ wire'.ack = wire.ack
          /\ prog.pc = "main" /\ prog.a = NoAccess => NoAccess = NoAccess
          /\ NoAccess = ReadA => ppi.prev
      BY <1>2, <2>1
    <3> QED
      BY <1>2, <1>6, <2>1, <3>1, <3>2, <3>3, <3>4
  <2> QED
    BY <1>8, <2>2, <2>3 DEF Finish
<1>9. CASE IdleCycle \/ SetReady
  <2>1. /\ pc = "program" /\ prog.a = NoAccess /\ prog.pc = "main" /\ hist' = hist
        /\ ChipCycle(NoAccess, FALSE, prog)
    BY <1>3, <1>9 DEF IdleCycle, SetReady, Wait
  <2>2. wire'.irq = wire.irq /\ wire'.ack = wire.ack
    BY <1>5, <1>9 DEF IdleCycle, SetReady, Wait, Wires
  <2>3. Begins(NoAccess, prog)
    BY <2>1 DEF Begins
  <2>4. NoAccess # SetMode
    BY AccessKinds
  <2>5. /\ wire'.ready = "H" => wire.ready = "H" \/ (prog.pc # "start" /\ NoAccess # SetMode)
        /\ prog.pc = "main" /\ prog.a = NoAccess => NoAccess = NoAccess
        /\ NoAccess = ReadA => ppi.prev
    BY <1>2, <2>1, <2>4
  <2> QED
    BY <1>1, <1>2, <1>6, <2>1, <2>2, <2>3, <2>5
<1>10. CASE EnableKey
  <2> DEFINE next == [prog EXCEPT !.pc = "ack", !.last = FALSE]
  <2>1. /\ pc = "program" /\ prog.a = NoAccess /\ prog.pc = "enable"
        /\ wire' = wire /\ hist' = hist
    BY <1>3, <1>10 DEF EnableKey, Access
  <2>2. ChipCycle(EnableB, FALSE, [[prog EXCEPT !.pc = "ack"] EXCEPT !.last = FALSE])
    BY <1>1, <1>10 DEF EnableKey, Access, EnableB
  <2>3. [[prog EXCEPT !.pc = "ack"] EXCEPT !.last = FALSE] = next
    BY <1>1 DEF ProgShape, ProgFields
  <2>4. ChipCycle(EnableB, FALSE, next)
    BY <2>2, <2>3
  <2>5. /\ ProgShape(next) /\ next.pc = "ack" /\ next.request = prog.request
        /\ next.last = FALSE
    BY <1>1 DEF ProgShape, ProgFields
  <2> HIDE DEF next
  <2>6. Begins(EnableB, next)
    BY <2>1, <2>5 DEF Begins
  <2>7. /\ wire'.ready = "H" => wire.ready = "H" \/ (prog.pc # "start" /\ EnableB # SetMode)
        /\ wire'.irq = wire.irq /\ wire'.ack = wire.ack
        /\ prog.pc = "enable" /\ next.pc = "ack"
        /\ prog.pc = "main" /\ prog.a = NoAccess => EnableB = NoAccess
        /\ EnableB = ReadA => ppi.prev
    BY <1>2, <2>1, <2>5
  <2> QED
    BY <1>2, <1>6, <2>1, <2>4, <2>5, <2>6, <2>7
<1>11. CASE Handler
  <2> DEFINE next == [prog EXCEPT !.pc = "clear", !.request = FALSE, !.last = FALSE]
  <2>1. pc = "program" /\ prog.a = NoAccess /\ prog.pc = "main" /\ wire' = wire
    BY <1>3, <1>11 DEF Handler, Access
  <2>2. ChipCycle(ReadA, FALSE,
                  [[prog EXCEPT !.pc = "clear", !.request = FALSE] EXCEPT !.last = FALSE])
    BY <1>11 DEF Handler, Access, ReadA
  <2>3. [[prog EXCEPT !.pc = "clear", !.request = FALSE] EXCEPT !.last = FALSE] = next
    BY <1>1 DEF ProgShape, ProgFields
  <2>4. ProgShape(next) /\ next.pc = "clear" /\ next.last = FALSE
    BY <1>1 DEF ProgShape, ProgFields
  <2>5. Begins(ReadA, next)
    BY <2>1, <2>4 DEF Begins
  <2>6. ChipDone(ReadA) /\ NextProg(ReadA, next)
    BY <1>2, <2>2, <2>3, <2>4, CycleOfProgram
  <2>7. BusInv' /\ QuietInv'
    BY <1>2, <2>1, <2>5, <2>6, BusStep
  <2> QED
    BY <1>11, <2>6, <2>7, HandlerStep
<1>12. CASE ClearKey
  <2> DEFINE next == [prog EXCEPT !.pc = "enable", !.last = FALSE]
  <2>1. pc = "program" /\ prog.a = NoAccess /\ prog.pc = "clear" /\ wire' = wire
    BY <1>3, <1>12 DEF ClearKey, Access
  <2>2. ChipCycle(ClearB, FALSE, [[prog EXCEPT !.pc = "enable"] EXCEPT !.last = FALSE])
    BY <1>12 DEF ClearKey, Access, ClearB
  <2>3. [[prog EXCEPT !.pc = "enable"] EXCEPT !.last = FALSE] = next
    BY <1>1 DEF ProgShape, ProgFields
  <2>4. ProgShape(next) /\ next.pc = "enable" /\ next.last = FALSE
    BY <1>1 DEF ProgShape, ProgFields
  <2>5. Begins(ClearB, next)
    BY <2>1, <2>4 DEF Begins
  <2>6. ChipDone(ClearB) /\ NextProg(ClearB, next)
    BY <1>2, <2>2, <2>3, <2>4, CycleOfProgram
  <2>7. BusInv' /\ QuietInv'
    BY <1>2, <2>1, <2>5, <2>6, BusStep
  <2> QED
    BY <1>12, <2>6, <2>7, ClearStep
<1>13. CASE AckKey
  <2> DEFINE next == [prog EXCEPT !.pc = "main"]
  <2>1. /\ pc = "program" /\ prog.a = NoAccess /\ prog.pc = "ack"
        /\ wire' = [wire EXCEPT !.ack = "H"] /\ ChipCycle(NoAccess, FALSE, next)
    BY <1>3, <1>13 DEF AckKey
  <2>2. wire'.ready = wire.ready
    BY <1>5, <2>1 DEF Wires
  <2>3. ProgShape(next) /\ next.pc = "main"
    BY <1>1 DEF ProgShape, ProgFields
  <2>4. Begins(NoAccess, next)
    BY <2>1, <2>3 DEF Begins
  <2>5. ChipDone(NoAccess) /\ NextProg(NoAccess, next)
    BY <1>2, <2>1, <2>3, CycleOfProgram
  <2>6. BusInv' /\ QuietInv'
    BY <1>2, <2>1, <2>2, <2>4, <2>5, BusStep
  <2> QED
    BY <1>13, <2>5, <2>6, AckStep
<1>14. CASE Enqueue
  BY <1>14, EnqueueStep
<1>15. CASE WritePortB \/ ReadAPort \/ WriteOther \/ ResetPulse
  BY <1>4, <1>15 DEF WritePortB, ReadAPort, WriteOther, ResetPulse
<1>16. CASE RestorePortB \/ HoldPortB
  BY <1>1, <1>16 DEF RestorePortB, HoldPortB
<1> QED
  BY <1>7, <1>8, <1>9, <1>10, <1>11, <1>12, <1>13, <1>14, <1>15, <1>16 DEF Program

\* Who acknowledges does not change.
CardShape == prog = [x \in ProgFields |-> prog[x]]

LEMMA CardKept ==
  ASSUME CardShape, [Next]_vars
  PROVE  CardShape' /\ prog'.card = prog.card
<1>1. ASSUME NEW a, NEW rst, NEW next, ChipCycle(a, rst, next),
             next = [x \in ProgFields |-> next[x]], next.card = prog.card
      PROVE  CardShape' /\ prog'.card = prog.card
  <2>1. \E u, v, w : prog' = [next EXCEPT !.irq = u, !.request = v, !.a = a, !.read = w]
    BY <1>1 DEF ChipCycle
  <2> QED
    BY <1>1, <2>1 DEF CardShape, ProgFields
<1>2. /\ \A v : LET n == [prog EXCEPT !.pc = v] IN
           n = [x \in ProgFields |-> n[x]] /\ n.card = prog.card
      /\ \A v : LET n == [prog EXCEPT !.last = v] IN
           n = [x \in ProgFields |-> n[x]] /\ n.card = prog.card
      /\ prog = [x \in ProgFields |-> prog[x]]
  BY DEF CardShape, ProgFields
<1>3. CASE SetUp \/ WritePortB \/ RestorePortB \/ EnableKey \/ ClearKey
  <2>1. \E a, v : ChipCycle(a, FALSE, [[prog EXCEPT !.pc = v] EXCEPT !.last = FALSE])
    BY <1>3 DEF SetUp, WritePortB, RestorePortB, EnableKey, ClearKey, Access
  <2>2. \A v : LET n == [[prog EXCEPT !.pc = v] EXCEPT !.last = FALSE] IN
          n = [x \in ProgFields |-> n[x]] /\ n.card = prog.card
    BY DEF CardShape, ProgFields
  <2> QED
    BY <1>1, <2>1, <2>2
<1>4. CASE Handler
  <2> DEFINE n == [[prog EXCEPT !.pc = "clear", !.request = FALSE] EXCEPT !.last = FALSE]
  <2>1. \E a : ChipCycle(a, FALSE, n)
    BY <1>4 DEF Handler, Access
  <2>2. n = [x \in ProgFields |-> n[x]] /\ n.card = prog.card
    BY DEF CardShape, ProgFields
  <2> HIDE DEF n
  <2> QED
    BY <1>1, <2>1, <2>2
<1>5. CASE ReadAPort \/ WriteOther
  BY <1>1, <1>2, <1>5 DEF ReadAPort, WriteOther, Access
<1>6. CASE Finish
  BY <1>1, <1>2, <1>6 DEF Finish
<1>7. CASE HoldPortB \/ IdleCycle \/ SetReady
  BY <1>1, <1>2, <1>7 DEF HoldPortB, IdleCycle, SetReady, Wait
<1>8. CASE ResetPulse \/ AckKey
  BY <1>1, <1>2, <1>8 DEF ResetPulse, AckKey
<1>9. CASE Enqueue
  <2>1. \E u, v : prog' = [prog EXCEPT !.irq = u, !.request = v]
    BY <1>9 DEF Enqueue
  <2> QED
    BY <2>1 DEF CardShape, ProgFields
<1>10. CASE KeyboardThread \/ Host \/ UNCHANGED vars
  <2>1. prog' = prog
    BY <1>10 DEF KeyboardThread, Host, TakeKeys, FreeKeys, KeyboardCycle, HostInject,
                 HostPublish, vars
  <2> QED
    BY <2>1 DEF CardShape
<1> QED
  BY <1>3, <1>4, <1>5, <1>6, <1>7, <1>8, <1>9, <1>10 DEF Next, Program

\* A run that is not pure stays so.
LEMMA PureBefore ==
  ASSUME KeyboardTypes, CardShape, [Next]_vars, Pure'
  PROVE  Pure
<1>1. prog.card
  BY CardKept DEF Pure
<1>2. hist'.pure = hist.pure \/ hist'.pure = FALSE
  <2>0. hist = [x \in HistFields |-> hist[x]]
    BY DEF KeyboardTypes, HistShape
  <2>1. CASE UNCHANGED hist
    BY <2>1
  <2>2. Counted => hist'.pure = FALSE
    BY <2>0 DEF Counted, HistFields
  <2>3. CASE WritePortB \/ ReadAPort \/ WriteOther \/ ResetPulse
    BY <2>2, <2>3 DEF WritePortB, ReadAPort, WriteOther, ResetPulse
  <2>4. CASE Enqueue
    <3>1. \E e : hist' = [hist EXCEPT !.queued = @ + 1, !.early = e]
      BY <2>4 DEF Enqueue
    <3> QED
      BY <2>0, <3>1 DEF HistFields
  <2>5. CASE ClearKey
    <3>1. hist' = [hist EXCEPT !.received = Append(@, prog.read.A)]
      BY <2>5 DEF ClearKey
    <3> QED
      BY <2>0, <3>1 DEF HistFields
  <2>6. CASE SetUp \/ Finish \/ RestorePortB \/ HoldPortB \/ SetReady \/ Handler
             \/ EnableKey \/ AckKey \/ IdleCycle
    <3>1. UNCHANGED hist
      BY <2>6 DEF SetUp, Finish, RestorePortB, HoldPortB, SetReady, Handler, EnableKey,
                  AckKey, IdleCycle, Wait
    <3> QED
      BY <3>1
  <2>7. CASE KeyboardThread
    <3>1. UNCHANGED hist \/ \E d : hist' = [hist EXCEPT !.delivered = d]
      BY <2>7 DEF KeyboardThread, TakeKeys, FreeKeys, KeyboardCycle
    <3> QED
      BY <2>0, <3>1 DEF HistFields
  <2>8. CASE Host
    BY <2>0, <2>8 DEF Host, HostInject, HostPublish, HistFields
  <2> QED
    BY <2>1, <2>3, <2>4, <2>5, <2>6, <2>7, <2>8 DEF Next, Program, vars
<1> QED
  BY <1>1, <1>2 DEF Pure

LEMMA InitPureInv == Init => CardShape /\ PureInv
<1> SUFFICES ASSUME Init PROVE CardShape /\ PureInv
  OBVIOUS
<1>1. \E card \in BOOLEAN :
        prog = [pc |-> "start", a |-> NoAccess, last |-> FALSE, irq |-> "L",
                request |-> FALSE, card |-> card, read |-> [A |-> Floating]]
  BY DEF Init
<1>2. /\ ProgShape(prog) /\ CardShape /\ prog.pc = "start" /\ prog.a = NoAccess
      /\ ~prog.last /\ prog.irq = "L" /\ ~prog.request /\ prog.read = [A |-> Floating]
  BY <1>1 DEF ProgShape, CardShape, ProgFields
<1>3. PpiShape(ppi) /\ ~ppi.reset /\ ppi.aIn /\ ~ppi.prev /\ ~ppi.pending
  BY DEF Init, PpiInit, PpiShape, PpiFields
<1>4. /\ lines.data = [A |-> Floating] /\ lines.pb[6] = "Z" /\ lines.pb[7] = "Z"
      /\ kbd = KbdInit /\ wire = [irq |-> "L", ready |-> "Z", ack |-> "Z"]
      /\ ring.head = ring.tail /\ ring.pc = "idle" /\ pc = "program"
      /\ hist.received = <<>> /\ hist.queued = 0
  BY PPIAssumption DEF Init, LinesInit
<1>5. QuietInv
  BY <1>4 DEF QuietInv, KbdInit
<1>6. BusInv
  BY <1>2, <1>3, <1>4, AccessKinds DEF BusInv, KbdInit
<1>7. Read = 0 /\ hist.received \in Codes
  BY <1>4 DEF Read, Codes
<1>8. Resting
  BY <1>2, <1>4, <1>7 DEF Resting, Queued, KbdInit
<1>9. HandshakeInv
  BY <1>4, <1>7, <1>8 DEF HandshakeInv, KbdInit
<1> QED
  BY <1>2, <1>5, <1>6, <1>9 DEF PureInv

LEMMA StepPureInv ==
  KeyboardInv /\ CardShape /\ PureInv /\ [Next]_vars => CardShape' /\ PureInv'
<1> SUFFICES ASSUME KeyboardInv, CardShape, PureInv, [Next]_vars, Pure'
             PROVE  QuietInv' /\ BusInv' /\ HandshakeInv'
  BY CardKept DEF PureInv
<1>1. KeyboardTypes /\ EdgeInv
  BY DEF KeyboardInv
<1>2. Pure
  BY <1>1, PureBefore
<1>3. QuietInv /\ BusInv /\ HandshakeInv
  BY <1>2 DEF PureInv
<1>4. CASE Program
  BY <1>1, <1>2, <1>3, <1>4, ProgramPure DEF Pure
<1>5. CASE KeyboardCycle
  BY <1>1, <1>3, <1>5, CyclePure
<1>6. CASE TakeKeys \/ FreeKeys \/ HostPublish
  BY <1>3, <1>6 DEF QuietInv, TakeKeys, FreeKeys, HostPublish
<1>7. CASE HostInject
  <2>1. hist' = [hist EXCEPT !.pressed = @ + 1, !.pure = FALSE]
    BY <1>7 DEF HostInject
  <2>2. hist'.pure = FALSE
    BY <1>1, <2>1 DEF KeyboardTypes, HistShape, HistFields
  <2> QED
    BY <2>2 DEF Pure
<1>8. CASE UNCHANGED vars
  <2>1. UNCHANGED <<ppi, lines, kbd, wire, ring, prog, pc, hist>>
    BY <1>8 DEF vars
  <2>2. Read' = Read
    BY <2>1 DEF Read
  <2>3. QuietInv' /\ BusInv'
    BY <1>3, <2>1 DEF QuietInv, BusInv
  <2>4. /\ Resting => Resting'
        /\ Showing => Showing'
        /\ Taking => Taking'
        /\ Handled => Handled'
        /\ Acking => Acking'
    BY <2>1, <2>2 DEF Resting, Showing, Taking, Handled, Acking
  <2>5. HandshakeInv'
    BY <1>3, <2>1, <2>2, <2>4 DEF HandshakeInv
  <2> QED
    BY <2>3, <2>5
<1> QED
  BY <1>4, <1>5, <1>6, <1>7, <1>8 DEF Next, KeyboardThread, Host

\* While nobody types and the program leaves port B alone outside its handler,
\* the chip, the lines and the keyboard go through the handshake together: a
\* code is at port A from its edge to its acknowledge, and no other comes.
THEOREM Handshake == Spec => []PureInv
<1>1. Init => KeyboardInv /\ CardShape /\ PureInv
  BY InitKeyboardInv, InitPureInv
<1>2. KeyboardInv /\ CardShape /\ PureInv /\ [Next]_vars
        => (KeyboardInv /\ CardShape /\ PureInv)'
  BY StepKeepsInv, StepPureInv
<1> QED
  BY <1>1, <1>2, PTL DEF Spec

LEMMA PureReads ==
  ASSUME KeyboardInv, PureInv
  PROVE  CodesReadOnce
<1> SUFFICES ASSUME Pure
             PROVE  /\ Read <= hist.queued
                    /\ \A i \in 1 .. Read : hist.received[i] = MaxHost + i
  BY DEF CodesReadOnce, Pure, Read
<1>1. HandshakeInv
  BY DEF PureInv
<1>2. Read \in Nat /\ hist.queued \in Nat
  BY <1>1 DEF HandshakeInv, Read, Codes, KeyboardInv, KeyboardTypes, HistShape
<1>3. Read <= hist.queued
  BY <1>1, <1>2 DEF HandshakeInv, Resting, Showing, Taking, Handled, Acking, Queued
<1> QED
  BY <1>1, <1>3 DEF HandshakeInv

\* The program reads each code it has queued at most once and in order
\* (deliver_next(), handle_ack(), the delayed deliveries of on_cycle()).
THEOREM ReadOnce == Spec => []CodesReadOnce
  BY KeyboardInvariant, Handshake, PureReads, PTL

=============================================================================
