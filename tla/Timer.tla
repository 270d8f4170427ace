------------------------------- MODULE Timer -------------------------------
(***************************************************************************)
(* The 8253 interval timer (ic/ic_8253.cpp) on the bus of the machine: its *)
(* channels, the edge detection and the delayed access of its registers,   *)
(* and the program that writes and reads them.                             *)
(*                                                                         *)
(* One step is one CLK cycle, an on_cycle() of the chip.  A strobe lasts   *)
(* at least two cycles and two strobes are at least a cycle apart, as the  *)
(* bus controller drives them.  A byte has half the digits of a count; a   *)
(* digit has Digit values, or Ten where the count is decimal.              *)
(***************************************************************************)
EXTENDS Integers

CONSTANTS
  Channels,   \* the channels, {0, 1, 2} in the code
  Digit,      \* values of half a byte, 16 in the code
  Ten,        \* values of a decimal digit
  HalfWord,   \* digits of a byte, 2 in the code
  CountMod,   \* values of the 32-bit count
  Divider,    \* CLK cycles to a tick of the counters, 4 in the code
  Data,       \* the bytes a program writes
  ControlWords \* the control words it writes: [ch, rw, mode, bcd]

Byte == Digit ^ HalfWord
Word == Byte * Byte
DecimalWord == Ten ^ (2 * HalfWord)

ASSUME TimerAssumption ==
  /\ {Digit, Ten, HalfWord, Divider, CountMod} \subseteq Nat \ {0}
  /\ Byte \in Nat \ {0}
  /\ Ten <= Digit /\ CountMod % Word = 0 /\ CountMod > 2 * Word
  /\ Channels \subseteq 0..2 /\ Data \subseteq 0 .. Byte - 1
  /\ \A w \in ControlWords : w.mode \in 0..7 /\ w.bcd \in BOOLEAN

VARIABLES
  pit,    \* the chip: its channels, its access logic and its OUT lines
  bus,    \* the access in progress
  gate,   \* the GATE lines: port B bit 0 drives that of channel 2
  seen    \* what the program has done, for the properties

pitVars == <<pit, bus, gate, seen>>

None == -1
NoAccess == [kind |-> "none"]
Channel ==
  [mode |-> 0, bcd |-> FALSE, rw |-> 0, programmed |-> FALSE, count |-> 0,
   reload |-> 0, latch |-> 0, latched |-> FALSE, lsbPending |-> FALSE,
   lsb |-> 0, msbNext |-> FALSE, out |-> FALSE, counting |-> FALSE,
   loaded |-> FALSE, null |-> TRUE]

(***************************************************************************)
(* Registers.                                                              *)
(***************************************************************************)

\* Mutant of LatchCount: the byte flip-flop is left where it was.
LatchKeepsByte(c) ==
  IF c.latched THEN c
  ELSE [c EXCEPT !.latch = c.count % Word, !.latched = TRUE]

\* write_control(): a new mode, or the count latched.  A count already
\* latched stays until it has been read.
LatchCount(c) ==
  IF c.latched THEN c
  ELSE [c EXCEPT !.latch = c.count % Word, !.latched = TRUE, !.msbNext = FALSE]

SetMode(c, w) ==
  [c EXCEPT !.mode = IF w.mode > 5 THEN w.mode % 4 ELSE w.mode,
            !.bcd = w.bcd, !.rw = w.rw, !.programmed = TRUE,
            !.counting = FALSE, !.loaded = FALSE, !.null = TRUE,
            !.lsbPending = FALSE, !.msbNext = FALSE, !.latched = FALSE,
            !.out = w.mode # 0]

WriteControl(c, w) == IF w.rw = 0 THEN LatchCount(c) ELSE SetMode(c, w)

\* write_counter(): a count of 0 stands for the largest.
Load(c, raw, zero) ==
  [c EXCEPT !.reload = IF raw = 0 THEN zero ELSE raw, !.loaded = TRUE,
            !.null = TRUE, !.counting = TRUE, !.lsbPending = FALSE]

\* In mode 0 the first byte lowers OUT and stops the count.
Stopped(c) ==
  IF c.mode = 0 /\ (c.rw # 3 \/ ~c.lsbPending)
  THEN [c EXCEPT !.out = FALSE, !.counting = FALSE] ELSE c

WriteCounter(c, value) ==
  IF ~c.programmed THEN c
  ELSE CASE c.rw = 1 -> Load(Stopped(c), value, Byte)
         [] c.rw = 2 -> Load(Stopped(c), value * Byte, Word)
         [] c.rw = 3 /\ c.lsbPending -> Load(c, value * Byte + c.lsb, Word)
         [] OTHER -> [Stopped(c) EXCEPT !.lsb = value, !.lsbPending = TRUE]

\* read_counter(): the byte read, and the channel after it.
ReadsMsb(c) == c.rw = 2 \/ (c.rw = 3 /\ c.msbNext)
ReadValue(c) ==
  LET val == IF c.latched THEN c.latch ELSE c.count % Word IN
  IF c.rw = 0 THEN 0 ELSE IF ReadsMsb(c) THEN val \div Byte ELSE val % Byte
AfterRead(c) ==
  [c EXCEPT !.msbNext = IF c.rw = 3 THEN ~@ ELSE @,
            !.latched = @ /\ (c.rw = 0 \/ (c.rw = 3 /\ ~c.msbNext))]

(***************************************************************************)
(* Counting.                                                               *)
(***************************************************************************)
DigitOf(n, i) == (n \div Digit ^ i) % Digit

\* The number that the digits v stand for in a base.
Places == 0 .. 2 * HalfWord - 1
Number(v, base) ==
  LET sum[i \in 0 .. 2 * HalfWord] ==
        IF i = 0 THEN 0 ELSE sum[i - 1] + v[i - 1] * base ^ (i - 1)
  IN sum[2 * HalfWord]

\* decrement(): a decimal count is a word, and a digit lends to those below
\* it when they are all zero.
Lent(n, i) ==
  LET d == DigitOf(n, i) IN
  IF \E j \in 0 .. i - 1 : DigitOf(n, j) # 0 THEN d
  ELSE IF d = 0 THEN Ten - 1 ELSE d - 1
Borrow(n) == Number([i \in Places |-> Lent(n, i)], Digit)

Decrement(n, bcd) == IF bcd THEN Borrow(n) ELSE (n - 1) % CountMod

\* tick(), mode by mode, for a channel that is counting.
EndOfCount(c) ==
  LET n == Decrement(c.count, c.bcd) IN
  [c EXCEPT !.count = n, !.out = @ \/ n = 0,
            !.counting = @ /\ ~(c.mode = 1 /\ n = 0)]

RateGenerator(c) ==
  LET n == Decrement(c.count, c.bcd) IN
  [c EXCEPT !.count = IF n = 0 THEN c.reload ELSE n,
            !.out = IF n = 1 THEN FALSE ELSE IF n = 0 THEN TRUE ELSE @]

\* Mutant of Expired: an odd count never is exactly zero.
ExpiredAtZero(n) == n = 0

\* The count goes down by two, and its sign tells that it has expired.
Expired(n) == n = 0 \/ n >= CountMod \div 2

SquareWave(c) ==
  LET n == (c.count - 2) % CountMod IN
  IF Expired(n) THEN [c EXCEPT !.count = c.reload, !.out = ~@]
  ELSE [c EXCEPT !.count = n]

Strobe(c) ==
  LET n == Decrement(c.count, c.bcd) IN
  [c EXCEPT !.count = n, !.out = n # 0,
            !.counting = @ /\ (n = 0 \/ c.out)]

Counted(c, g) ==
  CASE c.mode \in {0, 4} /\ ~g -> c
    [] c.mode \in {2, 3} /\ ~g -> [c EXCEPT !.out = TRUE]
    [] c.mode = 1 \/ (c.mode = 0 /\ g) -> EndOfCount(c)
    [] c.mode = 2 /\ g -> RateGenerator(c)
    [] c.mode = 3 /\ g -> SquareWave(c)
    [] OTHER -> Strobe(c)

Tick(c, g) ==
  IF ~c.programmed \/ ~c.loaded THEN c
  ELSE LET d == IF c.null THEN [c EXCEPT !.count = c.reload, !.null = FALSE]
                ELSE c
       IN IF d.counting THEN Counted(d, g) ELSE d

(***************************************************************************)
(* What a program may expect of a channel, counted in ticks.               *)
(***************************************************************************)
Decimal(n) == Number([i \in Places |-> DigitOf(n, i)], Ten)

\* The number of ticks a count stands for; the square wave counts in binary.
Ticks(c) ==
  IF c.bcd /\ c.mode # 3
  THEN IF c.reload % Word = 0 THEN DecimalWord ELSE Decimal(c.reload)
  ELSE c.reload

Half(c) == (Ticks(c) + 1) \div 2
Period(c) == CASE c.mode = 2 -> Ticks(c)
               [] c.mode = 3 -> 2 * Half(c)
               [] OTHER -> Word + 2

\* OUT of a channel that has counted for age ticks since its count was
\* written, when OUT was out0.  A count written while OUT is low leaves a
\* rate generator low for its first period, and ends a strobe for good.
Expected(c, age, out0) ==
  CASE c.mode = 0 -> age >= Ticks(c)
    [] c.mode = 1 -> TRUE
    [] c.mode = 2 -> out0 /\ (Ticks(c) > 1 => age # Ticks(c) - 1)
    [] c.mode = 3 -> out0 <=> age < Half(c)
    [] OTHER -> IF out0 \/ (age > 0 /\ Ticks(c) = 1) THEN age # Ticks(c)
                ELSE age > 0

\* The counters in which the gate stops the count.
Suspended(c, g) == c.mode \in {0, 2, 3, 4} /\ ~g

\* Ticks counted, modulo the period where there is one; otherwise the
\* count stops mattering once it is past every count.
Older(c, age) ==
  IF c.mode \in {2, 3} THEN (age + 1) % Period(c)
  ELSE IF age < Period(c) THEN age + 1 ELSE age

(***************************************************************************)
(* One cycle.                                                              *)
(***************************************************************************)
Quiet == [age |-> None, out0 |-> FALSE, frozen |-> <<>>, half |-> FALSE]
Fresh(c) == [Quiet EXCEPT !.age = 0, !.out0 = c.out]

\* The channel an access is for, and whether it is a control word.
Target(a) == IF a.kind = "control" THEN a.word.ch ELSE a.ch

Accessed(c, a) ==
  CASE a.kind = "control" -> WriteControl(c, a.word)
    [] a.kind = "write" -> WriteCounter(c, a.value)
    [] OTHER -> AfterRead(c)

\* The program's view after an access of a channel that was c and is d: the
\* count it has frozen, which byte of it is next, and its count's age.
SeenAccess(s, c, d, a) ==
  CASE a.kind = "read" ->
         IF s.frozen = <<>> THEN s
         ELSE IF c.rw = 3 /\ ~s.half THEN [s EXCEPT !.half = TRUE]
         ELSE [s EXCEPT !.half = FALSE, !.frozen = <<>>]
    [] a.kind = "control" /\ a.word.rw = 0 ->
         IF s.frozen = <<>> /\ c.rw # 0
         THEN [s EXCEPT !.frozen = <<c.count % Word>>, !.half = FALSE] ELSE s
    [] a.kind = "control" /\ a.word.rw # 0 -> Quiet
    [] a.kind = "write" /\ d.loaded /\ d.null ->
         [Fresh(d) EXCEPT !.frozen = s.frozen, !.half = s.half]
    [] OTHER -> [s EXCEPT !.age = None]

SeenTick(s, c, g) ==
  IF s.age = None \/ ~c.counting THEN s
  ELSE IF Suspended(c, g)
       THEN IF c.mode \in {0, 4} THEN s ELSE [s EXCEPT !.age = None]
  ELSE [s EXCEPT !.age = Older(c, @),
                 !.out0 = @ \/ (c.mode = 2 /\ Older(c, s.age) = 0)]

\* on_cycle(): a pending access is done, or an edge of a strobe leaves one
\* pending; every Divider cycles the counters tick.
Edge(strobe) == strobe /\ ~pit.prev

Cycle(a) ==
  LET strobe == a # NoAccess
      exec == pit.pending
      reads == a.kind = "read"
      \* A control word for channel 3 does nothing.
      acts == exec /\ Target(a) \in Channels
      ch0 == IF acts THEN [pit.ch EXCEPT ![Target(a)] = Accessed(@, a)]
             ELSE pit.ch
      seen0 == IF acts
               THEN [seen EXCEPT !.ch[Target(a)] =
                       SeenAccess(@, pit.ch[Target(a)], ch0[Target(a)], a)]
               ELSE seen
      ticks == pit.timer = 0
      ch1 == IF ticks THEN [i \in Channels |-> Tick(ch0[i], gate[i])] ELSE ch0
  IN /\ pit' = [ch |-> ch1, pending |-> ~pit.pending /\ Edge(strobe),
                prev |-> strobe, timer |-> (pit.timer + 1) % Divider,
                data |-> IF exec /\ reads THEN ReadValue(pit.ch[a.ch])
                         ELSE IF ~exec /\ ~Edge(strobe) /\ ~reads THEN None
                         ELSE pit.data,
                \* update_out(): channel 1 does not reach its line
                out |-> [i \in Channels |-> i # 1 /\ ch1[i].out]]
     /\ seen' = [ch |-> [i \in Channels |->
                   IF ticks THEN SeenTick(seen0.ch[i], ch0[i], gate[i])
                   ELSE seen0.ch[i]],
                 want |-> IF ~reads THEN <<>>
                          ELSE IF exec /\ seen.ch[a.ch].frozen # <<>>
                          THEN LET s == seen.ch[a.ch]
                                   msb == pit.ch[a.ch].rw = 2 \/ s.half
                               IN IF msb THEN <<s.frozen[1] \div Byte>>
                                  ELSE <<s.frozen[1] % Byte>>
                          ELSE seen.want]

(***************************************************************************)
(* The program and the bus.                                                *)
(***************************************************************************)
Accesses ==
  [kind : {"control"}, word : ControlWords]
    \cup [kind : {"write"}, ch : Channels, value : Data]
    \cup [kind : {"read"}, ch : Channels]

Idle == bus.a = NoAccess /\ Cycle(NoAccess) /\ bus' = [bus EXCEPT !.rest = TRUE]
        /\ UNCHANGED gate

Begin == \E a \in Accesses :
  /\ bus.a = NoAccess /\ bus.rest
  /\ Cycle(a) /\ bus' = [a |-> a, rest |-> FALSE] /\ UNCHANGED gate

\* A wait state makes the strobe longer.
Hold == bus.a # NoAccess /\ Cycle(bus.a) /\ UNCHANGED <<bus, gate>>

End == /\ bus.a # NoAccess /\ ~pit.pending
       /\ Cycle(NoAccess) /\ bus' = [a |-> NoAccess, rest |-> FALSE] /\ UNCHANGED gate

\* A write of port B.
SwitchGate == /\ bus.a = NoAccess /\ 2 \in Channels
              /\ gate' = [gate EXCEPT ![2] = ~@]
              /\ Cycle(NoAccess) /\ bus' = [bus EXCEPT !.rest = TRUE]

\* on_power_on().
PitInit ==
  /\ pit = [ch |-> [i \in Channels |-> Channel], pending |-> FALSE,
            prev |-> FALSE, timer |-> 0, data |-> None,
            out |-> [i \in Channels |-> FALSE]]
  /\ bus = [a |-> NoAccess, rest |-> TRUE]
  /\ gate = [i \in Channels |-> TRUE]
  /\ seen = [ch |-> [i \in Channels |-> Quiet], want |-> <<>>]

PitNext == Idle \/ Begin \/ Hold \/ End \/ SwitchGate

PitSpec == PitInit /\ [][PitNext]_pitVars

(***************************************************************************)
(* Properties.                                                             *)
(***************************************************************************)
\* From the moment a count is written, OUT is what the mode promises of it:
\* mode 0 rises after exactly that many ticks and stays, mode 2 is low for
\* the last tick of every period, mode 3 changes after half of it, modes 4
\* and 5 strobe once.  A count of 0 is the largest, an odd square wave is
\* one tick longer, a decimal count counts decimal ticks (tick(), decrement()).
OutAsProgrammed ==
  \A i \in Channels \ {1} :
    LET c == pit.ch[i]  s == seen.ch[i] IN
    s.age # None => (pit.out[i] <=> Expected(c, s.age, s.out0))

\* A count that the program has latched is read whole and unchanged, one byte
\* at each access, whatever was read before and however long it takes
\* (write_control(), read_counter(), the edge detection of on_cycle()).
LatchReadsWhole == seen.want # <<>> => pit.data = seen.want[1]

=============================================================================
