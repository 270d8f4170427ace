-------------------------------- MODULE PIC --------------------------------
(***************************************************************************)
(* The 8259A interrupt controller (ic/ic_8259a.cpp) as a function from its *)
(* registers, one bus event and the levels of its IR pins to its next      *)
(* registers: OnCycle is one call of IC_8259A::on_cycle().                 *)
(*                                                                         *)
(* The 8-bit registers are sets of levels.  The strobes' previous values   *)
(* and write_latched_ turn levels into edges, so a bus event is the edge:  *)
(* the second evaluation of a write, the fall or the rise of ~INTA.  The   *)
(* vector's base and the 8080/8086 encoding are left out: the vector the   *)
(* chip drives is the level it stands for.                                 *)
(***************************************************************************)
EXTENDS Integers

CONSTANT NLevels       \* number of IR pins, 8 in the code

ASSUME NLevelsAssumption == NLevels \in Nat \ {0}

Levels == 0 .. NLevels - 1
None   == -1

\* What on_bus_write() tells apart in the byte written.  A byte with A0 = 1
\* is an ICW2, ICW3, ICW4 or a mask, as the initialisation has it.
Icw1(edge, single, icw4) ==
  [op |-> "icw1", edge |-> edge, single |-> single, icw4 |-> icw4]
Data(mask, aeoi) == [op |-> "data", mask |-> mask, aeoi |-> aeoi]
Eoi              == [op |-> "eoi"]
SpecificEoi(lvl) == [op |-> "seoi", lvl |-> lvl]
ReadReg(isr)     == [op |-> "ocw3", isr |-> isr]

NoEvent  == [op |-> "none"]
IntaFall == [op |-> "fall"]
IntaRise == [op |-> "rise"]

\* IC_8259A::on_power_on(); INT is not driven yet.
PowerOn ==
  [irr |-> {}, isr |-> {}, imr |-> {}, prev |-> {}, int |-> FALSE,
   state |-> "Ready", initialized |-> FALSE, edge |-> TRUE, single |-> TRUE,
   icw4 |-> FALSE, autoEoi |-> FALSE, readIsr |-> FALSE,
   count |-> 0, level |-> None, vec |-> None]

(***************************************************************************)
(* The pure helpers.                                                       *)
(***************************************************************************)
\* highest_priority_irq(): the lowest numbered level.
Highest(reg) ==
  IF reg = {} THEN None ELSE CHOOSE i \in reg : \A j \in reg : i <= j

\* Some unmasked request is of higher priority than all levels in service.
Requests(p) ==
  LET req == Highest(p.irr \ p.imr)
      svc == Highest(p.isr)
  IN  req # None /\ (svc = None \/ req < svc)

\* evaluate_int()
EvaluateInt(p) ==
  IF p.initialized THEN [p EXCEPT !.int = Requests(p)] ELSE p

(***************************************************************************)
(* on_bus_write()                                                          *)
(***************************************************************************)
\* Mutant of OnIcw1: the levels in service survive.
OnIcw1KeepsIsr(p, w) ==
  [p EXCEPT !.edge = w.edge, !.single = w.single, !.icw4 = w.icw4,
            !.state = "WaitICW2", !.initialized = FALSE,
            !.imr = {}, !.irr = {}, !.autoEoi = FALSE,
            !.readIsr = FALSE, !.count = 0, !.level = None, !.int = FALSE]

OnIcw1(p, w) ==
  [p EXCEPT !.edge = w.edge, !.single = w.single, !.icw4 = w.icw4,
            !.state = "WaitICW2", !.initialized = FALSE,
            !.imr = {}, !.isr = {}, !.irr = {}, !.autoEoi = FALSE,
            !.readIsr = FALSE, !.count = 0, !.level = None, !.int = FALSE]

Initialized(p) ==
  EvaluateInt([p EXCEPT !.state = "Ready", !.initialized = TRUE])

\* After ICW2 or ICW3: the next word the mode asks for.
AwaitIcw4(p) ==
  IF p.icw4 THEN [p EXCEPT !.state = "WaitICW4"] ELSE Initialized(p)

\* Mutant of OnIcw4: the lines already High are not latched.
OnIcw4NoLatch(p, w, lines) == Initialized([p EXCEPT !.autoEoi = w.aeoi])

\* A line that is High when initialisation ends counts as an edge.
OnIcw4(p, w, lines) ==
  Initialized([p EXCEPT !.autoEoi = w.aeoi, !.prev = @ \cup lines,
                        !.irr = IF p.edge THEN @ \cup lines ELSE @])

\* Mutant of OnData: INT is not evaluated again when the mask changes.
OnDataMaskOnly(p, w, lines) ==
  CASE p.state = "WaitICW2" -> IF p.single
                               THEN AwaitIcw4(p)
                               ELSE [p EXCEPT !.state = "WaitICW3"]
    [] p.state = "WaitICW3" -> AwaitIcw4(p)
    [] p.state = "WaitICW4" -> OnIcw4(p, w, lines)
    [] p.state = "Ready"    -> IF p.initialized
                               THEN [p EXCEPT !.imr = w.mask] ELSE p

OnData(p, w, lines) ==
  CASE p.state = "WaitICW2" -> IF p.single
                               THEN AwaitIcw4(p)
                               ELSE [p EXCEPT !.state = "WaitICW3"]
    [] p.state = "WaitICW3" -> AwaitIcw4(p)
    [] p.state = "WaitICW4" -> OnIcw4(p, w, lines)
    [] p.state = "Ready"    -> IF p.initialized
                               THEN EvaluateInt([p EXCEPT !.imr = w.mask])
                               ELSE p

\* Mutant of EndOfInterrupt: INT is not evaluated again.
EndOfInterruptOnly(p, lvl) == [p EXCEPT !.isr = @ \ {lvl}]

EndOfInterrupt(p, lvl) == EvaluateInt([p EXCEPT !.isr = @ \ {lvl}])

OnBusWrite(p, w, lines) ==
  CASE w.op = "icw1" -> OnIcw1(p, w)
    [] w.op = "data" -> OnData(p, w, lines)
    [] w.op = "eoi"  -> IF p.initialized
                        THEN EndOfInterrupt(p, Highest(p.isr)) ELSE p
    [] w.op = "seoi" -> IF p.initialized
                        THEN EndOfInterrupt(p, w.lvl) ELSE p
    [] w.op = "ocw3" -> IF p.initialized
                        THEN [p EXCEPT !.readIsr = w.isr] ELSE p

(***************************************************************************)
(* The acknowledge cycles.                                                 *)
(***************************************************************************)
\* The first ~INTA pulse takes the most urgent request into service.
FirstInta(p) ==
  LET lvl == Highest(p.irr \ p.imr)
      q   == [p EXCEPT !.count = 1, !.level = lvl]
  IN  IF lvl = None THEN q
      ELSE [q EXCEPT !.isr = @ \cup {lvl}, !.irr = @ \ {lvl}, !.int = FALSE]

\* The second drives the vector and, in the automatic mode, ends the service.
SecondInta(p) ==
  EvaluateInt([p EXCEPT !.count = 2, !.vec = p.level,
                        !.isr = IF p.autoEoi THEN @ \ {p.level} ELSE @])

\* A third fall before the bus is released only counts.
OnIntaFalling(p) ==
  CASE ~p.initialized -> p
    [] p.initialized /\ p.count = 0 -> FirstInta(p)
    [] p.initialized /\ p.count = 1 -> SecondInta(p)
    [] OTHER -> [p EXCEPT !.count = @ + 1]

\* The rise after the second pulse releases the data bus.
OnIntaRising(p) ==
  IF p.count >= 2 THEN [p EXCEPT !.count = 0, !.level = None, !.vec = None]
  ELSE p

(***************************************************************************)
(* on_cycle(): the bus event first, then the edges of the IR pins.         *)
(***************************************************************************)
BusEvent(p, e, lines) ==
  CASE e.op = "none" -> p
    [] e.op = "fall" -> OnIntaFalling(p)
    [] e.op = "rise" -> OnIntaRising(p)
    [] OTHER         -> OnBusWrite(p, e, lines)

\* Rising edges request in the edge mode; in the level mode the code only
\* takes requests back when a line falls.
SampleLines(p, lines) ==
  LET rising  == lines \ p.prev
      falling == p.prev \ lines
      q       == [p EXCEPT !.prev = lines]
  IN  CASE p.edge /\ rising # {}   -> EvaluateInt([q EXCEPT !.irr = @ \cup rising])
        [] ~p.edge /\ falling # {} -> EvaluateInt([q EXCEPT !.irr = @ \ falling])
        [] OTHER                   -> q

OnCycle(p, e, lines) == SampleLines(BusEvent(p, e, lines), lines)

(***************************************************************************)
(* What the registers promise.                                             *)
(***************************************************************************)
PicType ==
  [irr : SUBSET Levels, isr : SUBSET Levels, imr : SUBSET Levels,
   prev : SUBSET Levels, int : BOOLEAN,
   state : {"Ready", "WaitICW2", "WaitICW3", "WaitICW4"},
   initialized : BOOLEAN, edge : BOOLEAN, single : BOOLEAN, icw4 : BOOLEAN,
   autoEoi : BOOLEAN, readIsr : BOOLEAN, count : Nat,
   level : Levels \cup {None}, vec : Levels \cup {None}]

\* The INT output is driven only when something changes.  It is never stale:
\* it is High exactly when an unmasked request outranks all in service.
IntCurrent(p) == p.int <=> p.initialized /\ Requests(p)

=============================================================================
