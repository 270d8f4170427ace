--------------------------- MODULE InterruptPath ---------------------------
(***************************************************************************)
(* The interrupt path: devices raise and lower IR pins, the 8259A latches  *)
(* and ranks them, the 8088 samples INTR at the end of an instruction and  *)
(* runs two acknowledge cycles, and the handlers nest and end.  A step is  *)
(* a CLK cycle in which the CPU makes at most one bus event the PIC sees   *)
(* and the devices move their pins at will.                                *)
(*                                                                         *)
(* The programs the CPU runs are not part of the repository: they follow   *)
(* the BIOS protocol (initialise after every reset, one EOI per handler,   *)
(* then IRET) and are free otherwise.  The ~INTA strobe is the 8288's with *)
(* no bus grant to the DMA between the two pulses.                         *)
(***************************************************************************)
EXTENDS PIC, Sequences

CONSTANTS
  MaxEdges,      \* bound on the cycles in which some line rises
  EdgeModes,     \* the trigger modes the program may choose
  AutoEois       \* the EOI modes it may choose

ASSUME PathAssumption ==
  /\ MaxEdges \in Nat
  /\ EdgeModes \subseteq BOOLEAN
  /\ AutoEois \subseteq BOOLEAN

VARIABLES
  pic,      \* the 8259A
  lines,    \* the IR pins that are High
  cpu,      \* IC_8088: where it is, FLAG_IF, the stack of handlers, top first
  hist      \* history: rising edges so far; levels with an unserved edge

vars == <<pic, lines, cpu, hist>>

Booting == {"icw1", "icw2", "icw3", "icw4", "mask"}

Init ==
  /\ pic = PowerOn
  /\ lines = {}
  /\ cpu = [pc |-> "icw1", if |-> FALSE, stack |-> <<>>]
  /\ hist = [edges |-> 0, fresh |-> {}]

(***************************************************************************)
(* One cycle: the CPU's bus event and next state, the pins' next levels.   *)
(***************************************************************************)
\* The level the first ~INTA pulse is about to take.
Acked(e) ==
  IF e = IntaFall /\ pic.initialized /\ pic.count = 0
  THEN {Highest(pic.irr \ pic.imr)} ELSE {}

\* The edges the edge mode owes a service: pins that rise, and pins found High
\* when an initialisation with ICW4 ends.
Edges(e, now) ==
  CASE ~pic.edge -> {}
    [] pic.edge /\ e.op = "data" /\ pic.state = "WaitICW4" -> now
    [] OTHER -> now \ lines

Cycle(e, next) ==
  \E now \in SUBSET Levels :
    LET rising == now \ lines
    IN  /\ rising # {} => hist.edges < MaxEdges
        /\ lines' = now
        /\ pic' = OnCycle(pic, e, now)
        /\ cpu' = next
        /\ hist' = [edges |-> IF rising = {} THEN hist.edges ELSE hist.edges + 1,
                    fresh |-> IF e.op = "icw1" THEN {}
                              ELSE (hist.fresh \ Acked(e)) \cup Edges(e, now)]

\* The CPU is inside an instruction: only the pins move.
Devices == Cycle(NoEvent, cpu)

(***************************************************************************)
(* The program (external).                                                 *)
(***************************************************************************)
Goto(where) == [cpu EXCEPT !.pc = where]

WriteIcw1 ==
  /\ cpu.pc = "icw1"
  /\ \E edge \in EdgeModes, single, icw4 \in BOOLEAN :
       Cycle(Icw1(edge, single, icw4), Goto("icw2"))

AfterIcw3 == IF pic.icw4 THEN "icw4" ELSE "mask"

WriteIcw2 ==
  /\ cpu.pc = "icw2"
  /\ Cycle(Data({}, FALSE), Goto(IF pic.single THEN AfterIcw3 ELSE "icw3"))

WriteIcw3 ==
  /\ cpu.pc = "icw3"
  /\ Cycle(Data({}, FALSE), Goto(AfterIcw3))

WriteIcw4 ==
  /\ cpu.pc = "icw4"
  /\ \E aeoi \in AutoEois : Cycle(Data({}, aeoi), Goto("mask"))

Boot == WriteIcw1 \/ WriteIcw2 \/ WriteIcw3 \/ WriteIcw4

\* INTR is sampled between instructions: with interrupts enabled and INT High
\* the next thing the CPU does is to acknowledge.
Interrupted == cpu.if /\ pic.int
Executes    == cpu.pc = "run" /\ ~Interrupted

WriteMask ==
  /\ cpu.pc = "mask" \/ Executes
  /\ \E mask \in SUBSET Levels : Cycle(Data(mask, FALSE), Goto("run"))

Sti ==
  /\ Executes /\ ~cpu.if
  /\ Cycle(NoEvent, [cpu EXCEPT !.if = TRUE])

Cli ==
  /\ Executes /\ cpu.if
  /\ Cycle(NoEvent, [cpu EXCEPT !.if = FALSE])

InHandler == cpu.stack # <<>>
Ended     == InHandler /\ (Head(cpu.stack).ended \/ pic.autoEoi)

\* The handler's one EOI, specific or not.
WriteEoi ==
  /\ Executes /\ InHandler /\ ~Ended
  /\ \E w \in {Eoi, SpecificEoi(Head(cpu.stack).lvl)} :
       Cycle(w, [cpu EXCEPT !.stack =
                   <<[Head(@) EXCEPT !.ended = TRUE]>> \o Tail(@)])

Iret ==
  /\ Executes /\ Ended
  /\ Cycle(NoEvent, [cpu EXCEPT !.if = TRUE, !.stack = Tail(@)])

(***************************************************************************)
(* The acknowledge sequence of IC_8088 and the ~INTA strobe of IC_8288:    *)
(* the strobe falls in T2 and rises in T1 of the next bus cycle.           *)
(***************************************************************************)
Accept == cpu.pc = "run" /\ Interrupted /\ Cycle(NoEvent, Goto("ack1"))

FirstPulse  == cpu.pc = "ack1"     /\ Cycle(IntaFall, Goto("ack2rise"))
SecondCycle == cpu.pc = "ack2rise" /\ Cycle(IntaRise, Goto("ack2"))
SecondPulse == cpu.pc = "ack2"     /\ Cycle(IntaFall, Goto("read"))

\* PC_INTERRUPT_: reads the vector, clears FLAG_IF, enters the handler.
ReadVector ==
  /\ cpu.pc = "read"
  /\ Cycle(NoEvent,
           [pc |-> "release", if |-> FALSE,
            stack |-> <<[lvl |-> pic.vec, ended |-> FALSE]>> \o cpu.stack])

Release == cpu.pc = "release" /\ Cycle(IntaRise, Goto("run"))

Acknowledge ==
  \/ Accept \/ FirstPulse \/ SecondCycle \/ SecondPulse \/ ReadVector
  \/ Release

\* RESET is looked at between bus cycles, and the two pulses are one of them:
\* the PIC, which has no reset pin, keeps its state, and the program starts
\* over, be it with the vector just read.
CpuReset ==
  /\ cpu.pc \notin {"icw1", "ack1", "ack2rise", "ack2", "release"}
  /\ Cycle(IF cpu.pc = "read" THEN IntaRise ELSE NoEvent,
           [pc |-> "icw1", if |-> FALSE, stack |-> <<>>])

Next ==
  \/ Devices \/ Boot \/ WriteMask \/ Sti \/ Cli \/ WriteEoi \/ Iret
  \/ Acknowledge \/ CpuReset

\* The CPU runs on; the program boots, ends its handlers and does not keep
\* interrupts disabled for ever.  Devices, masks and resets are free.
FirstMask == cpu.pc = "mask" /\ WriteMask

Fairness ==
  /\ WF_vars(Boot) /\ WF_vars(FirstMask) /\ WF_vars(Acknowledge)
  /\ WF_vars(WriteEoi) /\ WF_vars(Iret) /\ WF_vars(Sti)

Spec == Init /\ [][Next]_vars /\ Fairness

(***************************************************************************)
(* Properties.                                                             *)
(***************************************************************************)
\* INT is driven at a dozen places and nowhere else: after every event it is
\* High exactly when an unmasked request outranks all levels in service.
IntNeverStale == IntCurrent(pic)

\* A CPU that acknowledges always finds a vector on the bus, never a floating
\* one: INT does not outlive what there is to acknowledge, and every pair of
\* pulses finds the count where the one before it left it.
NoFloatingVector == cpu.pc = "read" => pic.vec # None

\* The handlers that have not written their EOI, and the one being entered.
Unended ==
  {cpu.stack[k].lvl : k \in {j \in DOMAIN cpu.stack : ~cpu.stack[j].ended}}
Entering == IF cpu.pc \in {"ack2rise", "ack2", "read"} THEN {pic.level} ELSE {}

\* Without the automatic EOI the in-service register is the handlers not yet
\* ended, each more urgent than those it interrupted: a non-specific EOI, which
\* clears the most urgent level, ends the handler that writes it.
InServiceMatchesHandlers ==
  cpu.pc \notin Booting /\ ~pic.autoEoi =>
    /\ pic.isr = Unended \cup Entering
    /\ \A e \in Entering, u \in Unended : e < u
    /\ \A j, k \in DOMAIN cpu.stack :
         j < k /\ ~cpu.stack[j].ended /\ ~cpu.stack[k].ended
           => cpu.stack[j].lvl < cpu.stack[k].lvl

\* In the edge mode a rising edge, however short the pulse and whenever it
\* comes, is served unless it is masked or the chip is initialised again.
EveryEdgeServed ==
  \A l \in Levels :
    (l \in hist.fresh \ pic.imr) ~> (l \notin hist.fresh \/ l \in pic.imr)

=============================================================================
