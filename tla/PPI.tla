-------------------------------- MODULE PPI --------------------------------
(***************************************************************************)
(* The 8255A peripheral interface (ic/ic_8255a.cpp) and the two switch     *)
(* multiplexers on its ports (board/sw1_mux.h, board/sw2_mux.h), as        *)
(* operators from the chip's record and the levels of the port lines to    *)
(* the next ones.                                                          *)
(*                                                                         *)
(* Releasing a pin leaves its level as it is (core/signal.h:78): a line    *)
(* keeps the level last driven.  Port A is one value, port B the levels of *)
(* the bits that are connected to something modelled, port C two halves.   *)
(***************************************************************************)
EXTENDS Integers

CONSTANTS
  Bits,      \* the bits of port B that matter, bits 2, 6 and 7 among them
  Sw1,       \* the value of switch block 1
  Sw2Low,    \* switch block 2, positions 1 to 4
  Sw2High    \* and position 5

ASSUME PPIAssumption == {2, 6, 7} \subseteq Bits

NoAccess == [kind |-> "none"]
Floating == -1
Zero == 0

\* Port B as bits: the value v holds the bits that are 1.
Levels(v) == [b \in Bits |-> IF b \in v THEN "H" ELSE "L"]

PpiInit ==
  [aIn |-> TRUE, bIn |-> TRUE, cuIn |-> TRUE, clIn |-> TRUE, a |-> Zero,
   b |-> {}, c |-> [lo |-> Zero, hi |-> Zero], pending |-> FALSE,
   prev |-> FALSE, reset |-> FALSE]

LinesInit == [pa |-> Floating, pb |-> [b \in Bits |-> "Z"],
              lo |-> Floating, hi |-> Floating, data |-> [A |-> Floating]]

\* on_reset(): every port an input.  The levels of its lines stay.
PpiReset(p) ==
  [PpiInit EXCEPT !.prev = p.prev, !.reset = p.reset]

\* write_port_c(): each half is driven only as an output.
DriveC(p, lines) ==
  [lines EXCEPT !.lo = IF p.clIn THEN @ ELSE p.c.lo,
                !.hi = IF p.cuIn THEN @ ELSE p.c.hi]

\* Mutant of ModeSet: port A has the direction of port B.
ModeSetSwapped(p, w) ==
  [p EXCEPT !.aIn = w.b, !.bIn = w.b, !.cuIn = w.cu, !.clIn = w.cl,
            !.a = Zero, !.b = {}, !.c = [lo |-> Zero, hi |-> Zero]]

\* on_bus_write(): the chip after a write, and the lines after it.
ModeSet(p, w) ==
  [p EXCEPT !.aIn = w.a, !.bIn = w.b, !.cuIn = w.cu, !.clIn = w.cl,
            !.a = Zero, !.b = {}, !.c = [lo |-> Zero, hi |-> Zero]]

PpiWritten(p, a) ==
  CASE a.port = "A" -> [p EXCEPT !.a = a.value]
    [] a.port = "B" -> [p EXCEPT !.b = a.value]
    [] a.port = "C" -> [p EXCEPT !.c = a.value]
    [] a.port = "mode" -> ModeSet(p, a.value)
    [] a.port = "bit" -> [p EXCEPT !.c[a.value.half] = a.value.to]

LinesWritten(p, lines, a) ==
  LET q == PpiWritten(p, a)
      l == IF a.port \in {"C", "mode", "bit"} THEN DriveC(q, lines) ELSE lines
  IN [l EXCEPT !.pa = IF a.port \in {"A", "mode"} /\ ~q.aIn THEN q.a ELSE @,
               !.pb = IF a.port \in {"B", "mode"} /\ ~q.bIn
                      THEN Levels(q.b) ELSE @]

\* on_bus_read(): a port reads its lines as an input, its latch as an output.
ReadPort(p, lines, port) ==
  CASE port = "A" -> [A |-> IF p.aIn THEN lines.pa ELSE p.a]
    [] port = "B" -> [B |-> IF p.bIn THEN lines.pb ELSE Levels(p.b)]
    [] port = "C" -> [lo |-> IF p.clIn THEN lines.lo ELSE p.c.lo,
                      hi |-> IF p.cuIn THEN lines.hi ELSE p.c.hi]

\* on_cycle(): a write is done one cycle after its edge, when the data has
\* settled; a read at its edge.
Starts(p, a) == a # NoAccess /\ ~p.prev
Executes(p, a) == p.pending /\ a.kind = "write"

PpiStep(p, a, rst) ==
  LET r == IF rst /\ ~p.reset THEN PpiReset(p) ELSE p
      w == IF Executes(r, a) THEN PpiWritten(r, a) ELSE r
  IN [w EXCEPT !.pending = ~r.pending /\ a.kind = "write" /\ Starts(p, a),
               !.prev = a # NoAccess, !.reset = rst]

LinesStep(p, lines, a, rst) ==
  LET r == IF rst /\ ~p.reset THEN PpiReset(p) ELSE p
      l == IF Executes(r, a) THEN LinesWritten(r, lines, a) ELSE lines
  IN IF a.kind = "read" /\ Starts(p, a)
     THEN [l EXCEPT !.data = ReadPort(r, l, a.port)] ELSE l

(***************************************************************************)
(* The switches.  A multiplexer drives when its select line has changed.   *)
(***************************************************************************)
\* SW1Mux: block 1 on port A when bit 7 is high.
Mux1(lines, before) ==
  IF lines.pb[7] # before.pb[7] /\ lines.pb[7] = "H"
  THEN [lines EXCEPT !.pa = Sw1] ELSE lines

\* SW2Mux: positions 1 to 4 on the low half of port C when bit 2 is high,
\* otherwise position 5.
Mux2(lines, before) ==
  IF lines.pb[2] = before.pb[2] THEN lines
  ELSE [lines EXCEPT !.lo = IF lines.pb[2] = "H" THEN Sw2Low ELSE Sw2High]

Switches(lines, before) == Mux2(Mux1(lines, before), before)

=============================================================================
