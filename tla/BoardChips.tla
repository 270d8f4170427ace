----------------------------- MODULE BoardChips -----------------------------
(***************************************************************************)
(* The kinds of chip on the board (src/src/ic): what each declares to the  *)
(* scheduler - the nets it reads, the nets it drives, and blocks of nets   *)
(* whose direction it chooses anew every cycle - and what its on_cycle()   *)
(* makes of the levels it finds.                                           *)
(*                                                                         *)
(* A net holds the last level driven: Pin::release() does nothing.  Lines  *)
(* are levels; the four address nibbles, the byte of the upper address and *)
(* the data buses are numbers, since nobody asks whether they float.       *)
(***************************************************************************)
EXTENDS Integers, Sequences, TLC

Low == -1
HiZ == 0
High == 1
\* Directions of a block, as the digits of a permutation.
Off == 0
In == 1
Out == 2

LevelOf(bit) == IF bit THEN High ELSE Low

\* in: nets read after their drivers (asynchronous inputs are not listed).
\* out: nets driven; a net also declared an input does not count.
\* blocks: nets driven and nets read when the block's direction is Out.
Chip(kind, pins, in, out, blocks) ==
  [kind |-> kind, pins |-> pins, in |-> in, out |-> out, blocks |-> blocks]

Nets(seq) == {seq[i] : i \in DOMAIN seq}

Block(nets) == [drives |-> nets, reads |-> {}]

(***************************************************************************)
(* Gates.  A gate is [fn, in, out]; the gates of a chip run in turn.       *)
(***************************************************************************)
Gate(fn, in, out) == [fn |-> fn, in |-> in, out |-> out]

Gates(gates) ==
  Chip("gates", gates, UNION {Nets(gates[i].in) : i \in DOMAIN gates},
       {gates[i].out : i \in DOMAIN gates}, <<>>)

\* 74S04, 74S00, 74S10, 74S20, 74LS30, 74LS32, 74LS02, 74S08: pins in the
\* order of the gates, inputs first.
HexInverter(pins) ==
  Gates([i \in DOMAIN pins |-> Gate("not", <<pins[i][1]>>, pins[i][2])])

QuadNand(pins) ==
  Gates([i \in DOMAIN pins |->
           Gate("nand", <<pins[i][1], pins[i][2]>>, pins[i][3])])

TripleNand(pins) ==
  Gates([i \in DOMAIN pins |->
           Gate("nand", SubSeq(pins[i], 1, 3), pins[i][4])])

DualNand(pins) ==
  Gates([i \in DOMAIN pins |->
           Gate("nand", SubSeq(pins[i], 1, 4), pins[i][5])])

EightInputNand(in, out) == Gates(<<Gate("nand", in, out)>>)

QuadOr(pins) ==
  Gates([i \in DOMAIN pins |->
           Gate("or", <<pins[i][1], pins[i][2]>>, pins[i][3])])

QuadNor(pins) ==
  Gates([i \in DOMAIN pins |->
           Gate("nor", <<pins[i][1], pins[i][2]>>, pins[i][3])])

\* Each gate of a 74S08 is built whole, or as a wire from its second input.
QuadAnd(pins) ==
  Gates([i \in DOMAIN pins |->
           Gate(pins[i][1], <<pins[i][2], pins[i][3]>>, pins[i][4])])

\* A floating input of an inverter reads as low.
Logic(fn, x) ==
  CASE fn = "not"  -> LevelOf(x[1] # High)
    [] fn = "nand" -> LevelOf(\E i \in DOMAIN x : x[i] # High)
    [] fn = "or"   -> LevelOf(\E i \in DOMAIN x : x[i] = High)
    [] fn = "nor"  -> LevelOf(\A i \in DOMAIN x : x[i] # High)
    [] fn = "and"  -> IF x[1] < x[2] THEN x[1] ELSE x[2]
    [] fn = "wire" -> x[2]

AfterGates(gates, net) ==
  LET After[k \in 0 .. Len(gates)] ==
        IF k = 0 THEN net
        ELSE LET n == After[k - 1]
                 g == gates[k]
             IN [n EXCEPT ![g.out] =
                   Logic(g.fn, [i \in DOMAIN g.in |-> n[g.in[i]]])]
  IN After[Len(gates)]

(***************************************************************************)
(* 74S138.  A pin is a line, or one bit of an address net.                 *)
(***************************************************************************)
Line(net) == <<net, -1>>
Bit(net, i) == <<net, i>>

PinLevel(net, pin) ==
  IF pin[2] = -1 THEN net[pin[1]]
  ELSE LevelOf((net[pin[1]] \div 2^pin[2]) % 2 = 1)

\* y[i] answers code first + i - 1.
Decoder(g1, g2a, g2b, abc, first, y) ==
  Chip("decoder", [g1 |-> g1, g2a |-> g2a, g2b |-> g2b, abc |-> abc,
                   first |-> first, y |-> y],
       {p[1] : p \in {g1, g2a, g2b} \cup Nets(abc)}, Nets(y), <<>>)

AfterDecoder(c, net) ==
  LET enabled == /\ PinLevel(net, c.g1) = High
                 /\ PinLevel(net, c.g2a) = Low
                 /\ PinLevel(net, c.g2b) = Low
      code == LET One(i) == IF PinLevel(net, c.abc[i]) = High
                            THEN 1 ELSE 0
              IN One(1) + 2 * One(2) + 4 * One(3)
  IN [x \in Nets(c.y) |->
        LevelOf(~(enabled /\ \E i \in DOMAIN c.y :
                               c.y[i] = x /\ c.first + i - 1 = code))] @@ net

(***************************************************************************)
(* 74S158: the selected nibble inverted; 74S244: buffers, whose outputs    *)
(* are declared inputs as well.  Buffers are [from, to, div, mod].         *)
(***************************************************************************)
Mux(strobe, select, row, column, part, y) ==
  Chip("mux", [strobe |-> strobe, select |-> select, row |-> row,
               column |-> column, part |-> part, y |-> y],
       {strobe, select, row, column}, {y}, <<>>)

AfterMux(c, net) ==
  LET chosen == IF net[c.select] = High
                THEN (net[c.column] \div c.part) % 16
                ELSE net[c.row]
  IN [net EXCEPT ![c.y] = IF net[c.strobe] = High THEN 15 ELSE 15 - chosen]

Buffer(from, to, lines) == [from |-> from, to |-> to, lines |-> lines]

Buffers(g, buffers) ==
  Chip("buffers", [g |-> g, buffers |-> buffers],
       {g} \cup UNION {{buffers[i].from, buffers[i].to} :
                         i \in DOMAIN buffers},
       {}, <<>>)

\* A single line that floats comes out low.
AfterBuffers(c, net) ==
  IF net[c.g] # Low THEN net
  ELSE [x \in {c.buffers[i].to : i \in DOMAIN c.buffers} |->
          LET b == CHOOSE b \in Nets(c.buffers) : b.to = x IN
          IF b.lines = 1 THEN LevelOf(net[b.from] = High)
          ELSE net[b.from] % 2^b.lines] @@ net

(***************************************************************************)
(* 74S245, transparent in the direction committed for this cycle.  ~G and  *)
(* DIR are wired and never read: the 8288 and the 8237A choose.            *)
(***************************************************************************)
Transceiver(a, b) ==
  Chip("transceiver", [a |-> a, b |-> b], {}, {},
       <<[drives |-> Nets(a), reads |-> Nets(b)]>>)

TransceiverDirection(driving) ==
  CASE driving = "A" -> Out [] driving = "B" -> In [] OTHER -> Off

Copy(net, from, to) ==
  [x \in Nets(to) |->
     LET i == CHOOSE i \in DOMAIN to : to[i] = x IN net[from[i]]] @@ net

AfterTransceiver(c, driving, net) ==
  CASE driving = "A" -> Copy(net, c.b, c.a)
    [] driving = "B" -> Copy(net, c.a, c.b)
    [] OTHER -> net

(***************************************************************************)
(* 74S373: D is read when LE is high, Q driven when ~OE is low.  D counts  *)
(* as an input only while LE is high; the latch of the DMA address has     *)
(* asynchronous D and switches Q instead.                                  *)
(***************************************************************************)
Latch(d, q, le, oe) ==
  Chip("latch", [d |-> d, q |-> q, le |-> le, oe |-> oe], {le, oe}, Nets(q),
       <<Block({d})>>)

LatchDirection(c, net) == IF net[c.le] = High THEN In ELSE Off

DmaLatch(d, q, le, oe) ==
  Chip("latch", [d |-> d, q |-> q, le |-> le, oe |-> oe], {le, oe}, {},
       <<Block(Nets(q))>>)

DmaLatchDirection(enable, dmaOut, net) ==
  IF dmaOut \/ net[enable] = Low THEN Out ELSE Off

\* The low byte drives two nibbles, the high nibble four lines.
Part(c, x, value) ==
  CASE x = "la03" -> value % 16
    [] x = "la47" -> value \div 16
    [] x = "la8f" -> value
    [] x = "la16" -> LevelOf(value % 2 = 1)
    [] x = "la17" -> LevelOf((value \div 2) % 2 = 1)
    [] x = "la18" -> LevelOf((value \div 4) % 2 = 1)
    [] x = "la19" -> LevelOf(value \div 8 = 1)

Latched(c, held, net) ==
  IF net[c.le] = High THEN net[c.d] ELSE held

AfterLatch(c, held, net) ==
  IF net[c.oe] # Low THEN net
  ELSE [x \in Nets(c.q) |-> Part(c, x, held)] @@ net

(***************************************************************************)
(* 74LS670, the page register: written while ~WE is low, read at the       *)
(* address that ~DACK2 and ~DACK3 form while ~RE is low.                   *)
(***************************************************************************)
PageRegister(re, we) ==
  Chip("pages", [re |-> re, we |-> we],
       {"dack2", "dack3", "xa03", re, we}, {},
       <<Block({"la16", "la17", "la18", "la19"})>>)

Pages(c, pages, net) ==
  IF net[c.we] = Low
  THEN [pages EXCEPT ![net["xa03"] % 4] = net["xd"] % 16] ELSE pages

AfterPages(c, pages, net) ==
  LET ra == (IF net["dack2"] = High THEN 2 ELSE 0)
              + (IF net["dack3"] = High THEN 1 ELSE 0)
  IN IF net[c.re] # Low THEN net
     ELSE [x \in {"la16", "la17", "la18", "la19"} |->
             Part(c, x, pages[ra])] @@ net

(***************************************************************************)
(* 74S74 and 74S175.  Both are transparent: the clock is never seen to     *)
(* change within a cycle.  With clear and preset both low, Q = ~Q = High.  *)
(***************************************************************************)
FlipFlop(clr, pre, d, clk, q, nq) ==
  [clr |-> clr, pre |-> pre, d |-> d, clk |-> clk, q |-> q, nq |-> nq]

\* Mutant of DualFlipFlop: the clocks order the chip, too.
DualFlipFlopSync(ffs) ==
  LET in == UNION {{ffs[i].clr, ffs[i].pre, ffs[i].clk} : i \in DOMAIN ffs}
  IN Chip("ff", ffs, in,
          UNION {{ffs[i].q, ffs[i].nq} : i \in DOMAIN ffs} \ in, <<>>)

\* The board builds both of its 74S74 with an asynchronous clock.
DualFlipFlop(ffs) ==
  LET in == UNION {{ffs[i].clr, ffs[i].pre} : i \in DOMAIN ffs}
  IN Chip("ff", ffs, in,
          UNION {{ffs[i].q, ffs[i].nq} : i \in DOMAIN ffs} \ in, <<>>)

AfterFlipFlop(f, net) ==
  LET clear == net[f.clr] = Low
      preset == net[f.pre] = Low
      set == CASE preset -> TRUE
               [] clear /\ ~preset -> FALSE
               [] ~clear /\ ~preset /\ net[f.clk] = High -> net[f.d] = High
               [] OTHER -> net[f.q] = High
  IN [net EXCEPT ![f.q] = LevelOf(set), ![f.nq] = LevelOf(clear \/ ~set)]

AfterDual(ffs, net) == AfterFlipFlop(ffs[2], AfterFlipFlop(ffs[1], net))

\* Stages run in turn, so one that reads another's output sees it new.
QuadFlipFlop(clr, stages, out) ==
  Chip("quad", [clr |-> clr, stages |-> stages], {clr}, out, <<>>)

Stage(d, q, nq) == [d |-> d, q |-> q, nq |-> nq]

\* Unwired outputs are the net "nc".
AfterQuad(c, net) ==
  LET set == net[c.clr] # Low
      After[k \in 0 .. Len(c.stages)] ==
        IF k = 0 THEN net
        ELSE LET n == After[k - 1]
                 s == c.stages[k]
                 one == set /\ n[s.d] = High
             IN [n EXCEPT ![s.q] = LevelOf(one), ![s.nq] = LevelOf(~one)]
  IN After[Len(c.stages)]

(***************************************************************************)
(* 74S00 with delay line TD1: RAS, then the address switches and ~CAS      *)
(* falls one cycle later.  RAS is also an input, so nobody waits for it.   *)
(***************************************************************************)
RasCas ==
  Chip("rascas", <<>>, {"gnd", "ras", "xmemr", "xmemw"},
       {"refGate", "cas", "addrSel"}, <<>>)

RasOf(net) == LevelOf(net["xmemr"] # High \/ net["xmemw"] # High)
Strobed(net) == net["xmemr"] # HiZ /\ net["xmemw"] # HiZ

\* What TD1 holds after the cycle.
Delayed(td1, net) == IF Strobed(net) THEN RasOf(net) ELSE td1

\* Mutant of AfterRasCas: RAS comes through TD1 without delay.
AfterRasCasUndelayed(td1, net) ==
  LET ras == RasOf(net)
      n == [net EXCEPT !["ras"] = ras,
              !["refGate"] = LevelOf(net["gnd"] # High \/ ras # High)]
  IN IF Strobed(net)
     THEN [n EXCEPT !["addrSel"] = ras, !["cas"] = LevelOf(ras # High)]
     ELSE n

AfterRasCas(td1, net) ==
  LET ras == RasOf(net)
      n == [net EXCEPT !["ras"] = ras,
              !["refGate"] = LevelOf(net["gnd"] # High \/ ras # High)]
  IN IF Strobed(net)
     THEN [n EXCEPT !["addrSel"] = td1, !["cas"] = LevelOf(td1 # High)]
     ELSE n
=============================================================================
