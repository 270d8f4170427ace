----------------------------- MODULE MemoryPath -----------------------------
(***************************************************************************)
(* The bytes that travel between the processor, the memory and a card, at  *)
(* the level of the board's nets.  One step is one Scheduler::evaluate():  *)
(* every block reports its direction, the permutation picks the plan, and  *)
(* the chips run in its order, each on the levels it finds.                *)
(*                                                                         *)
(* A program of port accesses sets up channel 2 and starts a card's        *)
(* transfer; after it the processor makes cycles of its own choice.  The   *)
(* card is a floppy controller seen from the bus: it owns two ports.       *)
(***************************************************************************)
EXTENDS BoardWiring

CONSTANTS
  Programs,    \* the sequences of port accesses that set up a transfer
  FreeOps,     \* the bus cycles the processor may make after one
  Content,     \* what the memory holds at power-on: address -> byte
  CardBytes,   \* the bytes the card has to send
  CardStatus,  \* what its status port answers
  StatusPort, CommandPort

Wave == INSTANCE WavePlan

VARIABLES
  board,    \* the nets and every chip's state
  program,  \* which program runs
  pc,       \* accesses of the program begun
  mem,      \* history: what the memory ought to hold
  seen      \* history of the processor's cycle: latched by the 8288, strobed

vars == <<board, program, pc, mem, seen>>

\* A command on a bus: reads and writes of memory and ports, and fetches.
Writing == {"MemW", "IoW"}
Op(kind, addr, data) == [kind |-> kind, addr |-> addr, data |-> data]

Driven(b, levels) == [b EXCEPT !.net = levels @@ @]

(***************************************************************************)
(* 8088, biu_run(): T1 T2 T3 Tw* T4, and T1 again at once                  *)
(***************************************************************************)
Status(kind) ==
  CASE kind = "MemR"  -> <<High, Low, High>>
    [] kind = "Fetch" -> <<High, Low, Low>>
    [] kind = "MemW"  -> <<High, High, Low>>
    [] kind = "IoR"   -> <<Low, Low, High>>
    [] kind = "IoW"   -> <<Low, High, Low>>
    [] OTHER          -> <<High, High, High>>

StatusLines(kind) ==
  LET s == Status(kind) IN [s2 |-> s[1], s1 |-> s[2], s0 |-> s[3],
                            lock |-> High]

AddressLines(addr) ==
  [ad |-> addr % 256, amid |-> (addr \div 256) % 256, ahi |-> addr \div 65536]

Processor(b, op) ==
  LET c == b.cpu
      write == c.op.kind \in Writing
  IN CASE c.t = "T4" ->
            [Driven(b, AddressLines(op.addr) @@ StatusLines(op.kind))
               EXCEPT !.cpu = [t |-> "T1", bus |-> "T1", op |-> op,
                               got |-> c.got]]
       [] c.t = "T1" /\ write ->
            [b EXCEPT !.cpu.t = "T2", !.cpu.bus = "T2W",
                      !.net["ad"] = c.op.data]
       [] c.t = "T1" /\ ~write ->
            [b EXCEPT !.cpu.t = "T2", !.cpu.bus = "T2R"]
       [] c.t = "T2" ->
            [Driven(b, StatusLines("Passive")) EXCEPT !.cpu.t = "T3"]
       [] c.t \in {"T3", "Tw"} /\ b.net["ready"] # High ->
            [b EXCEPT !.cpu.t = "Tw"]
       [] OTHER ->
            [b EXCEPT !.cpu.t = "T4", !.cpu.bus = "T1",
                      !.cpu.got = IF write THEN @ ELSE b.net["ad"]]

(***************************************************************************)
(* 8288, on_clk_rising()                                                   *)
(***************************************************************************)
\* decode_status(); no INTA and no HALT here.
Decoded(net) ==
  LET is(kind) == Status(kind) = <<net["s2"], net["s1"], net["s0"]>>
      kinds == {"MemR", "Fetch", "MemW", "IoR", "IoW"}
  IN IF \E k \in kinds : is(k) THEN CHOOSE k \in kinds : is(k) ELSE "Passive"

Strobe(cycle) ==
  CASE cycle \in {"MemR", "Fetch"} -> [memr |-> Low]
    [] cycle = "MemW" -> [memw |-> Low]
    [] cycle = "IoR"  -> [ior |-> Low]
    [] cycle = "IoW"  -> [iow |-> Low]

Released == [memr |-> High, memw |-> High, ior |-> High, iow |-> High]

\* disable_xcvr()
Disabled(b) ==
  [b EXCEPT !.next["U8"] = "None", !.next["U12"] = "None",
            !.next["U13"] = "None"]

\* nudge_xcvr(): U12 moves only when A18 and A19 select the RAM.
Nudged(b) ==
  LET write == b.bc.cycle \in Writing
      ram == b.net["la18"] # High /\ b.net["la19"] # High
      way == IF write THEN "B" ELSE "A"
      memory == CASE ram /\ b.bc.cycle \in {"MemR", "Fetch"} -> "A"
                  [] ram /\ b.bc.cycle = "MemW" -> "B"
                  [] OTHER -> "None"
  IN [b EXCEPT !.next = [U8 |-> way, U13 |-> way, U12 |-> memory,
                         U14 |-> "B"]]

Commanded(b) ==
  [Driven(b, Strobe(b.bc.cycle)) EXCEPT !.bc.commanding = TRUE]

Inhibited(b) ==
  IF b.bc.inhibited THEN b
  ELSE [Disabled(Driven(b, Released @@ [ale |-> Low]))
          EXCEPT !.bc.inhibited = TRUE]

\* Recovery starts: U18 and U19 fall back to their enables.
RecoveryBegins(b) == [b EXCEPT !.bc.hold = 3, !.dmaOut = FALSE]

Sequenced(b) ==
  LET cycle == Decoded(b.net)
      active == cycle # "Passive"
      was == b.bc.prevActive
      T1(x) == [Driven(x, [ale |-> High,
                           dtr |-> LevelOf(cycle \in Writing)])
                  EXCEPT !.bc.cycle = cycle]
      ended == IF b.bc.commanding
               THEN [Disabled(Driven(b, Released))
                       EXCEPT !.bc.commanding = FALSE]
               ELSE b
      low == Driven(b, [ale |-> Low])
      after == CASE ~was /\ active -> T1(ended)
                 [] was /\ active ->
                      Nudged(IF b.net["aenBar"] = High /\ ~b.bc.commanding
                             THEN Commanded(low) ELSE low)
                 [] was /\ ~active -> Disabled(b)
                 [] OTHER -> b
  IN [after EXCEPT !.bc.prevActive = active]

\* hold = 0, or B3 of the recovery.
Uninhibited(b) ==
  CASE b.net["aenBar"] = Low /\ b.net["rw"] = Low -> Inhibited(b)
    [] b.bc.inhibited /\ ~(b.net["aenBar"] = Low /\ b.net["rw"] = Low) ->
         RecoveryBegins(b)
    [] OTHER -> Sequenced(b)

\* B1: the command of the cycle it last latched.
Recommanded(b) ==
  LET x == [b EXCEPT !.bc.hold = 2, !.bc.inhibited = FALSE]
  IN IF b.bc.cycle = "Passive" THEN x ELSE Nudged(Commanded(x))

\* Mutant of BusController: no nudge when ~CAS falls.
BusControllerOneNudge(b) ==
  CASE b.bc.hold > 0 /\ b.net["aenBar"] # High -> b
    [] b.bc.hold = 3 /\ b.net["aenBar"] = High ->
         LET x == [b EXCEPT !.bc.hold = 2, !.bc.inhibited = FALSE]
         IN IF b.bc.cycle = "Passive" THEN x ELSE Commanded(x)
    [] b.bc.hold = 2 /\ b.net["aenBar"] = High -> [b EXCEPT !.bc.hold = 1]
    [] OTHER -> Uninhibited([b EXCEPT !.bc.hold = 0])

BusController(b) ==
  CASE b.bc.hold > 0 /\ b.net["aenBar"] # High -> b
    [] b.bc.hold = 3 /\ b.net["aenBar"] = High -> Recommanded(b)
    [] b.bc.hold = 2 /\ b.net["aenBar"] = High ->
         Nudged([b EXCEPT !.bc.hold = 1])
    [] OTHER -> Uninhibited([b EXCEPT !.bc.hold = 0])

(***************************************************************************)
(* 8237A, channel 2 alone: on_cycle()                                      *)
(***************************************************************************)
DmaActive(d) == d.state \in {"S1", "S2", "S3", "S4"}

ToMemory(d) == (d.mode \div 4) % 4 = 1
Service(d) == d.mode \div 64            \* 0 demand, 1 single, 2 block

\* The high byte when the flip-flop is set, else the low byte.
WithByte(word, high, byte) ==
  IF high THEN (word % 256) + 256 * byte ELSE 256 * (word \div 256) + byte

MasterClear(b) ==
  [Driven(b, [hrq |-> Low, eop |-> High, adstb |-> Low, dack0 |-> High,
              dack1 |-> High, dack2 |-> High, dack3 |-> High])
     EXCEPT !.dma = [@ EXCEPT !.state = "SI", !.high = FALSE, !.eop = FALSE,
                              !.masked = TRUE]]

\* on_bus_write(); registers the programs leave alone are left out.
WriteRegister(b) ==
  LET reg == b.net["xa03"]
      data == b.net["xd"]
      d == b.dma
  IN CASE reg = 4 -> [b EXCEPT !.dma.addr = WithByte(@, d.high, data),
                               !.dma.high = ~@]
       [] reg = 5 -> [b EXCEPT !.dma.count = WithByte(@, d.high, data),
                               !.dma.high = ~@]
       [] reg = 10 /\ data % 4 = 2 ->
            [b EXCEPT !.dma.masked = (data \div 4) % 2 = 1]
       [] reg = 11 /\ data % 4 = 2 -> [b EXCEPT !.dma.mode = data]
       [] reg = 13 -> MasterClear(b)
       [] OTHER -> b

\* evaluate_dreq()
RequestSeen(b) ==
  IF /\ b.dma.state = "SI" /\ b.net["holda"] # High
     /\ b.bc.hold = 0
     /\ ~b.dma.masked /\ b.net["drq2"] = High
  THEN [b EXCEPT !.dma.state = "BusRequested", !.net["hrq"] = High]
  ELSE b

\* A write noticed in the cycle before is executed, on the lines as they
\* are now; a new one is noticed.
RegisterWrites(b) ==
  LET selected == IF b.dma.state = "SI"
                  THEN b.net["xiow"] = Low /\ b.net["dmaCs"] = Low
                  ELSE b.dma.selected
      done == IF b.dma.write THEN WriteRegister(b) ELSE b
  IN [done EXCEPT !.dma.write = ~b.dma.write /\ selected /\ ~b.dma.selected,
                  !.dma.selected = selected]

\* S1: ~DACK, the address, its upper byte on the data bus for U18; the
\* transceivers and the address latches turn for the cycle after.
DmaAddress(b) ==
  LET d == b.dma
  IN [Driven(b, [dack2 |-> Low, xa03 |-> d.addr % 16,
                 da47 |-> (d.addr \div 16) % 16, xd |-> d.addr \div 256,
                 adstb |-> High])
        EXCEPT !.next = [U8 |-> "None", U13 |-> "None", U14 |-> "A",
                         U12 |-> IF ToMemory(d) THEN "B" ELSE "A"],
               !.dmaOut = TRUE,
               !.dma.state = "S2"]

DmaStrobes(b) ==
  [Driven(b, [adstb |-> Low] @@
             (IF ToMemory(b.dma) THEN [xmemw |-> Low, xior |-> Low]
              ELSE [xmemr |-> Low, xiow |-> Low]))
     EXCEPT !.next["U14"] = "A", !.dma.state = "S3"]

\* end_dma_service()
DmaEnds(b) ==
  [Driven(b, [dack2 |-> High, hrq |-> Low]) EXCEPT !.dma.state = "SI"]

\* After S4: a new upper byte needs S1 again.
DmaContinues(b) ==
  LET d == b.dma
  IN IF d.addr % 256 = 0 THEN [b EXCEPT !.dma.state = "S1"]
     ELSE [Driven(b, [xa03 |-> d.addr % 16, da47 |-> (d.addr \div 16) % 16])
             EXCEPT !.dma.state = "S2"]

\* Mutant of DmaCounts: an upper byte carried without S1.
DmaCountsNoCarry(b) ==
  LET d == b.dma
      tc == d.count = 0
      x == [Driven(b, [xmemr |-> High, xmemw |-> High, xior |-> High,
                       xiow |-> High] @@
                      [eop |-> IF tc THEN Low ELSE b.net["eop"]])
              EXCEPT !.dma = [d EXCEPT !.addr = (@ + 1) % 65536,
                                !.count = IF tc THEN 0 ELSE @ - 1,
                                !.eop = tc, !.masked = @ \/ tc]]
      ends == CASE Service(d) = 1 -> TRUE
                [] Service(d) = 2 -> tc
                [] OTHER -> tc \/ b.net["drq2"] # High
  IN IF ends THEN DmaEnds(x)
     ELSE [Driven(x, [xa03 |-> x.dma.addr % 16,
                      da47 |-> (x.dma.addr \div 16) % 16])
             EXCEPT !.dma.state = "S2"]

\* S4: the strobes rise, address and count move, terminal count pulses ~EOP.
DmaCounts(b) ==
  LET d == b.dma
      tc == d.count = 0
      x == [Driven(b, [xmemr |-> High, xmemw |-> High, xior |-> High,
                       xiow |-> High] @@
                      [eop |-> IF tc THEN Low ELSE b.net["eop"]])
              EXCEPT !.dma = [d EXCEPT !.addr = (@ + 1) % 65536,
                                !.count = IF tc THEN 0 ELSE @ - 1,
                                !.eop = tc, !.masked = @ \/ tc]]
      ends == CASE Service(d) = 1 -> TRUE
                [] Service(d) = 2 -> tc
                [] OTHER -> tc \/ b.net["drq2"] # High
  IN IF ends THEN DmaEnds(x) ELSE DmaContinues(x)

\* on_clk_falling()
DmaState(b) ==
  LET d == b.dma IN
  CASE d.state = "BusRequested" /\ b.net["holda"] = High -> DmaAddress(b)
    [] d.state = "S1" -> DmaAddress(b)
    [] d.state = "S2" -> DmaStrobes(b)
    [] d.state = "S3" /\ b.net["rdyDma"] = High -> [b EXCEPT !.dma.state = "S4"]
    [] d.state = "S4" -> DmaCounts(b)
    [] OTHER -> b

DmaController(b) ==
  LET idle == IF DmaActive(b.dma) THEN b
              ELSE Driven(b, [x \in Dacks |-> High])
      asked == RequestSeen(RegisterWrites(idle))
  IN DmaState(IF asked.dma.eop
              THEN [asked EXCEPT !.net["eop"] = High, !.dma.eop = FALSE]
              ELSE asked)

(***************************************************************************)
(* Memory: four banks of 64K by 8, and the ROMs                            *)
(***************************************************************************)
\* A cell is <<bank, row, column>>; the multiplexers invert both.
Cell(a) == <<a \div 65536, 255 - (a % 256), 255 - ((a \div 256) % 256)>>
AddressOf(cell) ==
  (65536 * cell[1]) + (256 * (255 - cell[3])) + (255 - cell[2])

\* What was never written is zero.
Stored(ram, cell) == IF cell \in DOMAIN ram THEN ram[cell] ELSE 0

Ras(net, i) == net[CASE i = 0 -> "ras0" [] i = 1 -> "ras1"
                     [] i = 2 -> "ras2" [] OTHER -> "ras3"]
Cas(net, i) == net[CASE i = 0 -> "cas0" [] i = 1 -> "cas1"
                     [] i = 2 -> "cas2" [] OTHER -> "cas3"]

Banks == 0 .. 3

\* The active bank, or the first whose ~RAS falls; -1 when there is none.
BankOf(dram, net) ==
  LET falling == {i \in Banks : /\ Ras(net, i) = Low
                                /\ dram.bank[i].ras # Low}
  IN CASE dram.active # -1 -> dram.active
       [] dram.active = -1 /\ falling # {} ->
            CHOOSE i \in falling : \A j \in falling : i <= j
       [] OTHER -> -1

\* One bank: ~RAS latches or forgets the row, ~CAS reads or writes, data
\* stay on MD while ~CAS is low; all on the levels of this cycle.
Access(b, i) ==
  LET net == b.net
      k == b.dram.bank[i]
      ras == Ras(net, i)
      cas == Cas(net, i)
      address == net["ma03"] + (16 * net["ma47"])
      rasFell == ras = Low /\ k.ras # Low
      rasRose == ras = High /\ k.ras # High
      row == IF rasFell THEN address ELSE k.row
      open == (k.latched \/ rasFell) /\ ~rasRose
      strobed == /\ open /\ cas = Low
                 /\ k.cas # Low \/ rasFell
      write == strobed /\ net["we"] = Low
      driving == (k.driving /\ ~rasRose) \/ (strobed /\ ~write)
      cell == <<i, row, address>>
      ram == IF write THEN (cell :> net["md"]) @@ b.dram.ram ELSE b.dram.ram
      shown == driving /\ cas = Low /\ net["we"] # Low
  IN [b EXCEPT
        !.net["md"] = IF shown THEN Stored(ram, cell) ELSE @,
        !.dram = [@ EXCEPT
          !.ram = ram,
          !.active = CASE rasFell -> i [] rasRose -> -1 [] OTHER -> @,
          !.bank[i] = [row |-> row, latched |-> open, ras |-> ras,
                       cas |-> cas,
                       driving |-> driving /\ ~(cas = High /\ k.cas # High)]]]

Dram(b) ==
  LET i == BankOf(b.dram, b.net) IN IF i = -1 THEN b ELSE Access(b, i)

Selects == <<"cs3", "cs4", "cs5", "cs6", "cs7">>
Selected(net) == {i \in DOMAIN Selects : net[Selects[i]] = Low}

\* What a test does not name holds zero.
Held(a) == IF a \in DOMAIN Content THEN Content[a] ELSE 0

\* ROM i of five answers at F4000h + 2000h * i.
Rom(b) ==
  IF Selected(b.net) = {} THEN b
  ELSE LET i == CHOOSE i \in Selected(b.net) :
                  \A j \in Selected(b.net) : i <= j
           offset == b.net["xa03"] + (16 * b.net["xa47"])
                       + (256 * b.net["xa8c"])
       IN [b EXCEPT !.net["xd"] = Held(999424 + (8192 * i) + offset)]

(***************************************************************************)
(* ISA bus: on_cycle(), and the card behind it                             *)
(***************************************************************************)
\* on_dma_read(): the next byte the card has to send.
CardSends(b) ==
  LET n == b.isa.sent + 1
  IN [b EXCEPT !.isa.sent = n, !.isa.driven = TRUE,
               !.net["d"] = IF n \in DOMAIN CardBytes THEN CardBytes[n] ELSE 0]

\* assert_drq() and assert_drq_write()
CardStarts(b, write) ==
  [b EXCEPT !.isa.active = TRUE, !.isa.write = write,
            !.isa.tcPrev = b.net["tc"], !.net["drq2"] = High]

Fell(now, before) == now = Low /\ before # Low

\* Device to memory: a byte in the cycle after ~DACK falls, and one more at
\* each later ~IOR of the same service.
Fetching(b) ==
  LET s == b.isa
      net == b.net
      sent == IF s.pending /\ s.active
              THEN [CardSends(b) EXCEPT !.isa.pending = FALSE, !.isa.iors = 0]
              ELSE b
      fell == Fell(net["dack2"], s.dackPrev) /\ s.active
      rose == net["dack2"] # Low /\ s.dackPrev = Low
      x == [sent EXCEPT !.isa.pending = @ \/ fell,
                        !.isa.driven = @ /\ ~rose,
                        !.isa.dackPrev = net["dack2"]]
  IN IF s.active /\ net["dack2"] = Low /\ Fell(net["ior"], s.iorPrev)
     THEN [IF x.isa.iors > 0 THEN CardSends(x) ELSE x EXCEPT !.isa.iors = 1]
     ELSE x

\* Memory to device: the byte on D one cycle after ~IOW falls.
Delivering(b) ==
  LET s == b.isa
      net == b.net
  IN [b EXCEPT !.isa.dackPrev = net["dack2"],
               !.isa.got = IF s.pending /\ s.active
                           THEN Append(@, net["d"]) ELSE @,
               !.isa.pending = \/ /\ s.active /\ net["dack2"] = Low
                                  /\ Fell(net["iow"], s.iowPrev)
                               \/ s.pending /\ ~s.active]

\* T/C changed since the request: on_dma_complete().
Completing(b) ==
  LET s == b.isa
      tc == b.net["tc"]
  IN CASE s.active /\ tc # s.tcPrev /\ s.tcPrev # HiZ ->
            [b EXCEPT !.isa.active = FALSE, !.isa.done = TRUE,
                      !.net["drq2"] = Low]
       [] s.active /\ (tc = s.tcPrev \/ s.tcPrev = HiZ) ->
            [b EXCEPT !.isa.tcPrev = tc]
       [] OTHER -> b

\* A port's write is executed one cycle after ~IOW falls, with the address
\* of this cycle's start.
PortWritten(b, address) ==
  LET x == [b EXCEPT !.isa.writePending = FALSE] IN
  CASE b.isa.writePending /\ address = CommandPort ->
         CardStarts(x, b.net["d"] = 2)
    [] b.isa.writePending /\ address # CommandPort -> x
    [] OTHER -> [b EXCEPT !.isa.writePending =
                            Fell(b.net["iow"], b.isa.iowPrev)]

PortRead(b, address) ==
  LET x == [b EXCEPT !.isa.readPending = FALSE]
      s == b.isa
  IN CASE s.readPending /\ b.net["dack2"] # Low
            /\ address \in {StatusPort, CommandPort} ->
            [x EXCEPT !.net["d"] = CardStatus, !.isa.driven = TRUE]
       [] s.readPending /\ ~(b.net["dack2"] # Low
            /\ address \in {StatusPort, CommandPort}) -> x
       [] ~s.readPending /\ Fell(b.net["ior"], s.iorPrev) ->
            [b EXCEPT !.isa.readPending = TRUE]
       [] OTHER ->
            IF s.active \/ ~s.driven THEN b
            ELSE IF b.net["ior"] = Low
            THEN [b EXCEPT !.net["d"] = CardStatus]
            ELSE [b EXCEPT !.isa.driven = FALSE]

Slots(b, address) ==
  LET dma == Completing(IF b.isa.write THEN Delivering(b) ELSE Fetching(b))
      ports == IF b.net["isaAen"] = High THEN dma
               ELSE PortRead(PortWritten(dma, address), address)
  IN [ports EXCEPT !.isa.iorPrev = b.net["ior"],
                   !.isa.iowPrev = b.net["iow"]]

(***************************************************************************)
(* Scheduler::evaluate()                                                   *)
(***************************************************************************)
BusAddress(net) ==
  LET One(x, weight) == IF net[x] = High THEN weight ELSE 0
  IN net["la03"] + (16 * net["la47"]) + (256 * net["la8f"])
       + One("la16", 65536) + One("la17", 131072)
       + One("la18", 262144) + One("la19", 524288)

ProcessorDirections(b) ==
  <<IF b.cpu.bus = "T2R" THEN In ELSE Out,
    IF b.cpu.bus = "T2R" THEN Off ELSE Out>>

RomDirections(b) == <<IF Selected(b.net) = {} THEN Off ELSE Out>>

DramDirections(b) == <<IF b.net["we"] = Low THEN In ELSE Out>>

\* ~IOR and ~IOW, ~CS, HRQ and ~EOP, ADSTB, A0-A7, DB0-DB7, ~MEMR and ~MEMW.
DmaDirections(b) ==
  LET active == DmaActive(b.dma)
      asking == b.dma.state = "BusRequested"
      read == b.net["dmaCs"] = Low /\ b.net["xior"] = Low
      OutIf(c, other) == IF c THEN Out ELSE other
  IN <<OutIf(active, In),
       IF b.dma.state = "SI" THEN In ELSE Off,
       OutIf(asking, Off),
       OutIf(active, Off),
       OutIf(active \/ asking, In),
       CASE b.dma.state \in {"S1", "BusRequested"} -> Out
         [] b.dma.state \in {"S2", "S3", "S4"} -> Off
         [] OTHER -> OutIf(read, In),
       OutIf(active, Off)>>

SlotDirections(b, address) ==
  LET s == b.isa
      serving == s.active /\ b.net["dack2"] = Low
  IN <<IF s.active \/ b.net["isaAen"] = High THEN Off ELSE In,
       CASE serving -> IF s.write THEN In ELSE Out
         [] ~serving /\ b.net["ior"] = Low ->
              IF address \in {StatusPort, CommandPort} THEN Out ELSE Off
         [] OTHER -> IF b.net["iow"] = Low THEN In ELSE Off>>

Directions(id, b, address) ==
  LET p == Parts[id].pins IN
  CASE id = "U3" -> ProcessorDirections(b)
    [] id \in {"U8", "U12", "U13", "U14"} ->
         <<TransceiverDirection(b.next[id])>>
    [] id \in {"U10", "U9", "U7"} -> <<LatchDirection(p, b.net)>>
    [] id = "U18" -> <<DmaLatchDirection(p.oe, b.dmaOut, b.net)>>
    [] id = "U19" -> <<DmaLatchDirection(p.re, b.dmaOut, b.net)>>
    [] id = "U29" -> RomDirections(b)
    [] id = "U35" -> DmaDirections(b)
    [] id = "U37" -> DramDirections(b)
    [] id = "J1"  -> SlotDirections(b, address)
    [] OTHER -> <<>>

Permutation(b) ==
  LET address == BusAddress(b.net)
  IN [i \in DOMAIN Order |-> Directions(Order[i], b, address)]

\* One chip's on_cycle(); now: the transceivers' directions of this cycle.
After(id, b, now, op, address) ==
  LET c == Parts[id]
      p == c.pins
      On(net) == [b EXCEPT !.net = net]
  IN CASE c.kind = "gates"   -> On(AfterGates(p, b.net))
       [] c.kind = "decoder" -> On(AfterDecoder(p, b.net))
       [] c.kind = "mux"     -> On(AfterMux(p, b.net))
       [] c.kind = "buffers" -> On(AfterBuffers(p, b.net))
       [] c.kind = "ff"      -> On(AfterDual(p, b.net))
       [] c.kind = "quad"    -> On(AfterQuad(p, b.net))
       [] c.kind = "transceiver" -> On(AfterTransceiver(p, now[id], b.net))
       [] c.kind = "latch" ->
            LET held == Latched(p, b.held[id], b.net)
            IN [b EXCEPT !.held[id] = held, !.net = AfterLatch(p, held, @)]
       [] c.kind = "pages" ->
            LET pages == Pages(p, b.pages, b.net)
            IN [b EXCEPT !.pages = pages, !.net = AfterPages(p, pages, @)]
       [] c.kind = "rascas" ->
            [b EXCEPT !.td1 = Delayed(b.td1, b.net),
                      !.net = AfterRasCas(b.td1, @)]
       [] c.kind = "cpu"   -> Processor(b, op)
       [] c.kind = "8288"  -> BusController(b)
       [] c.kind = "8237A" -> DmaController(b)
       [] c.kind = "rom"   -> Rom(b)
       [] c.kind = "dram"  -> Dram(b)
       [] c.kind = "isa"   -> Slots(b, address)

\* IC_8284A: READY for the next cycle; I/O CH RDY floats on this board.
Ready(b) ==
  [b EXCEPT !.net["ready"] =
     LevelOf(~(b.bc.hold > 0 \/ b.net["aenBar"] = Low))]

Evaluate(b, op) ==
  LET plan == Wave!Solve(Permutation(b))
      address == BusAddress(b.net)
      now == b.next
      Run[k \in 0 .. Len(plan)] ==
        IF k = 0 THEN b
        ELSE LET x == Run[k - 1] IN After(plan[k], x, now, op, address)
  IN Ready(Run[Len(plan)])

(***************************************************************************)
(* Behaviours                                                              *)
(***************************************************************************)
EmptyBank == [row |-> 0, latched |-> FALSE, driving |-> FALSE,
              ras |-> HiZ, cas |-> HiZ]

InRam(a) == a < 262144

BoardInit ==
  [net |-> PowerOn,
   cpu |-> [t |-> "T4", bus |-> "T1", op |-> Op("None", 0, 0), got |-> 0],
   bc |-> [cycle |-> "Passive", prevActive |-> FALSE, commanding |-> FALSE,
           inhibited |-> FALSE, hold |-> 0],
   next |-> [U8 |-> "None", U12 |-> "None", U13 |-> "None", U14 |-> "B"],
   dmaOut |-> FALSE,
   held |-> [U10 |-> 0, U9 |-> 0, U7 |-> 0, U18 |-> 0],
   pages |-> [i \in 0 .. 3 |-> 0],
   td1 |-> HiZ,
   dram |-> [ram |-> [c \in {Cell(a) : a \in {x \in DOMAIN Content : InRam(x)}}
                        |-> Content[AddressOf(c)]],
             active |-> -1, bank |-> [i \in Banks |-> EmptyBank]],
   dma |-> [state |-> "SI", addr |-> 0, count |-> 0, masked |-> TRUE,
            mode |-> 0, high |-> FALSE, write |-> FALSE, selected |-> FALSE,
            eop |-> FALSE],
   isa |-> [active |-> FALSE, write |-> FALSE, pending |-> FALSE, iors |-> 0,
            dackPrev |-> HiZ, iorPrev |-> HiZ, iowPrev |-> HiZ,
            tcPrev |-> HiZ, writePending |-> FALSE, readPending |-> FALSE,
            driven |-> FALSE, done |-> FALSE, sent |-> 0, got |-> <<>>]]

Init ==
  /\ board = BoardInit
  /\ program \in DOMAIN Programs
  /\ pc = 0
  /\ mem = [a \in {x \in DOMAIN Content : InRam(x)} |-> Content[a]]
  /\ seen = [latched |-> FALSE, strobed |-> FALSE, alone |-> TRUE,
             lost |-> FALSE, owed |-> <<>>]

DmaAddressOf(b) == (65536 * b.pages[1]) + b.dma.addr

\* The command line of a cycle is low.
Strobed8288(net, kind) ==
  \A x \in DOMAIN Strobe(kind) : net[x] = Low

\* The byte that a transfer in S4 moves: the card's next, or the memory's.
Moved ==
  IF ToMemory(board.dma) THEN CardBytes[Len(seen.owed) + 1]
  ELSE mem[DmaAddressOf(board)]

\* What the memory owes after the step: the byte a write carried whose
\* command was given, the byte a transfer brought.
Owed(b) ==
  IF b.cpu.t = "T4" /\ b.cpu.op.kind = "MemW" /\ seen.strobed
  THEN [mem EXCEPT ![b.cpu.op.addr] = b.cpu.op.data]
  ELSE IF board.dma.state = "S4" /\ ToMemory(board.dma)
  THEN [mem EXCEPT ![DmaAddressOf(board)] = Moved]
  ELSE mem

Observed(b) ==
  LET fresh == b.cpu.t = "T1"
      latched == \/ b.bc.prevActive /\ ~board.bc.prevActive
                 \/ seen.latched /\ ~fresh
  IN [latched |-> latched,
      strobed |-> \/ latched /\ Strobed8288(b.net, b.cpu.op.kind)
                  \/ seen.strobed /\ ~fresh,
      alone |-> b.dma.state = "SI" /\ (seen.alone \/ fresh),
      lost |-> seen.lost \/ (b.cpu.t = "T4" /\ ~latched),
      owed |-> IF board.dma.state = "S4" THEN Append(seen.owed, Moved)
               ELSE seen.owed]

Step(op) ==
  LET b == Evaluate(board, op) IN
  /\ board' = b
  /\ mem' = Owed(b)
  /\ seen' = Observed(b)
  /\ UNCHANGED program

\* Scheduler::solve_perm() exits the program when the directions of a cycle
\* leave the chips waiting for each other ("cycle in DAG"): no combination of
\* bus cycle, bus grant, service and recovery does.
PlansExist == Wave!Acyclic(Permutation(board))

\* The processor begins the program's next access, a cycle of its choice, or
\* goes on with the cycle it is in.
ProgramCycle ==
  /\ board.cpu.t = "T4"
  /\ pc < Len(Programs[program])
  /\ pc' = pc + 1
  /\ Step(Programs[program][pc + 1])

FreeCycle ==
  /\ board.cpu.t = "T4"
  /\ pc = Len(Programs[program])
  /\ \E op \in FreeOps : Step(op)
  /\ UNCHANGED pc

Continue ==
  /\ board.cpu.t # "T4"
  /\ Step(board.cpu.op)
  /\ UNCHANGED pc

\* A cycle that has no plan ends the program.
Next == PlansExist /\ (ProgramCycle \/ FreeCycle \/ Continue)

Spec == Init /\ [][Next]_vars /\ WF_vars(Next)

-----------------------------------------------------------------------------
(***************************************************************************)
(* Properties.  A grant that falls in T3 of a memory write swallows the    *)
(* processor's next cycle, and the 8288 gives the write's command again in *)
(* its place, with that cycle's byte on the bus: from there on the memory  *)
(* is not what was written, and "lost" says so.                            *)
(***************************************************************************)
Answered == board.cpu.t = "T4" /\ seen.strobed

Answer(op) ==
  CASE op.kind = "IoR" -> CardStatus
    [] op.kind # "IoR" /\ InRam(op.addr) -> mem[op.addr]
    [] OTHER -> Held(op.addr)

\* IC_8288::on_clk_rising() turns the transceivers one cycle ahead, and again
\* when it gives a command back after a transfer: a read whose command was
\* given ends with the byte of the memory cell, the ROM or the port that its
\* address names, never with what an earlier cycle left on AD or XD.  Of the
\* ports: unless a DMA request stands meanwhile.
ReadReturnsContents ==
  (Answered /\ board.cpu.op.kind \notin Writing
     /\ (board.cpu.op.kind = "IoR" => seen.alone))
    => board.cpu.got = Answer(board.cpu.op)

\* The rows and columns that the multiplexers make of an address, and the one
\* bank that U65 and U47 select for it, are the same for the processor and
\* for the DMA controller: outside a service every cell holds the byte last
\* written to its address by either, and no other cell has changed.
MemoryKeepsWrites ==
  (board.cpu.t = "T4" /\ board.dma.state = "SI" /\ ~seen.lost)
    => \A a \in DOMAIN mem : Stored(board.dram.ram, Cell(a)) = mem[a]

\* ISA_Bus::on_cycle() tells the card that its transfer is over at an edge of
\* T/C.  By then the last byte has moved: to the card, every byte of the
\* buffer in order and once; from it, one for each byte the memory got.
TransferComplete ==
  board.isa.done =>
    /\ board.dma.masked
    /\ IF board.isa.write THEN board.isa.got = seen.owed
       ELSE board.isa.sent = Len(seen.owed)

\* ic_8237a.cpp:431: HRQ is not asserted "while the CPU has an active bus
\* cycle.  Entering BusRequested changes bidir directions which alters the
\* DAG permutation -- must not happen mid-cycle": a port read under way
\* returns what the card answered.
PortReadReturnsStatus ==
  (Answered /\ board.cpu.op.kind = "IoR") => board.cpu.got = CardStatus
=============================================================================
