--------------------------- MODULE FloppySystem ---------------------------
(***************************************************************************)
(* The expansion bus with the program that uses it.  The guest runs short  *)
(* driver programs, one port access per step and only while the processor  *)
(* owns the bus: sector transfers by DMA and by programmed I/O, a format,  *)
(* a protected read, a read past the disk, a memory copy, a verify, a test *)
(* card transfer that is waited for and one that is not.  It may give up   *)
(* on a wait and reset the floppy controller, and the machine may be reset *)
(* (ClockSystem says when): RESET reaches the DMA controller, not the bus  *)
(* and not the cards.                                                      *)
(*                                                                         *)
(* The guest is not part of the emulator: its programs are what the BIOS   *)
(* and the cards' own users do with these ports.                           *)
(***************************************************************************)
EXTENDS ISABus, Sequences

CONSTANTS
  Fill,           \* the byte of a format
  MaxPrograms,    \* bound: programs of one behaviour
  MaxResets,      \* bound: give-ups and machine resets of one behaviour
  Retried,        \* bound: the programs that may follow one
  Images, Memory  \* the disks and the memory at the start

VARIABLES
  guest,     \* the program, its next access, what it saw
  mishap     \* what has happened that the code does not recover from

vars == <<dmaVars, isaVars, fdc, disk, guest, mishap>>

(***************************************************************************)
(* Programs.  An access is a record; b is its argument.                    *)
(***************************************************************************)
Op(name, arg) == <<[op |-> name, arg |-> arg]>>
Each(name, args) == [i \in DOMAIN args |-> [op |-> name, arg |-> args[i]]]

Mode(kind, service, auto, dec) ==
  [kind |-> kind, service |-> service, auto |-> auto, dec |-> dec]

\* Programs a channel for count + 1 bytes and unmasks it.
Channels(c, mode, addr, count) ==
  Op("clear", 0) \o Op("mode", [ch |-> c, mode |-> mode])
  \o Each("addr", <<[ch |-> c, byte |-> Low(addr)],
                    [ch |-> c, byte |-> High(addr)]>>)
  \o Each("count", <<[ch |-> c, byte |-> Low(count)],
                     [ch |-> c, byte |-> High(count)]>>)
  \o Op("unmask", c)

Chs(code, drive, sector, n, eot) ==
  Each("fifo", <<code, drive, 0, 0, sector, n, eot, 0, 0>>)
Reads(n) == [i \in 1..n |-> [op |-> "read", arg |-> 0]]

Result7 == Op("wait", 6) \o Reads(7)
SenseIrq == Op("fifo", SENSE) \o Reads(2)
ModeOn == Op("dor", [irq |-> TRUE, run |-> TRUE])

\* The command register: everything off, or some bits on.
Bits(m2m, hold, compressed, disabled) ==
  Op("command", [m2m |-> m2m, hold |-> hold, compressed |-> compressed,
                 disabled |-> disabled])
AllOff == Bits(FALSE, FALSE, FALSE, FALSE)

ResetFdc == Op("lower", 5) \o Op("dor", [irq |-> TRUE, run |-> FALSE])
            \o ModeOn \o Op("wait", 6) \o SenseIrq
            \o Each("fifo", <<RECALIBRATE, 0>>) \o Op("wait", 6) \o SenseIrq

\* A copy of two bytes from address 1 to 5, by a software request.
Copy(bits) ==
  Channels(0, Mode("fromMem", "block", FALSE, FALSE), 1, 0)
  \o Channels(1, Mode("toMem", "block", FALSE, FALSE), 5, 1)
  \o Op("status", 0) \o bits \o Op("request", 0) \o Op("tc", 1) \o AllOff

Programs ==
  [post   |-> Op("master", 0) \o Op("masks", Channel) \o ResetFdc,
   retry  |-> AllOff \o ResetFdc,
   read   |-> Channels(2, Mode("toMem", "single", FALSE, FALSE), 7, 3)
              \o Chs(READ, 0, 1, 2, 2) \o Result7,
   write  |-> Channels(2, Mode("fromMem", "demand", FALSE, TRUE), 4, 1)
              \o Chs(WRITE, 0, 2, 2, 2) \o Result7,
   edge   |-> Channels(2, Mode("toMem", "demand", TRUE, FALSE), 3, 1)
              \o Chs(READ, 1, 0, 2, 1) \o Result7,
   prot   |-> Channels(2, Mode("toMem", "block", FALSE, FALSE), 0, 3)
              \o Chs(READ, 1, 1, 3, 1) \o Result7,
   beyond |-> Channels(2, Mode("toMem", "single", FALSE, FALSE), 0, 1)
              \o Chs(READ, 0, 3, 2, 3) \o Result7,
   format |-> Channels(2, Mode("fromMem", "single", FALSE, FALSE), 0, 7)
              \o Each("fifo", <<FORMAT, 0, 2, 2, 0, Fill>>) \o Result7,
   pio    |-> Op("dor", [irq |-> FALSE, run |-> TRUE])
              \o Chs(READ, 0, 2, 2, 2)
              \o Each("data", <<0, 0>>) \o Reads(7) \o ModeOn,
   copy   |-> Copy(Bits(TRUE, FALSE, FALSE, FALSE)),
   fill   |-> Copy(Bits(TRUE, TRUE, TRUE, FALSE)),
   verify |-> Bits(FALSE, FALSE, FALSE, TRUE)
              \o Channels(3, Mode("verify", "single", FALSE, FALSE), 0, 1)
              \o Op("cardIrq", 5) \o Op("card", 3) \o AllOff
              \o Op("wait", 5) \o Op("lower", 5),
   card   |-> Channels(1, Mode("toMem", "demand", FALSE, FALSE), 2, 1)
              \o Op("cardIrq", 5) \o Op("card", 1) \o Op("wait", 5)
              \o Op("lower", 5) \o Op("clear", 0)
              \o Each("left", <<1, 1>>),
   async  |-> Channels(1, Mode("toMem", "single", FALSE, FALSE), 6, 2)
              \o Op("card", 1),
   cancel |-> Op("card", 1) \o Op("deassert", 1)]

Resets == {"post", "retry"}

\* A driver resets the controller at the start or when it gave up.
ASSUME RetriedAssumption == Retried \subseteq DOMAIN Programs \ Resets

Length == [p \in DOMAIN Programs |-> Len(Programs[p])]

Ended == guest.pc > Length[guest.prog]
Next1 == Programs[guest.prog][guest.pc]

Init ==
  /\ DmaInit(Zero) /\ FloppyInit(Images) /\ IsaInit(Memory)
  /\ guest = [prog |-> "post", pc |-> 1, done |-> 0, edge |-> {},
              resets |-> 0, got |-> <<>>, mem |-> Memory, disk |-> Images]
  /\ mishap = {}

(***************************************************************************)
(* One access.                                                             *)
(***************************************************************************)
KeepCards == UNCHANGED <<isaVars, fdc, disk>>

Access(o) ==
  \/ /\ KeepCards
     /\ \/ o.op = "clear" /\ ClearFlipFlop
        \/ o.op = "mode" /\ WriteMode(o.arg.ch, o.arg.mode)
        \/ o.op = "addr" /\ WriteAddr(o.arg.ch, o.arg.byte)
        \/ o.op = "count" /\ WriteCount(o.arg.ch, o.arg.byte)
        \/ o.op = "unmask" /\ WriteMask(o.arg, FALSE)
        \/ o.op = "command" /\ WriteCommand(o.arg.m2m, o.arg.hold,
                                           o.arg.compressed, o.arg.disabled)
        \/ o.op = "master" /\ DmaReset(Zero)
        \/ o.op = "masks" /\ WriteMasks(o.arg)
        \/ o.op = "left" /\ ReadCount(o.arg)
        \/ o.op = "request" /\ WriteRequest(o.arg, TRUE)
        \/ o.op = "status" /\ ReadStatus
        \/ o.op = "tc" /\ dma.ch[o.arg].tc /\ ReadStatus
        \/ o.op = "wait" /\ o.arg \in guest.edge /\ UNCHANGED dmaVars
  \/ /\ UNCHANGED dmaVars
     /\ \/ o.op = "dor" /\ WriteDor(o.arg.irq, o.arg.run, 0)
        \/ o.op = "fifo" /\ WriteFifo(o.arg)
        \/ o.op = "data" /\ Programmed /\ ReadFifo
        \/ o.op = "read" /\ MainStatus = "toHost" /\ ReadFifo
        \/ o.op = "card" /\ CardRequest(o.arg)
        \/ o.op = "deassert" /\ CardDeassert(o.arg)
        \/ o.op = "cardIrq" /\ CardIrq(o.arg)
        \/ o.op = "lower" /\ LowerCardIrq(o.arg)

\* The interrupt controller keeps the edge of a request.
Edges(before) == before \cup (isa'.irq \ isa.irq)

\* A transfer is under way or asked for.
Busy == \/ isa.active # NoChannel
        \/ dma.state # "SI"
        \/ \E c \in Channel : dma.ch[c].request

\* A second transfer is asked for while one is active.
Overlap(o) == o.op \in {"card", "fifo"} /\ isa.active # NoChannel

\* The processor owns the bus.  An access takes four clocks, ~EOP one: it is
\* over before the next access.
OwnsBus == ~pins.hlda /\ ~pins.eop

GuestStep ==
  /\ ~Ended /\ OwnsBus
  /\ Access(Next1)
  /\ guest' = [guest EXCEPT
       !.pc = @ + 1,
       !.edge = Edges(IF Next1.op = "wait" THEN @ \ {Next1.arg} ELSE @),
       !.got = CASE Next1.op = "data" -> Append(@, ReadByte(fdc))
                 [] Next1.op = "left" -> Append(@, CountByte(Next1.arg))
                 [] OTHER -> @]
  /\ mishap' = IF Overlap(Next1) THEN mishap \cup {"overlap"} ELSE mishap

\* The next program, also while a transfer nobody waits for is under way.
Choose ==
  /\ Ended /\ guest.done < MaxPrograms
  /\ \E p \in IF guest.resets = 0 THEN DOMAIN Programs \ Resets
            ELSE Retried :
       guest' = [guest EXCEPT !.prog = p, !.pc = 1, !.done = @ + 1,
                              !.got = <<>>, !.mem = mem, !.disk = disk]
  /\ mishap' = IF Busy THEN mishap \cup {"overlap"}
               ELSE mishap
  /\ UNCHANGED <<dmaVars, isaVars, fdc, disk>>

(***************************************************************************)
(* Giving up.                                                              *)
(***************************************************************************)
Restarted(p) == [guest EXCEPT !.prog = p, !.pc = 1, !.resets = @ + 1,
                              !.edge = {}]

\* The driver's time-out: it resets the floppy controller and starts over.
MayRestart == guest.resets < MaxResets /\ guest.done < MaxPrograms

GiveUp ==
  /\ ~Ended /\ OwnsBus /\ MayRestart
  /\ Next1.op \in {"wait", "data", "tc"}
  /\ guest' = Restarted("retry")
  /\ mishap' = IF Busy THEN mishap \cup {"abandoned"} ELSE mishap
  /\ UNCHANGED <<dmaVars, isaVars, fdc, disk>>

\* RESET of the machine: the processor starts over as well.
MachineReset ==
  /\ MayRestart
  /\ DmaReset(Zero)
  /\ guest' = Restarted("post")
  /\ mishap' = mishap \cup (IF Busy THEN {"abandoned"} ELSE {})
                      \cup (IF dma.writeHalf THEN {"resetInCopy"} ELSE {})
  /\ UNCHANGED <<isaVars, fdc, disk>>

Clock(ready) ==
  /\ Cycle(ready)
  /\ guest' = [guest EXCEPT !.edge = Edges(@)]
  /\ UNCHANGED mishap

Handshake == Grant /\ UNCHANGED <<isaVars, fdc, disk, guest, mishap>>

Next ==
  \/ GuestStep
  \/ Choose
  \/ GiveUp
  \/ MachineReset
  \/ \E ready \in BOOLEAN : Clock(ready)
  \/ Handshake

\* The clock thread keeps clocking (ClockSystem), READY comes back, and the
\* processor runs its program.
Fairness == WF_vars(Clock(TRUE)) /\ WF_vars(Handshake) /\ WF_vars(GuestStep)

Spec == Init /\ [][Next]_vars /\ Fairness

(***************************************************************************)
(* Properties.                                                             *)
(***************************************************************************)
\* What a disk holds from an offset on, and memory from an address on.
DiskByte(d, o) == IF o % OffsetMod < DiskSize THEN d[o % OffsetMod] ELSE Zero
Span(addr, count, dec) ==
  [i \in 0..count |-> (addr + (IF dec THEN -i ELSE i)) % Words]
Filling(m, span, Byte_(_)) ==
  [a \in DOMAIN m |-> IF \E i \in DOMAIN span : span[i] = a
                      THEN Byte_(CHOOSE i \in DOMAIN span : span[i] = a)
                      ELSE m[a]]

\* Memory and the first disk as the guest's program must leave them.
MemoryAfter ==
  LET d == guest.disk
      From(drive, sector, addr, count) ==
        LET B(i) == DiskByte(d[drive], Offset(0, 0, sector) + i)
        IN Filling(guest.mem, Span(addr, count, FALSE), B)
      Prot(i) == IF i < SectorSize THEN d[1][i] ELSE Gap
      Copied(i) == guest.mem[1 + i]
      Held(i) == guest.mem[1]
      Card(i) == CardByte
  IN CASE guest.prog = "read" -> From(0, 1, 7, 3)
       [] guest.prog = "edge" -> From(1, 0, 3, 1)
       [] guest.prog = "prot" -> Filling(guest.mem, Span(0, 3, FALSE), Prot)
       [] guest.prog = "copy" -> Filling(guest.mem, Span(5, 1, FALSE), Copied)
       [] guest.prog = "fill" -> Filling(guest.mem, Span(5, 1, FALSE), Held)
       [] guest.prog = "card" -> Filling(guest.mem, Span(2, 1, FALSE), Card)
       [] OTHER -> guest.mem

DiskAfter ==
  LET old == guest.disk[0] IN
  CASE guest.prog = "write" ->
         [old EXCEPT ![SectorSize] = mem[4], ![SectorSize + 1] = mem[3]]
    [] guest.prog = "format" ->
         [o \in DOMAIN old |-> IF o < 2 * SectorSize THEN Fill ELSE old[o]]
    [] OTHER -> old

\* A program that ran to its end did what it asked for: each byte of the
\* sector at its place in memory or on the disk and no other byte touched,
\* an error for what has no sector, the sectors of a programmed read in
\* order.  One transfer counts count + 1 bytes over sector boundaries,
\* address and offset wraps, a copy, a verify and another card's transfer
\* (IC_8237A::on_clk_falling, ISA_Bus::on_cycle, the FDC's callbacks).
TransferIsFaithful ==
  Ended /\ mishap = {} /\ guest.prog \notin Resets \cup {"async"} =>
    /\ mem = MemoryAfter
    /\ disk = [guest.disk EXCEPT ![0] = DiskAfter]
    /\ guest.prog \in {"read", "write", "edge", "format", "pio"} =>
         fdc.result.st = "ok"
    /\ guest.prog \in {"prot", "beyond"} => fdc.result.st = "noData"
    /\ guest.prog = "pio" =>
         guest.got = <<guest.disk[0][SectorSize],
                       guest.disk[0][SectorSize + 1]>>
    /\ guest.prog = "card" => guest.got = <<0, 0>>

\* Memory and disk of a command in execution belong to the bus: the floppy
\* controller is the active card exactly while it executes a transfer by
\* DMA, so no byte and no terminal count reaches it in another phase.  Unless a reset abandoned a
\* transfer, or a second request took the one active channel.
ActiveWhileExecuting ==
  LET dmaPhase == fdc.phase = "Execution" /\ ~fdc.pio IN
  /\ "abandoned" \notin mishap /\ isa.card = "fdc" => dmaPhase
  /\ mishap = {} /\ dmaPhase => isa.card = "fdc"

\* A service stays with its channel until the bus is released: without the
\* memory-to-memory bit the controller never turns to another channel in
\* mid-service.  A reset in the write half of a copy is the exception: it
\* leaves mem2mem_write_ set, and the next transfer's byte ends as a copy's.
OneChannelPerService ==
  [][dma.active # dma'.active /\ ~dma.m2m /\ "resetInCopy" \notin mishap' =>
       NoChannel \in {dma.active, dma'.active}]_vars

\* What the guest waits for comes: the interrupt of a command, its result,
\* the bytes of a programmed read, the terminal count of a copy.
Waiting == ~Ended /\ Next1.op \in {"wait", "read", "data", "tc"}
WaitEnds == Waiting ~> (~Waiting \/ mishap # {})

=============================================================================
