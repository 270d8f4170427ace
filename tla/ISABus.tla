------------------------------ MODULE ISABus ------------------------------
(***************************************************************************)
(* The expansion bus (isa/isa_bus.cpp) between the DMA controller and two  *)
(* cards: the floppy controller on channel 2 and IRQ6, the test card on    *)
(* channels 1 and 3 and IRQ5 (isa/isa_testcard.cpp).  The bus watches the  *)
(* controller's strobes and acknowledges for edges, calls the card that    *)
(* owns the one active channel, and turns a change of T/C into the end of  *)
(* that card's transfer.                                                   *)
(*                                                                         *)
(* Cycle is one clock: the DMA controller, then ISA_Bus::on_cycle().       *)
(* Memory is system RAM; the processor's accesses to the cards are whole   *)
(* (BusArbitration), one action each.                                      *)
(***************************************************************************)
EXTENDS DMA, Floppy

CONSTANTS
  CardByte,     \* what the test card's buffer holds
  Floating      \* what an undriven data bus reads as

VARIABLES
  isa,     \* ISA_Bus
  card,    \* the test card: the interrupt it raises at the end, if any
  mem      \* system memory, by address

isaVars == <<isa, card, mem>>
None == "none"

\* insert_card(): the card that owns a channel.
Owner(ch) == IF ch = 2 THEN "fdc" ELSE "card"

\* on_power_on()
IsaInit(memory) ==
  /\ isa = [active |-> NoChannel, write |-> FALSE, card |-> None,
            pending |-> FALSE, again |-> FALSE, dack |-> {}, tc |-> FALSE,
            ior |-> FALSE, iow |-> FALSE, sd |-> Floating, drq |-> {},
            irq |-> {}]
  /\ card = [irq |-> 0]
  /\ mem = memory

(***************************************************************************)
(* Calls of the cards.                                                     *)
(***************************************************************************)
\* assert_drq() and assert_drq_write(): the bus has one active channel.
Assert(b, ch, write) ==
  [b EXCEPT !.active = ch, !.card = Owner(ch), !.write = write,
            !.tc = pins.eop, !.drq = @ \cup {ch}]

\* deassert_drq(): the active channel is gone, whichever it was.
Deassert(b, ch) ==
  [b EXCEPT !.active = NoChannel, !.card = None, !.drq = @ \ {ch}]

\* raise_irq(), lower_irq() and the request of a floppy command.
Told(b, out) ==
  LET irq == [b EXCEPT !.irq = CASE out.irq = "raise" -> @ \cup {6}
                                 [] out.irq = "lower" -> @ \ {6}
                                 [] OTHER -> @]
  IN IF out.drq = "none" THEN irq ELSE Assert(irq, 2, out.drq = "write")

\* A handler of the floppy controller ran; what it told the bus is done.
Handled(new, b) ==
  /\ fdc' = [new EXCEPT !.out = Quiet]
  /\ isa' = Told(b, new.out)

(***************************************************************************)
(* on_cycle(), the DMA part.                                               *)
(***************************************************************************)
\* The data bus with the pins p: memory, else what a card drives.
Data(p, sd) == IF p.memr THEN mem[p.addr] ELSE sd

\* The active card is asked for a byte: the first one in the cycle after
\* its acknowledge falls, the next ones when ~IOR falls.
Fetches(p) ==
  /\ ~isa.write /\ isa.card # None
  /\ \/ isa.pending
     \/ /\ p.ior /\ ~isa.ior /\ isa.again
        /\ isa.active \in p.dack

\* It is handed the byte on the bus in the cycle after ~IOW falls.
Delivers == isa.write /\ isa.card # None /\ isa.pending

\* Terminal count: any change of T/C since the request ends the transfer of
\* the active channel.
Completes(p) == p.eop # isa.tc /\ isa.active # NoChannel

\* The bus after both, from the byte fetched.
Watched(p, byte) ==
  LET rose == isa.dack \ p.dack # {}
      fell == isa.active \in p.dack \ isa.dack
      iorFell == p.ior /\ ~isa.ior /\ isa.active \in p.dack
      iowFell == p.iow /\ ~isa.iow /\ isa.active \in p.dack
      read == [isa EXCEPT
                 !.sd = IF rose THEN Floating
                        ELSE IF Fetches(p) THEN byte ELSE @,
                 !.pending = (@ /\ isa.card = None) \/ fell,
                 !.again = (@ /\ ~(isa.pending /\ isa.card # None))
                           \/ iorFell]
      written == [isa EXCEPT
                    !.pending = (@ /\ isa.card = None) \/ iowFell]
      seen == [(IF isa.write THEN written ELSE read) EXCEPT
                 !.dack = p.dack, !.ior = p.ior, !.iow = p.iow]
  IN IF Completes(p) THEN [seen EXCEPT !.active = NoChannel, !.card = None,
                                       !.drq = @ \ {isa.active}]
     ELSE IF isa.active # NoChannel THEN [seen EXCEPT !.tc = p.eop] ELSE seen

\* The floppy controller's callbacks of this cycle.
FdcCalled(p) ==
  LET moved == CASE Fetches(p) -> DmaServed(fdc)
                 [] Delivers   -> DmaStored(fdc)
                 [] OTHER      -> fdc
  IN IF isa.card # "fdc" THEN fdc
     ELSE IF Completes(p) THEN DmaCompleted(moved) ELSE moved

\* The test card raises the interrupt it was told to.
CardCalled(p, b) ==
  IF Completes(p) /\ isa.card = "card" /\ card.irq # 0
  THEN [b EXCEPT !.irq = @ \cup {card.irq}] ELSE b

IsaCycle(p) ==
  LET byte == IF isa.card = "fdc" THEN ReadByte(fdc) ELSE CardByte
      b == Watched(p, byte)
  IN /\ Handled(FdcCalled(p), CardCalled(p, b))
     /\ disk' = IF Delivers /\ isa.card = "fdc"
                THEN DiskStored(fdc, Data(p, isa.sd)) ELSE disk
     /\ mem' = IF ~p.memw THEN mem
               ELSE [mem EXCEPT ![p.addr] =
                       IF dma.writeHalf THEN dma.temp ELSE Data(p, b.sd)]

\* One clock: the DMA controller, then the bus.
Cycle(ready) ==
  /\ DmaCycle(isa.drq, ready, Data(pins, isa.sd))
  /\ IsaCycle(pins')
  /\ UNCHANGED card

(***************************************************************************)
(* The processor's accesses to the cards.                                  *)
(***************************************************************************)
FdcPort(new) == Handled(new, isa) /\ UNCHANGED <<card, mem>>

\* Port 0x3F2.
WriteDor(irqOn, run, unit) ==
  FdcPort(Dor(fdc, irqOn, run, unit)) /\ UNCHANGED disk

\* Port 0x3F5, written: a programmed data byte, or a command byte.
Programmed == fdc.phase = "Execution" /\ fdc.pio

WriteFifo(byte) ==
  \/ /\ Programmed
     /\ disk' = Stored(fdc, byte)
     /\ FdcPort(PioMoved(fdc, FALSE))
  \/ /\ ~Programmed
     /\ FdcPort(Command(fdc, byte))
     /\ UNCHANGED disk

\* Port 0x3F5, read: a programmed data byte, or a byte of the result.
ReadFifo ==
  /\ \/ Programmed /\ FdcPort(PioMoved(fdc, fdc.prot))
     \/ fdc.phase = "Result" /\ FdcPort(ResultMoved(fdc))
  /\ UNCHANGED disk

\* The test card's ports: a request, its end, the interrupt at the end, and
\* the level of IRQ5.
CardRequest(ch) ==
  isa' = Assert(isa, ch, FALSE) /\ UNCHANGED <<card, mem, fdc, disk>>

CardDeassert(ch) ==
  isa' = Deassert(isa, ch) /\ UNCHANGED <<card, mem, fdc, disk>>

CardIrq(n) ==
  card' = [card EXCEPT !.irq = n] /\ UNCHANGED <<isa, mem, fdc, disk>>

LowerCardIrq(n) ==
  isa' = [isa EXCEPT !.irq = @ \ {n}] /\ UNCHANGED <<card, mem, fdc, disk>>
=============================================================================
