-------------------------------- MODULE DMA --------------------------------
(***************************************************************************)
(* The 8237A DMA controller (ic/ic_8237a.cpp): its registers, its three    *)
(* service engines - device transfer, memory to memory, verify - and the   *)
(* levels it drives.  Cycle is one call of IC_8237A::on_cycle() that finds *)
(* no register access; the register accesses are actions of their own,     *)
(* enabled while the processor owns the bus (module BusArbitration checks  *)
(* the handover itself, clock by clock, and that accesses stay whole).     *)
(*                                                                         *)
(* A byte is a digit of base ByteSize and a register two of them.  The     *)
(* transceivers and address latches the controller nudges carry data only. *)
(***************************************************************************)
EXTENDS Integers

CONSTANT ByteSize      \* values of a data byte, 256 in the code

ASSUME ByteAssumption == ByteSize \in Nat \ {0, 1}

VARIABLES
  dma,     \* registers, service state
  pins     \* what the controller drives, and HLDA

dmaVars == <<dma, pins>>

Channel == 0..3
NoChannel == -1
Byte == 0 .. ByteSize - 1
Words == ByteSize * ByteSize
Word == 0 .. Words - 1

\* on_power_on(); nothing is driven.  A mode: its transfer type 0, 1 or 2
\* (verify, to memory, from memory) and when it releases the bus.
DmaInit(data) ==
  /\ dma = [ch |-> [c \in Channel |->
                      [base |-> 0, baseCount |-> 0, addr |-> 0, count |-> 0,
                       mode |-> [kind |-> "verify", service |-> "demand",
                                 auto |-> FALSE, dec |-> FALSE],
                       masked |-> TRUE, request |-> FALSE, tc |-> FALSE]],
            m2m |-> FALSE, hold |-> FALSE, compressed |-> FALSE,
            disabled |-> FALSE, high |-> FALSE, state |-> "SI",
            active |-> NoChannel, writeHalf |-> FALSE, temp |-> data,
            upper |-> 0]
  /\ pins = [hrq |-> FALSE, hlda |-> FALSE, aen |-> FALSE, eop |-> FALSE,
             dack |-> {}, memr |-> FALSE, memw |-> FALSE, ior |-> FALSE,
             iow |-> FALSE, addr |-> 0]

(***************************************************************************)
(* Register accesses, on_bus_write() and on_bus_read().                    *)
(***************************************************************************)
Low(w) == w % ByteSize
High(w) == w \div ByteSize
\* One byte of a register, the one the flip-flop points at.
PutByte(w, b) == IF dma.high THEN Low(w) + b * ByteSize
                 ELSE High(w) * ByteSize + b

WriteAddr(c, b) ==
  /\ dma' = [dma EXCEPT !.ch[c].base = PutByte(@, b),
                        !.ch[c].addr = PutByte(@, b), !.high = ~@]
  /\ UNCHANGED pins

WriteCount(c, b) ==
  /\ dma' = [dma EXCEPT !.ch[c].baseCount = PutByte(@, b),
                        !.ch[c].count = PutByte(@, b), !.high = ~@]
  /\ UNCHANGED pins

\* Reading a count moves the flip-flop as writing one does.
CountByte(c) == IF dma.high THEN High(dma.ch[c].count)
                ELSE Low(dma.ch[c].count)

ReadCount(c) == dma' = [dma EXCEPT !.high = ~@] /\ UNCHANGED pins

WriteCommand(m2m, hold, compressed, disabled) ==
  /\ dma' = [dma EXCEPT !.m2m = m2m, !.hold = hold,
                        !.compressed = compressed, !.disabled = disabled]
  /\ UNCHANGED pins

WriteRequest(c, on) ==
  dma' = [dma EXCEPT !.ch[c].request = on] /\ UNCHANGED pins

WriteMode(c, mode) ==
  dma' = [dma EXCEPT !.ch[c].mode = mode] /\ UNCHANGED pins

ClearFlipFlop == dma' = [dma EXCEPT !.high = FALSE] /\ UNCHANGED pins

\* Ports 0x0A, 0x0E and 0x0F: the channels left masked.
WriteMasks(masked) ==
  /\ dma' = [dma EXCEPT !.ch =
               [c \in Channel |-> [@[c] EXCEPT !.masked = c \in masked]]]
  /\ UNCHANGED pins

WriteMask(c, on) ==
  dma' = [dma EXCEPT !.ch[c].masked = on] /\ UNCHANGED pins

\* Reading the status clears the terminal count flags.
ReadStatus ==
  /\ dma' = [dma EXCEPT !.ch = [c \in Channel |->
                                  [@[c] EXCEPT !.tc = FALSE]]]
  /\ UNCHANGED pins

\* on_reset(), of RESET and of the master clear: mem2mem_write_, the command
\* strobes and the channels' addresses and counts stay as they are.
DmaReset(zero) ==
  /\ dma' = [dma EXCEPT
       !.ch = [c \in Channel |-> [@[c] EXCEPT !.masked = TRUE,
                                    !.request = FALSE, !.tc = FALSE]],
       !.m2m = FALSE, !.hold = FALSE, !.compressed = FALSE,
       !.disabled = FALSE, !.high = FALSE, !.state = "SI",
       !.active = NoChannel, !.upper = 0, !.temp = zero]
  /\ pins' = [pins EXCEPT !.hrq = FALSE, !.aen = FALSE, !.eop = FALSE,
                          !.dack = {}]

(***************************************************************************)
(* evaluate_dreq() and on_clk_falling().  ~EOP lasts one cycle.            *)
(***************************************************************************)
\* Requested channels, by pin or by software.
Requested(drq) ==
  {c \in Channel : ~dma.ch[c].masked /\ (c \in drq \/ dma.ch[c].request)}

\* evaluate_dreq(): channel 0 first.
Request(drq) ==
  /\ dma.state = "SI" /\ ~dma.disabled /\ ~pins.hlda
  /\ \E c \in Requested(drq) :
       /\ \A d \in Requested(drq) : c <= d
       /\ dma' = [dma EXCEPT !.active = c, !.state = "BusRequested"]
  /\ pins' = [pins EXCEPT !.hrq = TRUE, !.eop = FALSE]

\* No request is taken: none is there, or the 8288 recovers (bus_hold()).
Idle ==
  /\ dma.state = "SI"
  /\ pins' = [pins EXCEPT !.eop = FALSE]
  /\ UNCHANGED dma

\* The first state of a transfer, in the cycle that sees HLDA as well.
S1 ==
  LET c == dma.ch[dma.active] IN
  /\ \/ dma.state = "S1"
     \/ dma.state = "BusRequested" /\ pins.hlda /\ c.mode.kind # "verify"
  /\ dma' = [dma EXCEPT !.state = "S2", !.upper = High(c.addr)]
  /\ pins' = [pins EXCEPT
       !.aen = TRUE, !.addr = c.addr, !.eop = FALSE,
       !.dack = IF dma.m2m THEN @ ELSE @ \cup {dma.active}]

\* Strobes of a transfer: a copy reads memory, a device transfer pairs a
\* memory command with the opposite port command.
S2(ready) ==
  LET kind == dma.ch[dma.active].mode.kind IN
  /\ dma.state = "S2"
  /\ pins' = [pins EXCEPT
       !.eop = FALSE,
       !.memr = @ \/ dma.m2m \/ kind = "fromMem",
       !.iow = @ \/ (~dma.m2m /\ kind = "fromMem"),
       !.memw = @ \/ (~dma.m2m /\ kind = "toMem"),
       !.ior = @ \/ (~dma.m2m /\ kind = "toMem")]
  /\ dma' = [dma EXCEPT !.state = IF ~dma.compressed THEN "S3"
                                  ELSE IF ready THEN "S4" ELSE "S2"]

\* READY stretches S3, except on channel 0.
S3(ready) ==
  /\ dma.state = "S3"
  /\ dma' = [dma EXCEPT !.state = IF dma.active = 0 \/ ready
                                  THEN "S4" ELSE "S3"]
  /\ pins' = [pins EXCEPT !.eop = FALSE]

Step(addr, dec) == (addr + (IF dec THEN -1 ELSE 1)) % Words

\* The registers after a transfer: terminal count is a count of zero.
Counted(c) ==
  LET moved == Step(c.addr, c.mode.dec) IN
  CASE c.count > 0 -> [c EXCEPT !.addr = moved, !.count = @ - 1]
    [] c.count = 0 /\ c.mode.auto ->
         [c EXCEPT !.tc = TRUE, !.addr = c.base, !.count = c.baseCount]
    [] OTHER -> [c EXCEPT !.tc = TRUE, !.addr = moved, !.masked = TRUE]

\* end_dma_service()
\* Mutant of EndService: the write half of a copy is not ended.
EndServiceKeepsHalf(d) ==
  [d EXCEPT !.state = "SI", !.active = NoChannel,
            !.ch = [c \in Channel |->
                      [@[c] EXCEPT !.request = @ /\ c # d.active
                                                 /\ ~(d.m2m /\ c = 0)]]]

EndService(d) ==
  [d EXCEPT !.state = "SI", !.active = NoChannel, !.writeHalf = FALSE,
            !.ch = [c \in Channel |->
                      [@[c] EXCEPT !.request = @ /\ c # d.active
                                                 /\ ~(d.m2m /\ c = 0)]]]

NoStrobes(p) == [p EXCEPT !.memr = FALSE, !.memw = FALSE, !.ior = FALSE,
                          !.iow = FALSE]

Released(p, c) == [p EXCEPT !.dack = @ \ {c}, !.hrq = FALSE, !.aen = FALSE]

\* S4 of the read half of a copy: the byte is kept, channel 1 writes it.
S4Read(data) ==
  LET c == dma.ch[dma.active] IN
  /\ dma.state = "S4" /\ dma.m2m /\ ~dma.writeHalf
  /\ dma' = [dma EXCEPT
       !.temp = data, !.active = 1, !.writeHalf = TRUE, !.state = "M2M_S1",
       !.ch[dma.active].addr = IF dma.hold THEN c.base
                               ELSE Step(@, c.mode.dec)]
  /\ pins' = NoStrobes([pins EXCEPT !.eop = FALSE])

\* S4 of the write half: the next byte, or the end.
S4Write ==
  LET c == dma.ch[dma.active]
      counted == [dma EXCEPT !.ch[dma.active] = Counted(c)]
      tc == c.count = 0
      after == NoStrobes([pins EXCEPT !.eop = tc])
  IN
  /\ dma.state = "S4" /\ dma.writeHalf
  /\ dma' = IF tc THEN EndService(counted)
            ELSE [counted EXCEPT !.writeHalf = FALSE, !.active = 0,
                                 !.state = "S1"]
  /\ pins' = IF tc THEN Released(after, dma.active) ELSE after

\* When a device transfer gives the bus back.
Releases(c, drq) ==
  CASE c.mode.service = "single" -> TRUE
    [] c.mode.service = "demand" -> c.count = 0 \/ dma.active \notin drq
    [] OTHER -> c.count = 0

\* S4 of a device transfer.  The upper address byte is latched again only
\* when it changed.
S4Device(drq) ==
  LET c == dma.ch[dma.active]
      next == Counted(c)
      counted == [dma EXCEPT !.ch[dma.active] = next]
      after == NoStrobes([pins EXCEPT !.eop = c.count = 0])
  IN
  /\ dma.state = "S4" /\ ~dma.m2m /\ ~dma.writeHalf
  /\ \/ /\ Releases(c, drq)
        /\ dma' = EndService(counted)
        /\ pins' = Released(after, dma.active)
     \/ /\ ~Releases(c, drq)
        /\ dma' = [counted EXCEPT !.state = IF High(next.addr) = dma.upper
                                            THEN "S2" ELSE "S1"]
        /\ pins' = IF High(next.addr) = dma.upper
                   THEN [after EXCEPT !.addr = next.addr] ELSE after

\* Channel 1 writes the byte kept.
CopyStep ==
  LET addr == dma.ch[1].addr
      quiet == [pins EXCEPT !.eop = FALSE]
  IN
  \/ /\ dma.state = "M2M_S1"
     /\ dma' = [dma EXCEPT !.state = "M2M_S2", !.upper = High(addr)]
     /\ pins' = [quiet EXCEPT !.addr = addr]
  \/ /\ dma.state = "M2M_S2"
     /\ dma' = [dma EXCEPT !.state = IF dma.compressed THEN "M2M_S4"
                                     ELSE "M2M_S3"]
     /\ pins' = [quiet EXCEPT !.memw = TRUE]
  \/ /\ dma.state = "M2M_S3"
     /\ dma' = [dma EXCEPT !.state = "M2M_S4"]
     /\ pins' = quiet
  \/ /\ dma.state = "M2M_S4"
     /\ dma' = [dma EXCEPT !.state = "S4"]
     /\ pins' = [quiet EXCEPT !.memw = FALSE]

\* A verify counts and acknowledges; it takes neither AEN nor the strobes.
\* Its states are not is_dma_active(), so the next on_cycle() drives every
\* ~DACK High again before V_S2 can hold it.
VerifyStep ==
  LET a == dma.active
      c == dma.ch[a]
      quiet == [pins EXCEPT !.eop = FALSE]
      release == c.mode.service = "single" \/ c.count = 0
  IN
  \/ /\ dma.state = "BusRequested" /\ pins.hlda /\ c.mode.kind = "verify"
     /\ dma' = [dma EXCEPT !.state = "V_S1"]
     /\ pins' = quiet
  \/ /\ dma.state = "V_S1"
     /\ dma' = [dma EXCEPT !.state = "V_S2"]
     /\ pins' = [quiet EXCEPT !.dack = IF dma.m2m THEN {} ELSE {a}]
  \/ /\ dma.state = "V_S2"
     /\ dma' = [dma EXCEPT !.state = "V_S3"]
     /\ pins' = [quiet EXCEPT !.dack = {}]
  \/ /\ dma.state = "V_S3"
     /\ dma' = [dma EXCEPT !.state = "V_S4"]
     /\ pins' = quiet
  \/ /\ dma.state = "V_S4"
     /\ dma' = [dma EXCEPT !.ch[a] = Counted(c),
                           !.state = IF release THEN "SI" ELSE "V_S1",
                           !.active = IF release THEN NoChannel ELSE a]
     /\ pins' = [pins EXCEPT !.eop = c.count = 0, !.hrq = ~release]

\* BusRequested waits for HLDA.
AwaitGrant ==
  /\ dma.state = "BusRequested" /\ ~pins.hlda
  /\ pins' = [pins EXCEPT !.eop = FALSE]
  /\ UNCHANGED dma

\* One cycle without a register access, from the requests, READY and the
\* byte on the data bus.
DmaCycle(drq, ready, data) ==
  \/ Idle
  \/ Request(drq)
  \/ AwaitGrant
  \/ S1
  \/ S2(ready)
  \/ S3(ready)
  \/ S4Read(data)
  \/ S4Write
  \/ S4Device(drq)
  \/ CopyStep
  \/ VerifyStep

\* HOLDA follows HRQ: modelled in BusArbitration, here only the handshake.
Grant == /\ pins.hlda # pins.hrq
         /\ pins' = [pins EXCEPT !.hlda = pins.hrq]
         /\ UNCHANGED dma
=============================================================================
