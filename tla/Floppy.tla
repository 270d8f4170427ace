------------------------------ MODULE Floppy ------------------------------
(***************************************************************************)
(* The floppy disk controller (isa/isa_fdc.cpp): the digital output        *)
(* register, the FIFO that means command, data or result by phase, the     *)
(* commands and the DMA callbacks, as operators from the controller's      *)
(* record to its next one.  A disk is a function from byte offsets to      *)
(* data; byte offsets are 32-bit numbers in the code and wrap.             *)
(*                                                                         *)
(* A handler that talks to the bus leaves its wish in the field out: the   *)
(* level it gives IRQ6 and the direction of the request it raises.  Module *)
(* ISABus carries it out and clears it.                                    *)
(***************************************************************************)
EXTENDS Integers

CONSTANTS
  SectorSize,   \* bytes of a sector of a medium, 512 in the code
  LongSize,     \* bytes of a sector of any other size code
  SectorsPerTrack, Heads,
  DiskSize,     \* bytes of an image
  OffsetMod,    \* values of a byte offset, 2^32 in the code
  ProtCyl,      \* the cylinder with the misformatted sector, 4 in the code
  Protected,    \* drives whose image carries the protection's label
  Zero, Gap     \* data: what lies past an image, format gap filler

ASSUME FloppyAssumption ==
  /\ {SectorSize, LongSize, SectorsPerTrack, Heads} \subseteq Nat \ {0}
  /\ DiskSize \in Nat /\ OffsetMod \in Nat /\ DiskSize < OffsetMod

VARIABLES
  fdc,     \* the controller
  disk     \* the image of each drive

Drives == 0..1

\* Command codes.
SPECIFY == 3
WRITE == 5
READ == 6
RECALIBRATE == 7
SENSE == 8
READID == 10
FORMAT == 13
SEEK == 15

\* What is left of a handler's calls to the bus.
Quiet == [irq |-> "keep", drq |-> "none"]
Raise(f) == IF f.irqOn THEN [Quiet EXCEPT !.irq = "raise"] ELSE Quiet

NoResult == [st |-> "none", drive |-> 0, cyl |-> 0, head |-> 0, sector |-> 0]

\* on_power_on()
FloppyInit(images) ==
  /\ disk = images
  /\ fdc = [irqOn |-> FALSE, run |-> FALSE, unit |-> 0, drive |-> 0,
            phase |-> "Idle", buf |-> [i \in 0..8 |-> 0], len |-> 0,
            expected |-> 0, result |-> NoResult, left |-> 0,
            offset |-> 0, ptr |-> 0, size |-> SectorSize, pio |-> FALSE,
            sector |-> 1, eot |-> 0, format |-> FALSE, fields |-> 0,
            fill |-> Zero, prot |-> FALSE, pcn |-> [d \in 0..3 |-> 0],
            senses |-> 0, seek |-> FALSE, seekDrive |-> 0, out |-> Quiet]

\* read_msr(): who moves the next byte of the data port.
MainStatus ==
  CASE fdc.phase \in {"Idle", "Command"} -> "toFdc"
    [] fdc.phase = "Execution" -> IF fdc.pio THEN "data" ELSE "busy"
    [] OTHER -> "toHost"

(***************************************************************************)
(* Geometry.                                                               *)
(***************************************************************************)
\* chs_to_offset(): sectors count from 1, so sector 0 of the first track
\* wraps to the top of the 32-bit range.
Offset(cyl, head, sector) ==
  (((cyl * Heads + head) * SectorsPerTrack + sector - 1) * SectorSize)
    % OffsetMod

\* The check against the end of the image; the sum wraps.
Fits(offset, size) == (offset + size) % OffsetMod <= DiskSize

\* active(): only the low bit of the drive number selects an image.
Media(f) == f.drive % 2

At(f) == (f.offset + f.ptr) % OffsetMod
InImage(f) == At(f) < DiskSize
ImageByte(f) == IF InImage(f) THEN disk[Media(f)][At(f)] ELSE Zero

\* The byte a read hands out; past a sector of the medium the protected
\* booter's oversized read finds gap filler.
ReadByte(f) == IF f.prot /\ (f.ptr >= SectorSize \/ ~InImage(f)) THEN Gap
               ELSE ImageByte(f)

\* A byte written into the image, whichever command is executing.
Stored(f, byte) ==
  IF InImage(f) THEN [disk EXCEPT ![Media(f)][At(f)] = byte]
  ELSE disk

(***************************************************************************)
(* Results and sectors.                                                    *)
(***************************************************************************)
Result(f, st, cyl, head, sector) ==
  [f EXCEPT !.result = [st |-> st, drive |-> f.drive, cyl |-> cyl,
                        head |-> head, sector |-> sector],
            !.left = 7, !.phase = "Result", !.out = Raise(f)]

\* build_result_ok() and build_result_error(): R is the sector after the
\* last one read, or the one asked for.
\* Mutant of ResultError: the error comes without an interrupt.
ResultErrorSilent(f) ==
  [Result(f, "noData", f.buf[2], f.buf[3], f.buf[4]) EXCEPT !.out = Quiet]

ResultOk(f)    == Result(f, "ok", f.buf[2], f.buf[3], f.sector)
ResultError(f) == Result(f, "noData", f.buf[2], f.buf[3], f.buf[4])

\* advance_sector(): on to the track's next sector, before the last one the
\* command names.  The code answers whether that sector lies in the image.
Advance(f) ==
  IF f.sector >= f.eot THEN f
  ELSE [f EXCEPT !.sector = @ + 1,
                 !.offset = Offset(f.buf[2], f.buf[3], f.sector + 1)]

Advanced(f) == f.sector < f.eot /\ Fits(Advance(f).offset, f.size)

(***************************************************************************)
(* Commands, by their bytes:                                               *)
(*   READ, WRITE: code, drive, cyl, head, sector, n, eot, gpl, dtl         *)
(*   FORMAT: code, drive, n, sectors, gpl, fill                            *)
(* Head bits in the drive byte are left out: they are 0.                   *)
(***************************************************************************)
Expected(code) ==
  CASE code \in {READ, WRITE} -> 9
    [] code = FORMAT -> 6
    [] code \in {SPECIFY, SEEK} -> 3
    [] code \in {RECALIBRATE, READID} -> 2
    [] OTHER -> 1

SizeOf(n) == IF n = 2 THEN SectorSize ELSE LongSize

\* execute_read_data() and execute_write_data().  Images have sectors of
\* size code 2; a protected one answers the oversized read of its bad
\* sector, and the error comes after the data.
Execute(f) ==
  LET off == Offset(f.buf[2], f.buf[3], f.buf[4])
      read == f.buf[0] = READ
      prot == /\ read /\ f.buf[5] # 2 /\ Media(f) \in Protected
              /\ <<f.buf[2], f.buf[3], f.buf[4]>> = <<ProtCyl, 0, 1>>
      g == [f EXCEPT !.offset = off, !.ptr = 0, !.sector = f.buf[4],
                     !.eot = f.buf[6], !.size = SizeOf(f.buf[5]),
                     !.prot = prot, !.format = @ /\ read]
  IN IF ~prot /\ (f.buf[5] # 2 \/ ~Fits(off, SectorSize)) THEN ResultError(g)
     ELSE [g EXCEPT !.phase = "Execution", !.pio = ~f.irqOn,
                    !.out.drq = CASE ~f.irqOn -> @
                                     [] f.irqOn /\ read -> "read"
                                     [] OTHER -> "write"]

\* execute_format_track(): the current cylinder, always by DMA.
FormatTrack(f) ==
  [f EXCEPT !.format = TRUE, !.fields = 0, !.fill = f.buf[5],
            !.buf = [@ EXCEPT ![2] = f.pcn[f.drive], ![3] = 0,
                              ![5] = f.buf[2]],
            !.size = SizeOf(f.buf[2]), !.sector = f.buf[3],
            !.eot = f.buf[3], !.ptr = 0,
            !.phase = "Execution", !.pio = FALSE, !.out.drq = "write"]

\* SENSE INTERRUPT STATUS: a finished seek, then the four drives a reset
\* polls, then the drive selected.  Its result is two bytes.
Sense(f) ==
  LET drive == IF f.seek THEN f.seekDrive
               ELSE IF f.senses > 0 THEN 4 - f.senses ELSE f.unit
      st == IF ~f.seek /\ f.senses > 0 THEN "reset" ELSE "seekEnd"
  IN [f EXCEPT !.result = [NoResult EXCEPT !.st = st, !.drive = drive,
                                           !.cyl = f.pcn[drive]],
               !.left = 2, !.phase = "Result", !.seek = FALSE,
               !.senses = IF ~f.seek /\ @ > 0 THEN @ - 1 ELSE @]

\* RECALIBRATE and SEEK end at once.
SeekTo(f, cyl) ==
  [f EXCEPT !.pcn[f.drive] = cyl, !.seek = TRUE, !.seekDrive = f.drive,
            !.phase = "Idle", !.len = 0, !.out = Raise(f)]

\* start_command(): any command with a drive byte selects the drive.
StartCommand(f) ==
  LET code == f.buf[0]
      g == IF f.expected >= 2 THEN [f EXCEPT !.drive = f.buf[1]] ELSE f
  IN CASE code \in {READ, WRITE} -> Execute(g)
       [] code = FORMAT -> FormatTrack(g)
       [] code = SENSE -> Sense(g)
       [] code = RECALIBRATE -> SeekTo(g, 0)
       [] code = SEEK -> SeekTo(g, g.buf[2])
       [] code = READID -> Result(g, "ok", g.pcn[g.drive], 0, 1)
       [] OTHER -> [g EXCEPT !.phase = "Idle", !.len = 0]

(***************************************************************************)
(* Ports.                                                                  *)
(***************************************************************************)
\* Digital output register: leaving reset polls the four drives, being in
\* reset ends the command and lowers IRQ6.  The request on channel 2, the
\* format flag and the protection flag are not touched.
Dor(f, irqOn, run, unit) ==
  LET g == [f EXCEPT !.irqOn = irqOn, !.run = run, !.unit = unit,
                     !.drive = unit]
      idle == [g EXCEPT !.phase = "Idle", !.len = 0]
  IN CASE ~f.run /\ run -> [idle EXCEPT !.senses = 4, !.out = Raise(g)]
       [] ~run -> [idle EXCEPT !.out.irq = "lower"]
       [] OTHER -> g

\* The controller after a programmed data byte has moved: a protected read
\* ends in its error, any other goes on with the next sector.
PioMoved(f, prot) ==
  LET g == [f EXCEPT !.ptr = @ + 1] IN
  IF g.ptr < f.size THEN g
  ELSE IF prot THEN ResultError([g EXCEPT !.prot = FALSE])
  ELSE IF Advanced(f) THEN [Advance(f) EXCEPT !.ptr = 0]
  ELSE ResultOk(Advance(g))

\* A byte of a command.  In the result phase it drops the result; during a
\* DMA transfer it is ignored.
Command(f, byte) ==
  LET first == f.phase # "Command"
      at == IF first THEN 0 ELSE f.len
      g == [f EXCEPT !.buf[at] = byte, !.len = at + 1,
                     !.expected = IF first THEN Expected(byte) ELSE @,
                     !.phase = "Command", !.left = 0]
  IN IF f.phase = "Execution" THEN f
     ELSE IF g.len >= g.expected THEN StartCommand(g) ELSE g

\* A result byte; the first one lowers IRQ6.
ResultMoved(f) ==
  [f EXCEPT !.left = @ - 1, !.phase = IF f.left = 1 THEN "Idle" ELSE @,
            !.out.irq = IF f.left = (IF f.result.st \in {"ok", "noData"}
                                     THEN 7 ELSE 2)
                        THEN "lower" ELSE @]

(***************************************************************************)
(* DMA callbacks, whatever the phase.                                      *)
(***************************************************************************)
\* on_dma_read() and on_dma_write() after a data byte: on to the next
\* sector at a boundary, whether or not that sector exists.
\* Mutant of DmaMoved: the pointer is not reset at a sector boundary.
DmaMovedRunOn(f) ==
  LET g == [f EXCEPT !.ptr = @ + 1] IN
  IF g.ptr < f.size \/ f.sector >= f.eot THEN g
  ELSE [Advance(f) EXCEPT !.ptr = f.ptr + 1]

DmaMoved(f) ==
  LET g == [f EXCEPT !.ptr = @ + 1] IN
  IF g.ptr < f.size \/ f.sector >= f.eot THEN g
  ELSE [Advance(f) EXCEPT !.ptr = 0]

\* on_dma_read(): a protected read does not leave its sector.
DmaServed(f) == IF f.prot THEN [f EXCEPT !.ptr = @ + 1] ELSE DmaMoved(f)

\* on_dma_write(): four address bytes stand for a sector in a format.
DmaStored(f) ==
  IF f.format THEN [f EXCEPT !.fields = @ + 1] ELSE DmaMoved(f)

Filled(f, sector) ==
  LET off == Offset(f.buf[2], 0, sector)
      size == SizeOf(f.buf[5])
  IN IF ~Fits(off, size) THEN disk
     ELSE [disk EXCEPT ![Media(f)] =
             [o \in DOMAIN @ |-> IF o \in off .. off + size - 1
                                 THEN f.fill ELSE @[o]]]

DiskStored(f, byte) ==
  LET fields == f.fields + 1 IN
  CASE ~f.format -> Stored(f, byte)
    [] f.format /\ fields % 4 = 0 -> Filled(f, fields \div 4)
    [] OTHER -> disk

\* on_dma_complete()
\* Mutant of DmaCompleted: the terminal count ends a transfer only in the
\* execution phase of a command that was not a format.
DmaCompletedNoFormat(f) ==
  IF f.format THEN [f EXCEPT !.format = FALSE] ELSE
    IF f.prot THEN ResultError([f EXCEPT !.prot = FALSE]) ELSE ResultOk(f)

DmaCompleted(f) ==
  LET g == [f EXCEPT !.format = FALSE, !.prot = FALSE] IN
  IF f.prot THEN ResultError(g) ELSE ResultOk(g)
=============================================================================
