---------------------------- MODULE FloppyProofs ----------------------------
(***************************************************************************)
(* The floppy controller and the bus agree on who transfers, and the DMA   *)
(* controller keeps a service on its channel: for every size of registers, *)
(* disks and sectors, any number of programs and of resets.                *)
(*                                                                         *)
(* Two invariants.  DmaInv says where the memory-to-memory write half may  *)
(* be pending: in the states of a copy, while HLDA is held, so no register *)
(* access can take the command bit away under it.  BusInv says that the    *)
(* active card and the controller's phase change together, and what of the *)
(* guest's programs that rests on: a driver resets the controller before   *)
(* it asks for anything, and takes back only a request of its own.         *)
(***************************************************************************)
EXTENDS FloppySystem, SequenceTheorems, TLAPS

(***************************************************************************)
(* The DMA controller.                                                     *)
(***************************************************************************)
DmaFields == {"ch", "m2m", "hold", "compressed", "disabled", "high", "state",
              "active", "writeHalf", "temp", "upper"}
PinFields == {"hrq", "hlda", "aen", "eop", "dack", "memr", "memw", "ior", "iow", "addr"}

DmaShape(d) == d = [x \in DmaFields |-> d[x]]
PinShape(p) == p = [x \in PinFields |-> p[x]]

CopyStates == {"M2M_S1", "M2M_S2", "M2M_S3", "M2M_S4", "S4"}

\* A service has its channel from the request to the release, and the bus
\* from HLDA on.
ServiceInv ==
  /\ DmaShape(dma) /\ PinShape(pins)
  /\ dma.state = "SI" <=> dma.active = NoChannel
  /\ dma.active \in Channel \cup {NoChannel}
  /\ dma.state # "SI" => pins.hrq
  /\ dma.state \notin {"SI", "BusRequested"} => pins.hlda

\* The write half of a copy is pending in the states of a copy only.
HalfInv ==
  "resetInCopy" \notin mishap /\ dma.writeHalf => dma.m2m /\ dma.state \in CopyStates

DmaInv == ServiceInv /\ HalfInv

LEMMA InitDmaInv == Init => DmaInv
  BY DEF Init, DmaInit, DmaInv, ServiceInv, HalfInv, DmaShape, DmaFields, PinShape,
         PinFields, NoChannel, Channel

\* A register access leaves the service as it is; only the command register
\* has the bit of a copy.
Untouched ==
  /\ DmaShape(dma') /\ UNCHANGED pins
  /\ dma'.state = dma.state /\ dma'.active = dma.active
  /\ dma'.writeHalf = dma.writeHalf

LEMMA RegistersKeep ==
  ASSUME DmaShape(dma), NEW o, Access(o)
  PROVE  Untouched \/ DmaReset(Zero)
<1> USE DEF DmaShape, DmaFields, Untouched
<1>1. CASE ClearFlipFlop \/ WriteMode(o.arg.ch, o.arg.mode) \/ WriteMask(o.arg, FALSE)
  BY <1>1 DEF ClearFlipFlop, WriteMode, WriteMask
<1>2. CASE WriteAddr(o.arg.ch, o.arg.byte) \/ WriteCount(o.arg.ch, o.arg.byte)
  BY <1>2 DEF WriteAddr, WriteCount
<1>3. CASE WriteCommand(o.arg.m2m, o.arg.hold, o.arg.compressed, o.arg.disabled)
  BY <1>3 DEF WriteCommand
<1>4. CASE WriteMasks(o.arg) \/ ReadStatus
  BY <1>4 DEF WriteMasks, ReadStatus
<1>5. CASE ReadCount(o.arg) \/ WriteRequest(o.arg, TRUE)
  BY <1>5 DEF ReadCount, WriteRequest
<1>6. CASE UNCHANGED dmaVars
  BY <1>6 DEF dmaVars
<1> QED
  BY <1>1, <1>2, <1>3, <1>4, <1>5, <1>6 DEF Access

LEMMA ResetKeeps ==
  ASSUME DmaInv, NEW zero, DmaReset(zero)
  PROVE  ServiceInv' /\ (dma.writeHalf <=> dma'.writeHalf)
BY DEF DmaInv, ServiceInv, DmaReset, DmaShape, DmaFields, PinShape, PinFields, NoChannel

LEMMA GuestKeepsDma ==
  ASSUME DmaInv, GuestStep
  PROVE  DmaInv'
<1>1. OwnsBus /\ Access(Next1) /\ ("resetInCopy" \in mishap => "resetInCopy" \in mishap')
  BY DEF GuestStep
<1>2. "resetInCopy" \notin mishap' => ~dma.writeHalf
  BY <1>1 DEF OwnsBus, DmaInv, ServiceInv, HalfInv, CopyStates
<1>3. CASE Untouched
  BY <1>2, <1>3 DEF Untouched, DmaInv, ServiceInv, HalfInv
<1>4. CASE DmaReset(Zero)
  BY <1>2, <1>4, ResetKeeps DEF HalfInv, DmaInv
<1> QED
  BY <1>1, <1>3, <1>4, RegistersKeep DEF DmaInv, ServiceInv

LEMMA MachineResetKeepsDma ==
  ASSUME DmaInv, MachineReset
  PROVE  DmaInv'
<1>1. DmaReset(Zero) /\ ("resetInCopy" \notin mishap' => ~dma.writeHalf)
  BY DEF MachineReset
<1> QED
  BY <1>1, ResetKeeps DEF DmaInv, HalfInv

LEMMA EndsService ==
  ASSUME NEW d, DmaShape(d)
  PROVE  /\ DmaShape(EndService(d))
         /\ EndService(d).state = "SI" /\ EndService(d).active = NoChannel
         /\ EndService(d).writeHalf = FALSE /\ EndService(d).m2m = d.m2m
BY DEF EndService, DmaShape, DmaFields

LEMMA EndsStrobes ==
  ASSUME NEW p, PinShape(p), NEW c
  PROVE  /\ PinShape(NoStrobes(p)) /\ NoStrobes(p).hlda = p.hlda
         /\ NoStrobes(p).hrq = p.hrq
         /\ PinShape(Released(p, c)) /\ Released(p, c).hlda = p.hlda
         /\ Released(p, c).hrq = FALSE
BY DEF NoStrobes, Released, PinShape, PinFields

LEMMA EopKeeps ==
  ASSUME NEW p, PinShape(p), NEW e
  PROVE  LET q == NoStrobes([p EXCEPT !.eop = e])
         IN PinShape(q) /\ q.hlda = p.hlda /\ q.hrq = p.hrq
BY DEF NoStrobes, PinShape, PinFields

\* The fields of the invariants after a cycle.
Serves(state, active, half, hrq) ==
  /\ DmaShape(dma') /\ dma'.m2m = dma.m2m
  /\ dma'.state = state /\ dma'.active = active /\ dma'.writeHalf = half
  /\ PinShape(pins') /\ pins'.hlda = pins.hlda /\ pins'.hrq = hrq

HalfInCopy == dma.writeHalf => dma.m2m /\ dma.state \in CopyStates

\* A cycle keeps the service, and changes the channel only at its ends or in
\* a copy.
Well ==
  /\ ServiceInv'
  /\ HalfInCopy => HalfInCopy'
  /\ dma'.active # dma.active =>
       NoChannel \in {dma.active, dma'.active} \/ dma.m2m \/ dma.writeHalf

LEMMA EndServes ==
  ASSUME NEW d, DmaShape(d), d.m2m = dma.m2m, dma' = EndService(d),
         NEW p, PinShape(p), p.hlda = pins.hlda, NEW c, pins' = Released(p, c)
  PROVE  Serves("SI", NoChannel, FALSE, FALSE)
<1>1. /\ DmaShape(dma') /\ dma'.state = "SI" /\ dma'.active = NoChannel
      /\ dma'.writeHalf = FALSE /\ dma'.m2m = dma.m2m
  BY EndsService
<1>2. PinShape(pins') /\ pins'.hlda = pins.hlda /\ pins'.hrq = FALSE
  BY EndsStrobes
<1> QED
  BY <1>1, <1>2 DEF Serves

LEMMA ServesWell ==
  ASSUME ServiceInv, NEW s, NEW c, NEW h, NEW r, Serves(s, c, h, r),
         s = "SI" <=> c = NoChannel, c \in Channel \cup {NoChannel},
         s # "SI" => r, s \notin {"SI", "BusRequested"} => pins.hlda,
         HalfInCopy /\ h => dma.m2m /\ s \in CopyStates,
         c # dma.active => NoChannel \in {dma.active, c} \/ dma.m2m \/ dma.writeHalf
  PROVE  Well
BY DEF Serves, ServiceInv, HalfInCopy, Well

LEMMA IdleServes ==
  ASSUME ServiceInv, NEW drq, Idle \/ AwaitGrant \/ Request(drq)
  PROVE  Well
<1> USE DEF ServiceInv
<1>1. CASE Idle \/ AwaitGrant
  <2>1. Serves(dma.state, dma.active, dma.writeHalf, pins.hrq)
    BY <1>1 DEF Idle, AwaitGrant, PinShape, PinFields, Serves
  <2> QED
    BY <2>1, ServesWell DEF HalfInCopy
<1>2. CASE Request(drq)
  <2>1. PICK c \in Channel : dma' = [dma EXCEPT !.active = c, !.state = "BusRequested"]
    BY <1>2 DEF Request, Requested
  <2>2. Serves("BusRequested", c, dma.writeHalf, TRUE) /\ dma.state = "SI"
    BY <1>2, <2>1 DEF Request, DmaShape, DmaFields, PinShape, PinFields, Serves
  <2>3. c # NoChannel
    BY DEF Channel, NoChannel
  <2> QED
    BY <2>2, <2>3, ServesWell DEF HalfInCopy, CopyStates
<1> QED
  BY <1>1, <1>2

LEMMA TransferServes ==
  ASSUME ServiceInv, NEW ready, S1 \/ S2(ready) \/ S3(ready)
  PROVE  Well
<1> USE DEF ServiceInv
<1>1. /\ dma.state \in {"S1", "S2", "S3", "BusRequested"} /\ pins.hlda /\ pins.hrq
      /\ dma.active # NoChannel
  BY DEF S1, S2, S3
<1>2. PICK s \in {"S2", "S3", "S4"} : Serves(s, dma.active, dma.writeHalf, pins.hrq)
  <2>1. PinShape(pins') /\ pins'.hlda = pins.hlda /\ pins'.hrq = pins.hrq
    BY DEF S1, S2, S3, PinShape, PinFields
  <2>2. \E s \in {"S2", "S3", "S4"} : dma' = [dma EXCEPT !.state = s]
                                      \/ dma' = [dma EXCEPT !.state = s, !.upper = dma'.upper]
    BY DEF S1, S2, S3, DmaShape, DmaFields
  <2> QED
    BY <2>1, <2>2 DEF Serves, DmaShape, DmaFields
<1> QED
  BY <1>1, <1>2, ServesWell DEF HalfInCopy, CopyStates

LEMMA CopyChannels == {0, 1} \subseteq Channel /\ NoChannel \notin {0, 1}
  BY DEF Channel, NoChannel

LEMMA CopyServes ==
  ASSUME ServiceInv, NEW data, S4Read(data) \/ CopyStep
  PROVE  Well
<1> USE DEF ServiceInv
<1>1. dma.state \in CopyStates /\ pins.hlda /\ pins.hrq /\ dma.active # NoChannel
  BY DEF S4Read, CopyStep, CopyStates
<1>2. CASE S4Read(data)
  <2>1. Serves("M2M_S1", 1, TRUE, pins.hrq) /\ dma.m2m
    BY <1>2 DEF S4Read, NoStrobes, Serves, DmaShape, DmaFields, PinShape, PinFields
  <2>2. "M2M_S1" # "SI" /\ "M2M_S1" \in CopyStates
    BY DEF CopyStates
  <2> QED
    BY <1>1, <2>1, <2>2, CopyChannels, ServesWell
<1>3. CASE CopyStep
  <2>1. PICK s \in CopyStates : Serves(s, dma.active, dma.writeHalf, pins.hrq)
    BY <1>3 DEF CopyStep, CopyStates, Serves, DmaShape, DmaFields, PinShape, PinFields
  <2> QED
    BY <1>1, <2>1, ServesWell DEF HalfInCopy, CopyStates
<1> QED
  BY <1>2, <1>3

LEMMA WriteServes ==
  ASSUME ServiceInv, S4Write
  PROVE  Well
<1> USE DEF ServiceInv
<1> DEFINE c == dma.ch[dma.active]
           counted == [dma EXCEPT !.ch[dma.active] = Counted(c)]
           after == NoStrobes([pins EXCEPT !.eop = c.count = 0])
<1>1. dma.state = "S4" /\ dma.writeHalf /\ pins.hlda /\ pins.hrq
  BY DEF S4Write
<1>2. DmaShape(counted) /\ counted.m2m = dma.m2m
  BY DEF DmaShape, DmaFields
<1>3. PinShape(after) /\ after.hlda = pins.hlda /\ after.hrq = pins.hrq
  BY EopKeeps
<1>4. CASE c.count = 0
  <2>1. dma' = EndService(counted) /\ pins' = Released(after, dma.active)
    BY <1>4 DEF S4Write
  <2> HIDE DEF counted, after
  <2>2. Serves("SI", NoChannel, FALSE, FALSE)
    BY <1>2, <1>3, <2>1, EndServes
  <2> QED
    BY <2>2, ServesWell
<1>5. CASE c.count # 0
  <2>1. /\ dma' = [counted EXCEPT !.writeHalf = FALSE, !.active = 0, !.state = "S1"]
        /\ pins' = after
    BY <1>5 DEF S4Write
  <2> HIDE DEF counted, after
  <2>2. Serves("S1", 0, FALSE, pins.hrq)
    BY <1>2, <1>3, <2>1 DEF Serves, DmaShape, DmaFields
  <2>3. /\ "S1" = "SI" <=> 0 = NoChannel
        /\ 0 \in Channel \cup {NoChannel}
        /\ HalfInCopy /\ FALSE => dma.m2m /\ "S1" \in CopyStates
    BY CopyChannels
  <2> QED
    BY <1>1, <2>2, <2>3, ServesWell
<1> QED
  BY <1>4, <1>5

LEMMA DeviceServes ==
  ASSUME ServiceInv, NEW drq, S4Device(drq)
  PROVE  Well
<1> USE DEF ServiceInv
<1> DEFINE c == dma.ch[dma.active]
           next == Counted(c)
           counted == [dma EXCEPT !.ch[dma.active] = next]
           after == NoStrobes([pins EXCEPT !.eop = c.count = 0])
<1>1. dma.state = "S4" /\ ~dma.writeHalf /\ pins.hlda /\ pins.hrq /\ dma.active # NoChannel
  BY DEF S4Device
<1>2. DmaShape(counted) /\ counted.m2m = dma.m2m /\ counted.active = dma.active
      /\ counted.writeHalf = dma.writeHalf
  BY DEF DmaShape, DmaFields
<1>3. PinShape(after) /\ after.hlda = pins.hlda /\ after.hrq = pins.hrq
  BY EopKeeps
<1>4. CASE Releases(c, drq)
  <2>1. dma' = EndService(counted) /\ pins' = Released(after, dma.active)
    BY <1>4 DEF S4Device
  <2> HIDE DEF counted, after
  <2>2. Serves("SI", NoChannel, FALSE, FALSE)
    BY <1>2, <1>3, <2>1, EndServes
  <2> QED
    BY <2>2, ServesWell
<1>5. CASE ~Releases(c, drq)
  <2>1. /\ \E s \in {"S1", "S2"} : dma' = [counted EXCEPT !.state = s]
        /\ pins' \in {after, [after EXCEPT !.addr = next.addr]}
    BY <1>5 DEF S4Device
  <2> HIDE DEF counted, after, next
  <2>2. PICK s \in {"S1", "S2"} : Serves(s, dma.active, dma.writeHalf, pins.hrq)
    <3>1. PICK s \in {"S1", "S2"} : dma' = [counted EXCEPT !.state = s]
      BY <2>1
    <3>2. PinShape(pins') /\ pins'.hlda = pins.hlda /\ pins'.hrq = pins.hrq
      BY <1>3, <2>1 DEF PinShape, PinFields
    <3> QED
      BY <1>2, <3>1, <3>2 DEF Serves, DmaShape, DmaFields
  <2> QED
    BY <1>1, <2>2, ServesWell
<1> QED
  BY <1>4, <1>5

LEMMA VerifyServes ==
  ASSUME ServiceInv, VerifyStep
  PROVE  Well
<1> USE DEF ServiceInv
<1> DEFINE c == dma.ch[dma.active]
           release == c.mode.service = "single" \/ c.count = 0
<1>1. /\ dma.state \in {"V_S1", "V_S2", "V_S3", "V_S4", "BusRequested"}
      /\ pins.hlda /\ pins.hrq /\ dma.active # NoChannel
  BY DEF VerifyStep
<1>2. CASE dma.state # "V_S4"
  <2>1. PICK s \in {"V_S1", "V_S2", "V_S3", "V_S4"} :
             Serves(s, dma.active, dma.writeHalf, pins.hrq)
    BY <1>2 DEF VerifyStep, Serves, DmaShape, DmaFields, PinShape, PinFields
  <2> QED
    BY <1>1, <2>1, ServesWell DEF HalfInCopy, CopyStates
<1>3. CASE dma.state = "V_S4"
  <2>1. Serves(IF release THEN "SI" ELSE "V_S1", IF release THEN NoChannel ELSE dma.active,
               dma.writeHalf, ~release)
    BY <1>3 DEF VerifyStep, Serves, DmaShape, DmaFields, PinShape, PinFields
  <2> HIDE DEF release
  <2>2. CASE release
    <3>1. Serves("SI", NoChannel, dma.writeHalf, FALSE)
      BY <2>1, <2>2
    <3> QED
      BY <1>3, <3>1, ServesWell DEF HalfInCopy, CopyStates
  <2>3. CASE ~release
    <3>1. Serves("V_S1", dma.active, dma.writeHalf, TRUE)
      BY <2>1, <2>3
    <3> QED
      BY <1>1, <1>3, <3>1, ServesWell DEF HalfInCopy, CopyStates
  <2> QED
    BY <2>2, <2>3
<1> QED
  BY <1>2, <1>3

LEMMA CycleServes ==
  ASSUME ServiceInv, NEW drq, NEW ready, NEW data, DmaCycle(drq, ready, data)
  PROVE  Well
BY IdleServes, TransferServes, CopyServes, WriteServes, DeviceServes, VerifyServes
   DEF DmaCycle

(***************************************************************************)
(* Every step of the system.                                               *)
(***************************************************************************)
\* A channel gives way to another one only in a copy.
DmaSteps ==
  dma'.active # dma.active =>
    NoChannel \in {dma.active, dma'.active} \/ dma.m2m \/ dma.writeHalf

LEMMA ClockKeepsDma ==
  ASSUME DmaInv, NEW ready, Clock(ready)
  PROVE  DmaInv' /\ DmaSteps
<1>1. DmaCycle(isa.drq, ready, Data(pins, isa.sd)) /\ mishap' = mishap
  BY DEF Clock, Cycle
<1>2. Well
  BY <1>1, CycleServes DEF DmaInv
<1> QED
  BY <1>1, <1>2 DEF Well, DmaInv, HalfInv, HalfInCopy, DmaSteps

LEMMA HandshakeKeepsDma ==
  ASSUME DmaInv, Handshake
  PROVE  DmaInv' /\ dma' = dma
<1>1. /\ dma' = dma /\ mishap' = mishap
      /\ pins.hlda # pins.hrq /\ pins' = [pins EXCEPT !.hlda = pins.hrq]
  BY DEF Handshake, Grant
<1>2. PinShape(pins') /\ pins'.hrq = pins.hrq /\ pins'.hlda = pins.hrq
  BY <1>1 DEF DmaInv, ServiceInv, PinShape, PinFields
<1> QED
  BY <1>1, <1>2 DEF DmaInv, ServiceInv, HalfInv

\* A step that leaves the DMA controller alone.
LEMMA OthersKeepDma ==
  ASSUME DmaInv, UNCHANGED dmaVars,
         "resetInCopy" \in mishap => "resetInCopy" \in mishap'
  PROVE  DmaInv' /\ dma' = dma
BY DEF DmaInv, ServiceInv, HalfInv, dmaVars

LEMMA StepKeepsDma ==
  ASSUME DmaInv, [Next]_vars
  PROVE  DmaInv' /\ DmaSteps
<1>1. CASE GuestStep
  <2>1. Untouched \/ DmaReset(Zero) \/ dma' = dma
    BY <1>1, RegistersKeep DEF GuestStep, DmaInv, ServiceInv
  <2> QED
    BY <1>1, <2>1, GuestKeepsDma DEF Untouched, DmaReset, DmaInv, ServiceInv,
       DmaShape, DmaFields, DmaSteps
<1>2. CASE MachineReset
  <2>1. dma'.active = NoChannel
    BY <1>2 DEF MachineReset, DmaReset, DmaInv, ServiceInv, DmaShape, DmaFields
  <2> QED
    BY <1>2, <2>1, MachineResetKeepsDma DEF DmaSteps
<1>3. ASSUME NEW ready \in BOOLEAN, Clock(ready)
      PROVE  DmaInv' /\ DmaSteps
  BY <1>3, ClockKeepsDma
<1>4. CASE Handshake
  BY <1>4, HandshakeKeepsDma DEF DmaSteps
<1>5. CASE Choose \/ GiveUp \/ UNCHANGED vars
  BY <1>5, OthersKeepDma DEF Choose, GiveUp, vars, dmaVars, DmaSteps
<1> QED
  BY <1>1, <1>2, <1>3, <1>4, <1>5 DEF Next

\* In every reachable state the write half of a copy is pending in a state
\* of the copy only, the controller holds a channel exactly while it is in
\* service, and HRQ and HLDA are held through it.
THEOREM DmaInvariant == Spec => []DmaInv
<1>1. DmaInv /\ [Next]_vars => DmaInv'
  BY StepKeepsDma
<1> QED
  BY InitDmaInv, <1>1, PTL DEF Spec

\* A service stays with its channel until the bus is released
\* (IC_8237A::on_clk_falling): without the memory-to-memory bit a channel
\* gives way to no other, unless a reset fell into the write half of a copy.
THEOREM OneChannel == Spec => OneChannelPerService
<1>1. DmaInv /\ DmaInv' /\ [Next]_vars =>
        [dma.active # dma'.active /\ ~dma.m2m /\ "resetInCopy" \notin mishap' =>
           NoChannel \in {dma.active, dma'.active}]_vars
  <2> SUFFICES ASSUME DmaInv, [Next]_vars, dma.active # dma'.active, ~dma.m2m,
                      "resetInCopy" \notin mishap'
               PROVE  NoChannel \in {dma.active, dma'.active}
    OBVIOUS
  <2>1. "resetInCopy" \notin mishap
    BY DEF Next, GuestStep, Choose, GiveUp, MachineReset, Clock, Handshake, vars
  <2>2. ~dma.writeHalf
    BY <2>1 DEF DmaInv, HalfInv
  <2> QED
    BY <2>2, StepKeepsDma DEF DmaSteps
<1> QED
  BY DmaInvariant, <1>1, PTL DEF Spec, OneChannelPerService

(***************************************************************************)
(* The guest's programs.                                                   *)
(***************************************************************************)
\* An access outside the opening of a driver's reset: it leaves the
\* controller running, and takes back no request.
TameOp(o) ==
  /\ o.op # "deassert"
  /\ o.op = "dor" => o.arg.run
  /\ o.op = "card" => o.arg \in {1, 3}

Tame(s) == \E S : s \in Seq(S) /\ \A o \in S : TameOp(o)

\* The opening of a driver's reset asks for nothing.
OpenOp(o) == o.op \in {"master", "masks", "lower", "command", "dor"}

Opening(s, n) ==
  \E S : s \in Seq(S) /\ Len(s) = n /\ \A o \in S : OpenOp(o)

\* The opening ends with access n, the one that lets the controller run.
Opens(s, n) ==
  \E S : /\ s \in Seq(S) /\ n \in 1 .. Len(s)
         /\ \A i \in 1..n : OpenOp(s[i])
         /\ s[n].op = "dor" /\ s[n].arg.run
         /\ \A i \in n + 1 .. Len(s) : TameOp(s[i])

LEMMA Joined ==
  ASSUME NEW S, NEW T, NEW s \in Seq(S), NEW t \in Seq(T)
  PROVE  /\ s \o t \in Seq(S \cup T) /\ Len(s \o t) = Len(s) + Len(t)
         /\ \A i \in 1 .. Len(s) + Len(t) :
              (s \o t)[i] = IF i <= Len(s) THEN s[i] ELSE t[i - Len(s)]
<1>1. s \in Seq(S \cup T) /\ t \in Seq(S \cup T)
  OBVIOUS
<1> QED
  BY <1>1, ConcatProperties

LEMMA TameJoined ==
  ASSUME NEW s, NEW t, Tame(s), Tame(t)
  PROVE  Tame(s \o t)
<1>1. PICK S : s \in Seq(S) /\ \A o \in S : TameOp(o)
  BY DEF Tame
<1>2. PICK T : t \in Seq(T) /\ \A o \in T : TameOp(o)
  BY DEF Tame
<1>3. s \o t \in Seq(S \cup T) /\ \A o \in S \cup T : TameOp(o)
  BY <1>1, <1>2, Joined
<1> QED
  BY <1>3 DEF Tame

LEMMA OpeningJoined ==
  ASSUME NEW m \in Nat, NEW n \in Nat, NEW k, k = m + n,
         NEW s, NEW t, Opening(s, m), Opening(t, n)
  PROVE  Opening(s \o t, k)
<1>1. PICK S : s \in Seq(S) /\ Len(s) = m /\ \A o \in S : OpenOp(o)
  BY DEF Opening
<1>2. PICK T : t \in Seq(T) /\ Len(t) = n /\ \A o \in T : OpenOp(o)
  BY DEF Opening
<1> DEFINE u == s \o t
<1>3. u \in Seq(S \cup T) /\ Len(u) = Len(s) + Len(t)
  <2>1. s \in Seq(S) /\ t \in Seq(T)
    BY <1>1, <1>2
  <2> QED
    BY <2>1, Joined
<1> HIDE DEF u
<1>4. Len(u) = k /\ \A o \in S \cup T : OpenOp(o)
  BY <1>1, <1>2, <1>3
<1> QED
  BY <1>3, <1>4 DEF Opening, u

LEMMA OpensAfter ==
  ASSUME NEW m \in Nat, NEW n \in Nat, NEW k \in Nat, k = m + n,
         NEW s, Opening(s, m), NEW t, Opens(t, n)
  PROVE  Opens(s \o t, k)
<1>1. PICK S : s \in Seq(S) /\ Len(s) = m /\ \A o \in S : OpenOp(o)
  BY DEF Opening
<1>2. PICK T : /\ t \in Seq(T) /\ n \in 1 .. Len(t)
               /\ \A i \in 1..n : OpenOp(t[i])
               /\ t[n].op = "dor" /\ t[n].arg.run
               /\ \A i \in n + 1 .. Len(t) : TameOp(t[i])
  BY DEF Opens
<1> DEFINE u == s \o t
           l == Len(t)
<1>3. /\ u \in Seq(S \cup T) /\ Len(u) = m + l
      /\ \A i \in 1 .. m + l : u[i] = IF i <= m THEN s[i] ELSE t[i - m]
  <2> HIDE DEF l
  <2>1. m \in Nat /\ Len(s) = m /\ Len(t) = l
    BY <1>1 DEF l
  <2>2. /\ u \in Seq(S \cup T) /\ Len(u) = Len(s) + Len(t)
        /\ \A i \in 1 .. Len(s) + Len(t) :
             u[i] = IF i <= Len(s) THEN s[i] ELSE t[i - Len(s)]
    <3>1. s \in Seq(S) /\ t \in Seq(T)
      BY <1>1, <1>2
    <3> QED
      BY <3>1, Joined
  <2> HIDE DEF u
  <2>3. Len(u) = m + l
    BY <2>1, <2>2
  <2>4. ASSUME NEW i \in 1 .. m + l
        PROVE  u[i] = IF i <= m THEN s[i] ELSE t[i - m]
    BY <2>1, <2>2
  <2> QED
    BY <2>2, <2>3, <2>4
<1> HIDE DEF u, l
<1>4. l \in Nat /\ \A i \in 1 .. m : s[i] \in S
  BY <1>1, <1>2 DEF l
<1>5. ASSUME NEW i \in 1..k  PROVE OpenOp(u[i])
  <2>1. CASE i <= m
    BY <1>1, <1>2, <1>3, <1>4, <2>1 DEF l
  <2>2. CASE i > m
    <3>1. i - m \in 1..n /\ u[i] = t[i - m]
      BY <1>2, <1>3, <1>4, <2>2 DEF l
    <3> QED
      BY <1>2, <3>1
  <2> QED
    BY <1>4, <2>1, <2>2
<1>6. k \in 1 .. Len(u) /\ u[k] = t[n]
  <2>1. k - m = n /\ k \in 1 .. m + l /\ ~(k <= m)
    BY <1>2, <1>4 DEF l
  <2> QED
    BY <1>3, <2>1
<1>7. ASSUME NEW i \in k + 1 .. Len(u)  PROVE TameOp(u[i])
  <2>1. i - m \in n + 1 .. l /\ u[i] = t[i - m]
    BY <1>2, <1>3, <1>4
  <2> QED
    BY <1>2, <2>1 DEF l
<1> QED
  BY <1>2, <1>3, <1>5, <1>6, <1>7 DEF Opens, u

LEMMA OpensBefore ==
  ASSUME NEW s, NEW n \in Nat, Opens(s, n), NEW t, Tame(t)
  PROVE  Opens(s \o t, n)
<1>1. PICK S : /\ s \in Seq(S) /\ n \in 1 .. Len(s)
               /\ \A i \in 1..n : OpenOp(s[i])
               /\ s[n].op = "dor" /\ s[n].arg.run
               /\ \A i \in n + 1 .. Len(s) : TameOp(s[i])
  BY DEF Opens
<1>2. PICK T : t \in Seq(T) /\ \A o \in T : TameOp(o)
  BY DEF Tame
<1> DEFINE u == s \o t
<1>3. /\ u \in Seq(S \cup T) /\ Len(u) = Len(s) + Len(t)
      /\ \A i \in 1 .. Len(s) + Len(t) :
           u[i] = IF i <= Len(s) THEN s[i] ELSE t[i - Len(s)]
  <2>1. s \in Seq(S) /\ t \in Seq(T)
    BY <1>1, <1>2
  <2> QED
    BY <2>1, Joined
<1>4. Len(s) \in Nat /\ Len(t) \in Nat /\ \A i \in 1 .. Len(t) : t[i] \in T
  BY <1>1, <1>2
<1> HIDE DEF u
<1>5. n \in 1 .. Len(u) /\ \A i \in 1..n : u[i] = s[i]
  BY <1>1, <1>3, <1>4
<1>6. \A i \in n + 1 .. Len(u) : TameOp(u[i])
  BY <1>1, <1>2, <1>3, <1>4
<1>7. (\A i \in 1..n : OpenOp(u[i])) /\ u[n].op = "dor" /\ u[n].arg.run
  BY <1>1, <1>5
<1>8. Opens(u, n)
  BY <1>3, <1>5, <1>6, <1>7 DEF Opens
<1> QED
  BY <1>8 DEF u

LEMMA OneOp ==
  ASSUME NEW name, NEW arg
  PROVE  /\ Op(name, arg) \in Seq({[op |-> name, arg |-> arg]})
         /\ Len(Op(name, arg)) = 1 /\ Op(name, arg)[1] = [op |-> name, arg |-> arg]
BY DEF Op

LEMMA OpTame ==
  ASSUME NEW name, NEW arg,
         name # "deassert", name = "dor" => arg.run, name = "card" => arg \in {1, 3}
  PROVE  Tame(Op(name, arg))
<1>1. TameOp([op |-> name, arg |-> arg])
  BY DEF TameOp
<1> DEFINE S == {[op |-> name, arg |-> arg]}
<1>2. Op(name, arg) \in Seq(S) /\ \A o \in S : TameOp(o)
  BY <1>1, OneOp
<1> QED
  BY <1>2 DEF Tame

LEMMA OpOpening ==
  ASSUME NEW name, NEW arg, name \in {"master", "masks", "lower", "command", "dor"}
  PROVE  Opening(Op(name, arg), 1)
<1>1. OpenOp([op |-> name, arg |-> arg])
  BY DEF OpenOp
<1> DEFINE S == {[op |-> name, arg |-> arg]}
<1>2. Op(name, arg) \in Seq(S) /\ Len(Op(name, arg)) = 1 /\ \A o \in S : OpenOp(o)
  BY <1>1, OneOp
<1> QED
  BY <1>2 DEF Opening

LEMMA ListTame ==
  ASSUME NEW n \in Nat, NEW s, s = [i \in 1..n |-> s[i]],
         \A i \in 1..n : TameOp(s[i])
  PROVE  Tame(s)
<1> DEFINE S == {s[i] : i \in 1..n}
<1>1. s \in Seq(S)
  <2>1. s \in [1..n -> S]
    OBVIOUS
  <2> HIDE DEF S
  <2> QED
    BY <2>1
<1>2. \A o \in S : TameOp(o)
  OBVIOUS
<1> QED
  BY <1>1, <1>2 DEF Tame

LEMMA EachTame ==
  ASSUME NEW n \in Nat, NEW args, DOMAIN args = 1..n,
         NEW name, name \notin {"deassert", "dor", "card"}
  PROVE  Tame(Each(name, args))
<1> DEFINE s == Each(name, args)
<1>1. s = [i \in 1..n |-> s[i]]
  BY DEF Each
<1>2. \A i \in 1..n : TameOp(s[i])
  BY DEF Each, TameOp
<1> HIDE DEF s
<1>3. Tame(s)
  BY <1>1, <1>2, ListTame
<1> QED
  BY <1>3 DEF s

LEMMA PairTame ==
  ASSUME NEW a, NEW b, NEW name, name \notin {"deassert", "dor", "card"}
  PROVE  Tame(Each(name, <<a, b>>))
<1>1. DOMAIN <<a, b>> = 1..2
  OBVIOUS
<1> QED
  BY <1>1, EachTame

\* The parts the programs are put together from.
LEMMA PartsTame ==
  /\ \A c, mode, addr, count : Tame(Channels(c, mode, addr, count))
  /\ \A code, drive, sector, n, eot : Tame(Chs(code, drive, sector, n, eot))
  /\ \A n \in Nat : Tame(Reads(n))
  /\ Tame(Result7) /\ Tame(SenseIrq) /\ Tame(ModeOn)
  /\ \A a, b, c, d : Tame(Bits(a, b, c, d))
<1>1. ASSUME NEW c, NEW mode, NEW addr, NEW count
      PROVE  Tame(Channels(c, mode, addr, count))
  <2>1. Tame(Op("clear", 0)) /\ Tame(Op("mode", [ch |-> c, mode |-> mode]))
        /\ Tame(Op("unmask", c))
    BY OpTame
  <2>2. \A a, b, name : name \in {"addr", "count"} => Tame(Each(name, <<a, b>>))
    BY PairTame
  <2> QED
    BY <2>1, <2>2, TameJoined DEF Channels
<1>2. ASSUME NEW code, NEW drive, NEW sector, NEW n, NEW eot
      PROVE  Tame(Chs(code, drive, sector, n, eot))
  <2>1. DOMAIN <<code, drive, 0, 0, sector, n, eot, 0, 0>> = 1..9
    OBVIOUS
  <2> QED
    BY <2>1, EachTame DEF Chs
<1>3. ASSUME NEW n \in Nat PROVE Tame(Reads(n))
  <2>1. \A i \in 1..n : TameOp(Reads(n)[i])
    BY DEF Reads, TameOp
  <2>2. Reads(n) = [i \in 1..n |-> Reads(n)[i]]
    BY DEF Reads
  <2> QED
    BY <2>1, <2>2, ListTame
<1>4. Tame(Op("wait", 6)) /\ Tame(Op("fifo", SENSE)) /\ Tame(ModeOn)
  BY OpTame DEF ModeOn
<1>5. Tame(Result7) /\ Tame(SenseIrq)
  BY <1>3, <1>4, TameJoined DEF Result7, SenseIrq
<1>6. \A a, b, c, d : Tame(Bits(a, b, c, d))
  BY OpTame DEF Bits
<1> QED
  BY <1>1, <1>2, <1>3, <1>4, <1>5, <1>6

LEMMA CopyTame == \A bits : Tame(bits) => Tame(Copy(bits))
<1>1. /\ Tame(Op("status", 0)) /\ Tame(Op("request", 0)) /\ Tame(Op("tc", 1))
      /\ Tame(AllOff)
  BY OpTame, PartsTame DEF AllOff
<1> QED
  BY <1>1, PartsTame, TameJoined DEF Copy

LEMMA ResetOpens == Opens(ResetFdc, 3)
<1> DEFINE off == Op("dor", [irq |-> TRUE, run |-> FALSE])
           down == Op("lower", 5) \o off
<1>1. Opening(Op("lower", 5), 1) /\ Opening(off, 1)
  BY OpOpening
<1>2. Opening(down, 2)
  BY <1>1, OpeningJoined
<1>3. Opens(ModeOn, 1)
  <2> DEFINE on == [op |-> "dor", arg |-> [irq |-> TRUE, run |-> TRUE]]
  <2>1. ModeOn \in Seq({on}) /\ Len(ModeOn) = 1 /\ ModeOn[1] = on
    BY OneOp DEF ModeOn
  <2>2. OpenOp(on) /\ on.op = "dor" /\ on.arg.run
    BY DEF OpenOp
  <2> HIDE DEF on
  <2> QED
    BY <2>1, <2>2 DEF Opens
<1> HIDE DEF down
<1>4. Opens(down \o ModeOn, 3)
  BY <1>2, <1>3, OpensAfter
<1>5. Tame(Op("wait", 6)) /\ Tame(SenseIrq) /\ Tame(Each("fifo", <<RECALIBRATE, 0>>))
  BY OpTame, PartsTame, PairTame
<1> QED
  BY <1>4, <1>5, OpensBefore DEF ResetFdc, down

\* The drivers' resets open with 5 and 4 accesses, and all the rest but the
\* cancelled request is tame.
LEMMA ProgramsTame ==
  /\ Opens(Programs["post"], 5) /\ Opens(Programs["retry"], 4)
  /\ \A p \in DOMAIN Programs \ (Resets \cup {"cancel"}) : Tame(Programs[p])
  /\ Len(Programs["cancel"]) = 2
  /\ Programs["cancel"][1] = [op |-> "card", arg |-> 1]
  /\ Programs["cancel"][2] = [op |-> "deassert", arg |-> 1]
<1>1. Opens(Op("master", 0) \o Op("masks", Channel) \o ResetFdc, 5)
  <2>1. Opening(Op("master", 0), 1) /\ Opening(Op("masks", Channel), 1)
    BY OpOpening
  <2>2. Opening(Op("master", 0) \o Op("masks", Channel), 2)
    BY <2>1, OpeningJoined
  <2> QED
    BY <2>2, ResetOpens, OpensAfter
<1>2. Opens(AllOff \o ResetFdc, 4)
  <2>1. Opening(AllOff, 1)
    BY OpOpening DEF AllOff, Bits
  <2> QED
    BY <2>1, ResetOpens, OpensAfter
<1>3. /\ Tame(Programs["read"]) /\ Tame(Programs["write"]) /\ Tame(Programs["edge"])
      /\ Tame(Programs["prot"]) /\ Tame(Programs["beyond"])
  <2>1. \A c, mode, addr, count, code, drive, sector, n, eot :
          Tame(Channels(c, mode, addr, count) \o Chs(code, drive, sector, n, eot)
               \o Result7)
    BY PartsTame, TameJoined
  <2> QED
    BY <2>1 DEF Programs
<1>4. Tame(Programs["format"])
  <2> DEFINE b == <<FORMAT, 0, 2, 2, 0, Fill>>
  <2>1. DOMAIN b = 1..6
    OBVIOUS
  <2> HIDE DEF b
  <2>2. Tame(Each("fifo", b))
    BY <2>1, EachTame
  <2>3. \A c, mode, addr, count : Tame(Channels(c, mode, addr, count) \o Each("fifo", b)
                                        \o Result7)
    BY <2>2, PartsTame, TameJoined
  <2> QED
    BY <2>3 DEF Programs, b
<1>5. Tame(Programs["pio"])
  <2>1. Tame(Op("dor", [irq |-> FALSE, run |-> TRUE])) /\ Tame(Each("data", <<0, 0>>))
    BY OpTame, PairTame
  <2>2. Tame(Chs(READ, 0, 2, 2, 2)) /\ Tame(Reads(7)) /\ Tame(ModeOn)
    BY PartsTame
  <2>3. Programs["pio"] = Op("dor", [irq |-> FALSE, run |-> TRUE]) \o Chs(READ, 0, 2, 2, 2)
                          \o Each("data", <<0, 0>>) \o Reads(7) \o ModeOn
    BY DEF Programs
  <2> QED
    BY <2>1, <2>2, <2>3, TameJoined
<1>6. Tame(Programs["copy"]) /\ Tame(Programs["fill"])
  <2>1. \A a, b, c, d : Tame(Copy(Bits(a, b, c, d)))
    BY PartsTame, CopyTame
  <2> QED
    BY <2>1 DEF Programs
<1>7. Tame(Programs["verify"]) /\ Tame(Programs["card"]) /\ Tame(Programs["async"])
  <2>1. /\ Tame(Op("cardIrq", 5)) /\ Tame(Op("card", 1)) /\ Tame(Op("card", 3))
        /\ Tame(Op("wait", 5)) /\ Tame(Op("lower", 5)) /\ Tame(Op("clear", 0))
        /\ Tame(Each("left", <<1, 1>>)) /\ Tame(AllOff)
    BY OpTame, PairTame, PartsTame DEF AllOff
  <2>2. \A a, b, c, d, e, f, g, h :
          Tame(Bits(a, b, c, d) \o Channels(e, f, g, h) \o Op("cardIrq", 5)
               \o Op("card", 3) \o AllOff \o Op("wait", 5) \o Op("lower", 5))
    BY <2>1, PartsTame, TameJoined
  <2>3. \A e, f, g, h :
          /\ Tame(Channels(e, f, g, h) \o Op("cardIrq", 5) \o Op("card", 1)
                  \o Op("wait", 5) \o Op("lower", 5) \o Op("clear", 0)
                  \o Each("left", <<1, 1>>))
          /\ Tame(Channels(e, f, g, h) \o Op("card", 1))
    BY <2>1, PartsTame, TameJoined
  <2> QED
    BY <2>2, <2>3 DEF Programs
<1>8. \A p \in DOMAIN Programs \ (Resets \cup {"cancel"}) : Tame(Programs[p])
  <2>1. DOMAIN Programs \ (Resets \cup {"cancel"}) =
          {"read", "write", "edge", "prot", "beyond", "format", "pio", "copy", "fill",
           "verify", "card", "async"}
    BY DEF Programs, Resets
  <2> QED
    BY <1>3, <1>4, <1>5, <1>6, <1>7, <2>1
<1>9. Programs["cancel"] = Op("card", 1) \o Op("deassert", 1)
  BY DEF Programs
<1>10. Programs["post"] = Op("master", 0) \o Op("masks", Channel) \o ResetFdc
      /\ Programs["retry"] = AllOff \o ResetFdc
  BY DEF Programs
<1>11. /\ Len(Op("card", 1) \o Op("deassert", 1)) = 2
      /\ (Op("card", 1) \o Op("deassert", 1))[1] = [op |-> "card", arg |-> 1]
      /\ (Op("card", 1) \o Op("deassert", 1))[2] = [op |-> "deassert", arg |-> 1]
  BY DEF Op
<1> QED
  BY <1>1, <1>2, <1>8, <1>9, <1>10, <1>11

(***************************************************************************)
(* The floppy controller.                                                  *)
(***************************************************************************)
FdcFields ==
  {"irqOn", "run", "unit", "drive", "phase", "buf", "len", "expected", "result",
   "left", "offset", "ptr", "size", "pio", "sector", "eot", "format", "fields",
   "fill", "prot", "pcn", "senses", "seek", "seekDrive", "out"}

FdcShape(f) == DOMAIN f = FdcFields

\* A transfer by DMA is in execution.
DmaPhase(f) == f.phase = "Execution" /\ ~f.pio

\* A handler enters the execution phase of a DMA transfer exactly when it
\* asks the bus for one, and leaves it for none.
Keeps(f, g) ==
  /\ FdcShape(g) /\ g.run = f.run
  /\ DmaPhase(g) <=> DmaPhase(f) \/ g.out.drq # "none"

LEMMA ResultDone ==
  ASSUME NEW f, FdcShape(f), NEW st, NEW cyl, NEW head, NEW sector
  PROVE  LET g == Result(f, st, cyl, head, sector)
         IN /\ FdcShape(g) /\ g.run = f.run
            /\ g.phase = "Result" /\ g.out.drq = "none"
BY DEF Result, FdcShape, FdcFields, Raise, Quiet

LEMMA ResultsDone ==
  ASSUME NEW f, FdcShape(f), NEW g, g = ResultOk(f) \/ g = ResultError(f)
  PROVE  /\ FdcShape(g) /\ g.run = f.run
         /\ g.phase = "Result" /\ g.out.drq = "none"
BY ResultDone DEF ResultOk, ResultError

LEMMA AdvanceKeeps ==
  ASSUME NEW f, FdcShape(f)
  PROVE  LET g == Advance(f)
         IN /\ FdcShape(g) /\ g.run = f.run /\ g.phase = f.phase /\ g.pio = f.pio
            /\ g.out = f.out
BY DEF Advance, FdcShape, FdcFields

\* A command that was given its last byte: f is in the command phase.
Asks(f, g) ==
  /\ FdcShape(g) /\ g.run = f.run
  /\ DmaPhase(g) <=> g.out.drq # "none"

LEMMA ExecuteAsks ==
  ASSUME NEW f, FdcShape(f), f.out = Quiet
  PROVE  Asks(f, Execute(f))
<1> DEFINE read == f.buf[0] = READ
           prot == /\ read /\ f.buf[5] # 2 /\ Media(f) \in Protected
                   /\ <<f.buf[2], f.buf[3], f.buf[4]>> = <<ProtCyl, 0, 1>>
           off == Offset(f.buf[2], f.buf[3], f.buf[4])
           g == [f EXCEPT !.offset = off, !.ptr = 0, !.sector = f.buf[4],
                          !.eot = f.buf[6], !.size = SizeOf(f.buf[5]),
                          !.prot = prot, !.format = @ /\ read]
           h == [g EXCEPT !.phase = "Execution", !.pio = ~f.irqOn,
                          !.out.drq = CASE ~f.irqOn -> @
                                        [] f.irqOn /\ read -> "read"
                                        [] OTHER -> "write"]
<1>1. FdcShape(g) /\ g.run = f.run /\ g.out = Quiet
  BY DEF FdcShape, FdcFields
<1>2. Execute(f) \in {ResultError(g), h}
  BY DEF Execute
<1> HIDE DEF read
<1>3. Asks(f, h)
  <2> HIDE DEF g
  <2>1. FdcShape(h) /\ h.run = f.run /\ h.phase = "Execution" /\ h.pio = ~f.irqOn
    BY <1>1 DEF FdcShape, FdcFields
  <2>2. h.out.drq = CASE ~f.irqOn -> "none"
                      [] f.irqOn /\ read -> "read"
                      [] OTHER -> "write"
    BY <1>1 DEF FdcShape, FdcFields, Quiet
  <2> HIDE DEF h
  <2> QED
    BY <2>1, <2>2 DEF Asks, DmaPhase
<1>4. Asks(f, ResultError(g))
  <2> HIDE DEF g
  <2> QED
    BY <1>1, ResultsDone DEF Asks, DmaPhase
<1> QED
  BY <1>2, <1>3, <1>4

LEMMA OthersAsk ==
  ASSUME NEW f, FdcShape(f), f.out = Quiet
  PROVE  /\ Asks(f, FormatTrack(f)) /\ Asks(f, Sense(f))
         /\ \A cyl : Asks(f, SeekTo(f, cyl))
         /\ Asks(f, [f EXCEPT !.phase = "Idle", !.len = 0])
<1> USE DEF Asks, DmaPhase, FdcShape, FdcFields, Quiet
<1>1. Asks(f, FormatTrack(f))
  BY DEF FormatTrack
<1>2. Asks(f, Sense(f))
  BY DEF Sense
<1>3. \A cyl : Asks(f, SeekTo(f, cyl))
  BY DEF SeekTo, Raise
<1>4. Asks(f, [f EXCEPT !.phase = "Idle", !.len = 0])
  OBVIOUS
<1> QED
  BY <1>1, <1>2, <1>3, <1>4

LEMMA StartAsks ==
  ASSUME NEW f, FdcShape(f), f.out = Quiet
  PROVE  Asks(f, StartCommand(f))
<1> DEFINE g == IF f.expected >= 2 THEN [f EXCEPT !.drive = f.buf[1]] ELSE f
<1>1. FdcShape(g) /\ g.run = f.run /\ g.out = Quiet
  BY DEF FdcShape, FdcFields
<1>2. \/ StartCommand(f) \in {Execute(g), FormatTrack(g), Sense(g),
                              [g EXCEPT !.phase = "Idle", !.len = 0]}
      \/ \E cyl : StartCommand(f) = SeekTo(g, cyl)
      \/ StartCommand(f) = Result(g, "ok", g.pcn[g.drive], 0, 1)
  BY DEF StartCommand
<1> HIDE DEF g
<1>3. \A h : Asks(g, h) => Asks(f, h)
  BY <1>1 DEF Asks
<1>4. Asks(g, Result(g, "ok", g.pcn[g.drive], 0, 1))
  BY <1>1, ResultDone DEF Asks, DmaPhase
<1> QED
  BY <1>1, <1>2, <1>3, <1>4, ExecuteAsks, OthersAsk

LEMMA CommandKeeps ==
  ASSUME NEW f, FdcShape(f), f.out = Quiet, NEW byte
  PROVE  Keeps(f, Command(f, byte))
<1> DEFINE first == f.phase # "Command"
           at == IF first THEN 0 ELSE f.len
           g == [f EXCEPT !.buf[at] = byte, !.len = at + 1,
                          !.expected = IF first THEN Expected(byte) ELSE @,
                          !.phase = "Command", !.left = 0]
<1>1. FdcShape(g) /\ g.run = f.run /\ g.out = Quiet /\ g.phase = "Command"
  BY DEF FdcShape, FdcFields
<1>2. CASE f.phase = "Execution"
  <2>1. Command(f, byte) = f
    BY <1>2 DEF Command
  <2>2. f.out.drq = "none"
    BY DEF Quiet
  <2> HIDE DEF g
  <2> QED
    BY <2>1, <2>2 DEF Keeps
<1>3. CASE f.phase # "Execution"
  <2>1. Command(f, byte) \in {StartCommand(g), g}
    BY <1>3 DEF Command
  <2> HIDE DEF g
  <2>2. Asks(g, StartCommand(g)) /\ Asks(g, g)
    BY <1>1, StartAsks DEF Asks, DmaPhase, Quiet
  <2> QED
    BY <1>1, <1>3, <2>1, <2>2 DEF Asks, Keeps, DmaPhase
<1> QED
  BY <1>2, <1>3

\* A programmed byte and a byte of the result ask for nothing.
LEMMA MovedKeeps ==
  ASSUME NEW f, FdcShape(f), f.out = Quiet, NEW prot
  PROVE  /\ f.phase = "Execution" /\ f.pio => Keeps(f, PioMoved(f, prot))
         /\ f.phase = "Result" => Keeps(f, ResultMoved(f))
<1> USE DEF Keeps, DmaPhase
<1>1. ASSUME f.phase = "Execution", f.pio  PROVE Keeps(f, PioMoved(f, prot))
  <2> DEFINE g == [f EXCEPT !.ptr = @ + 1]
             p == [g EXCEPT !.prot = FALSE]
             s == [Advance(f) EXCEPT !.ptr = 0]
  <2>1. FdcShape(g) /\ g.run = f.run /\ g.phase = f.phase /\ g.pio = f.pio /\ g.out = Quiet
    BY DEF FdcShape, FdcFields
  <2>2. PioMoved(f, prot) \in {g, ResultError(p), s, ResultOk(Advance(g))}
    BY DEF PioMoved
  <2>3. FdcShape(s) /\ s.run = f.run /\ s.phase = f.phase /\ s.pio = f.pio /\ s.out = Quiet
    BY AdvanceKeeps DEF FdcShape, FdcFields
  <2>4. FdcShape(p) /\ p.run = f.run
    BY DEF FdcShape, FdcFields
  <2> HIDE DEF g, p, s
  <2>5. Keeps(f, ResultError(p)) /\ Keeps(f, ResultOk(Advance(g)))
    BY <1>1, <2>1, <2>4, AdvanceKeeps, ResultsDone
  <2>6. Quiet.drq = "none"
    BY DEF Quiet
  <2>7. Keeps(f, g) /\ Keeps(f, s)
    BY <2>1, <2>3, <2>6
  <2> QED
    BY <2>2, <2>5, <2>7
<1>2. ASSUME f.phase = "Result"  PROVE Keeps(f, ResultMoved(f))
  BY <1>2 DEF ResultMoved, FdcShape, FdcFields, Quiet
<1> QED
  BY <1>1, <1>2

\* Digital output register: it asks for nothing, and a controller that runs
\* on stays in its phase.
LEMMA DorKeeps ==
  ASSUME NEW f, FdcShape(f), f.out = Quiet, NEW irqOn, NEW run, NEW unit
  PROVE  LET g == Dor(f, irqOn, run, unit)
         IN /\ FdcShape(g) /\ g.run = run /\ g.out.drq = "none"
            /\ DmaPhase(g) => DmaPhase(f)
            /\ f.run /\ run => (DmaPhase(g) <=> DmaPhase(f))
BY DEF Dor, FdcShape, FdcFields, DmaPhase, Raise, Quiet

\* The DMA callbacks: a byte leaves the phase, the terminal count ends it.
LEMMA ServedKeeps ==
  ASSUME NEW f, FdcShape(f), NEW g, g = DmaServed(f) \/ g = DmaStored(f) \/ g = f
  PROVE  /\ FdcShape(g) /\ g.run = f.run /\ g.phase = f.phase /\ g.pio = f.pio
         /\ g.out = f.out
         /\ FdcShape(DmaCompleted(g)) /\ DmaCompleted(g).run = f.run
         /\ DmaCompleted(g).phase = "Result" /\ DmaCompleted(g).out.drq = "none"
<1>1. /\ FdcShape(g) /\ g.run = f.run /\ g.phase = f.phase /\ g.pio = f.pio
      /\ g.out = f.out
  <2>1. LET h == DmaMoved(f)
        IN /\ FdcShape(h) /\ h.run = f.run /\ h.phase = f.phase /\ h.pio = f.pio
           /\ h.out = f.out
    BY AdvanceKeeps DEF DmaMoved, FdcShape, FdcFields
  <2> QED
    BY <2>1 DEF DmaServed, DmaStored, FdcShape, FdcFields
<1>2. LET h == [g EXCEPT !.format = FALSE, !.prot = FALSE]
      IN FdcShape(h) /\ h.run = g.run
  BY <1>1 DEF FdcShape, FdcFields
<1> QED
  BY <1>1, <1>2, ResultsDone DEF DmaCompleted

(***************************************************************************)
(* The bus and the guest.                                                  *)
(***************************************************************************)
IsaFields ==
  {"active", "write", "card", "pending", "again", "dack", "tc", "ior", "iow", "sd",
   "drq", "irq"}
GuestFields == {"prog", "pc", "done", "edge", "resets", "got", "mem", "disk"}

IsaShape(b) == DOMAIN b = IsaFields
GuestShape(g) == DOMAIN g = GuestFields

\* Accesses of a driver's reset before the controller runs.
Ahead == [post |-> 5, retry |-> 4]
Starting == guest.prog \in Resets /\ guest.pc <= Ahead[guest.prog]

ShapeInv ==
  /\ FdcShape(fdc) /\ IsaShape(isa) /\ GuestShape(guest)
  /\ fdc.out = Quiet
  /\ guest.prog \in DOMAIN Programs /\ guest.pc \in Nat \ {0}
  /\ isa.active = NoChannel <=> isa.card = None

\* The floppy controller is the active card while it executes by DMA.
AgreeInv ==
  /\ "abandoned" \notin mishap /\ isa.card = "fdc" => DmaPhase(fdc)
  /\ mishap = {} /\ DmaPhase(fdc) => isa.card = "fdc"

\* The controller stands still only before a driver's reset has started it,
\* and nothing is asked for by then; the card's user takes back its own.
DriverInv ==
  /\ ~fdc.run => Starting
  /\ "abandoned" \notin mishap /\ Starting => isa.card = None
  /\ mishap = {} /\ guest.prog = "cancel" /\ guest.pc = 2 => isa.card # "fdc"

BusInv == ShapeInv /\ AgreeInv /\ DriverInv

LEMMA InitBusInv == Init => BusInv
<1> SUFFICES ASSUME Init PROVE BusInv
  OBVIOUS
<1>1. /\ FdcShape(fdc) /\ fdc.out = Quiet /\ fdc.phase = "Idle" /\ ~fdc.run
  BY DEF Init, FloppyInit, FdcShape, FdcFields
<1>2. IsaShape(isa) /\ isa.active = NoChannel /\ isa.card = None
  BY DEF Init, IsaInit, IsaShape, IsaFields
<1>3. GuestShape(guest) /\ guest.prog = "post" /\ guest.pc = 1
  BY DEF Init, GuestShape, GuestFields
<1>4. "post" \in DOMAIN Programs /\ Starting
  BY <1>3 DEF Programs, Starting, Resets, Ahead
<1> QED
  BY <1>1, <1>2, <1>3, <1>4 DEF BusInv, ShapeInv, AgreeInv, DriverInv, DmaPhase, None

\* What the bus makes of a handler's wish.
LEMMA ToldKeeps ==
  ASSUME NEW b, IsaShape(b), NEW out
  PROVE  LET c == Told(b, out)
         IN /\ IsaShape(c)
            /\ out.drq = "none" => c.active = b.active /\ c.card = b.card
            /\ out.drq # "none" => c.active = 2 /\ c.card = "fdc"
BY DEF Told, Assert, Owner, IsaShape, IsaFields

\* A handler of the floppy controller ran: the active card follows.
LEMMA HandledKeeps ==
  ASSUME ShapeInv, AgreeInv, NEW g, Keeps(fdc, g), Handled(g, isa), mishap \subseteq mishap'
  PROVE  /\ FdcShape(fdc') /\ fdc'.out = Quiet /\ fdc'.run = fdc.run
         /\ IsaShape(isa') /\ (isa'.active = NoChannel <=> isa'.card = None)
         /\ AgreeInv'
<1>1. /\ FdcShape(fdc') /\ fdc'.out = Quiet /\ fdc'.run = fdc.run
      /\ fdc'.phase = g.phase /\ fdc'.pio = g.pio
  BY DEF Handled, Keeps, FdcShape, FdcFields
<1>2. /\ IsaShape(isa')
      /\ g.out.drq = "none" => isa'.active = isa.active /\ isa'.card = isa.card
      /\ g.out.drq # "none" => isa'.active = 2 /\ isa'.card = "fdc"
  BY ToldKeeps DEF Handled, ShapeInv
<1>3. isa'.active = NoChannel <=> isa'.card = None
  BY <1>2 DEF ShapeInv, NoChannel, None
<1>4. DmaPhase(fdc') <=> DmaPhase(fdc) \/ g.out.drq # "none"
  BY <1>1 DEF Keeps, DmaPhase
<1>5. AgreeInv'
  BY <1>2, <1>4 DEF AgreeInv
<1> QED
  BY <1>1, <1>2, <1>3, <1>5

\* The next access of a program: an opening asks for nothing and ends by
\* starting the controller; later only the cancelled request is not tame.
LEMMA NextAccess ==
  ASSUME ShapeInv, ~Ended
  PROVE  /\ Starting => OpenOp(Next1)
         /\ guest.prog \in Resets /\ guest.pc = Ahead[guest.prog] =>
              Next1.op = "dor" /\ Next1.arg.run
         /\ ~Starting => TameOp(Next1) \/ (guest.prog = "cancel" /\ guest.pc = 2)
         /\ guest.prog = "cancel" /\ guest.pc = 1 => Next1.op = "card"
<1> DEFINE p == Programs[guest.prog]
<1>1. guest.pc \in Nat \ {0} /\ guest.prog \in DOMAIN Programs
      /\ ~(guest.pc > Len(p))
  BY DEF ShapeInv, Ended, Length
<1>2. CASE guest.prog \in Resets
  <2>1. Opens(p, Ahead[guest.prog]) /\ Ahead[guest.prog] \in Nat
    BY <1>2, ProgramsTame DEF Resets, Ahead
  <2>2. PICK S : /\ p \in Seq(S) /\ Ahead[guest.prog] \in 1 .. Len(p)
                 /\ \A i \in 1..Ahead[guest.prog] : OpenOp(p[i])
                 /\ p[Ahead[guest.prog]].op = "dor" /\ p[Ahead[guest.prog]].arg.run
                 /\ \A i \in Ahead[guest.prog] + 1 .. Len(p) : TameOp(p[i])
    BY <2>1 DEF Opens
  <2>3. guest.prog # "cancel" /\ Len(p) \in Nat
    BY <1>2, <2>2 DEF Resets
  <2> HIDE DEF p
  <2>4. Starting => OpenOp(p[guest.pc])
    BY <1>1, <2>1, <2>2 DEF Starting
  <2>5. ~Starting => TameOp(p[guest.pc])
    BY <1>1, <1>2, <2>1, <2>2, <2>3 DEF Starting
  <2> QED
    BY <2>2, <2>3, <2>4, <2>5 DEF p, Next1
<1>3. CASE guest.prog = "cancel"
  <2>1. Len(p) = 2 /\ p[1].op = "card" /\ p[1].arg = 1
    BY <1>3, ProgramsTame
  <2>2. ~Starting /\ guest.prog \notin Resets
    BY <1>3 DEF Starting, Resets
  <2> HIDE DEF p
  <2>3. guest.pc \in {1, 2}
    BY <1>1, <2>1
  <2>4. TameOp(p[1])
    BY <2>1 DEF TameOp
  <2> QED
    BY <1>3, <2>1, <2>2, <2>3, <2>4 DEF p, Next1
<1>4. CASE guest.prog \notin Resets \cup {"cancel"}
  <2>1. Tame(p)
    BY <1>1, <1>4, ProgramsTame
  <2>2. PICK S : p \in Seq(S) /\ \A o \in S : TameOp(o)
    BY <2>1 DEF Tame
  <2> HIDE DEF p
  <2>3. guest.pc \in 1 .. Len(p)
    BY <1>1, <2>2
  <2>4. TameOp(p[guest.pc])
    BY <2>2, <2>3
  <2> QED
    BY <1>4, <2>4 DEF p, Next1, Starting
<1> QED
  BY <1>2, <1>3, <1>4

\* A step of the guest moves on in its program.
LEMMA GuestMoves ==
  ASSUME BusInv, GuestStep
  PROVE  /\ GuestShape(guest') /\ guest'.prog = guest.prog /\ guest'.pc = guest.pc + 1
         /\ guest'.prog \in DOMAIN Programs /\ guest'.pc \in Nat \ {0}
         /\ ~Ended /\ Access(Next1) /\ mishap \subseteq mishap'
         /\ Starting' => Starting
         /\ Starting /\ ~Starting' => Next1.op = "dor" /\ Next1.arg.run
<1>1. /\ GuestShape(guest') /\ guest'.prog = guest.prog /\ guest'.pc = guest.pc + 1
      /\ guest.pc \in Nat \ {0}
  BY DEF BusInv, ShapeInv, GuestStep, GuestShape, GuestFields
<1>2. guest'.prog \in DOMAIN Programs /\ guest'.pc \in Nat \ {0}
  BY <1>1 DEF BusInv, ShapeInv
<1>3. ~Ended /\ Access(Next1) /\ mishap \subseteq mishap'
  BY DEF GuestStep
<1>4. guest.prog \in Resets => Ahead[guest.prog] \in Nat
  BY DEF Resets, Ahead
<1>5. Starting' => Starting
  BY <1>1, <1>4 DEF Starting
<1>6. ASSUME Starting, ~Starting'
      PROVE  guest.prog \in Resets /\ guest.pc = Ahead[guest.prog]
  BY <1>1, <1>4, <1>6 DEF Starting
<1>7. Starting /\ ~Starting' => Next1.op = "dor" /\ Next1.arg.run
  BY <1>3, <1>6, NextAccess DEF BusInv
<1> QED
  BY <1>1, <1>2, <1>3, <1>5, <1>7

\* What is left to show of a step of the guest.
LEMMA GuestShapes ==
  ASSUME BusInv, GuestStep, FdcShape(fdc'), fdc'.out = Quiet, IsaShape(isa'),
         isa'.active = NoChannel <=> isa'.card = None
  PROVE  ShapeInv'
BY GuestMoves DEF ShapeInv

\* The program that cancels a request has just raised it.
LEMMA NotCancelling ==
  ASSUME BusInv, GuestStep, Next1.op # "card"
  PROVE  ~(guest'.prog = "cancel" /\ guest'.pc = 2)
<1>1. guest.prog = "cancel" /\ guest.pc = 1 => Next1.op = "card"
  BY GuestMoves, NextAccess DEF BusInv
<1> QED
  BY <1>1, GuestMoves DEF BusInv, ShapeInv

\* The active card and the floppy controller are left alone.
LEMMA CardsKept ==
  ASSUME BusInv, GuestStep, fdc' = fdc, IsaShape(isa'),
         isa'.active = isa.active, isa'.card = isa.card,
         Next1.op \notin {"dor", "card", "deassert"}
  PROVE  BusInv'
<1>1. ShapeInv'
  BY GuestShapes DEF BusInv, ShapeInv
<1>2. AgreeInv'
  BY GuestMoves DEF BusInv, AgreeInv
<1>3. ~fdc.run => Starting'
  BY GuestMoves DEF BusInv, DriverInv
<1>4. DriverInv'
  BY <1>3, GuestMoves, NotCancelling DEF BusInv, DriverInv
<1> QED
  BY <1>1, <1>2, <1>4 DEF BusInv

\* A command byte, a data byte, a byte of the result.
LEMMA FifoKeeps ==
  ASSUME BusInv, GuestStep, NEW g, Keeps(fdc, g), Handled(g, isa),
         Next1.op \in {"fifo", "data", "read"}
  PROVE  BusInv'
<1>1. /\ FdcShape(fdc') /\ fdc'.out = Quiet /\ fdc'.run = fdc.run
      /\ IsaShape(isa') /\ (isa'.active = NoChannel <=> isa'.card = None)
      /\ AgreeInv'
  BY GuestMoves, HandledKeeps DEF BusInv
<1>2. ~Starting
  BY GuestMoves, NextAccess DEF BusInv, OpenOp
<1>3. DriverInv'
  BY <1>1, <1>2, GuestMoves, NotCancelling DEF BusInv, DriverInv
<1>4. ShapeInv'
  BY <1>1, GuestShapes
<1> QED
  BY <1>1, <1>3, <1>4 DEF BusInv

LEMMA DorKeepsBus ==
  ASSUME BusInv, GuestStep, Next1.op = "dor", NEW irqOn, NEW run,
         run = Next1.arg.run, Handled(Dor(fdc, irqOn, run, 0), isa)
  PROVE  BusInv'
<1> DEFINE g == Dor(fdc, irqOn, run, 0)
<1>1. /\ FdcShape(g) /\ g.run = run /\ g.out.drq = "none"
      /\ DmaPhase(g) => DmaPhase(fdc)
      /\ fdc.run /\ run => (DmaPhase(g) <=> DmaPhase(fdc))
  BY DorKeeps DEF BusInv, ShapeInv
<1>2. Handled(g, isa)
  OBVIOUS
<1> HIDE DEF g
<1>3. /\ FdcShape(fdc') /\ fdc'.out = Quiet /\ fdc'.run = run
      /\ fdc'.phase = g.phase /\ fdc'.pio = g.pio
  BY <1>1, <1>2 DEF Handled, FdcShape, FdcFields
<1>4. IsaShape(isa') /\ isa'.active = isa.active /\ isa'.card = isa.card
  <2>1. isa' = Told(isa, g.out) /\ IsaShape(isa)
    BY <1>2 DEF Handled, BusInv, ShapeInv
  <2> QED
    BY <1>1, <2>1, ToldKeeps
<1>5. ~run => Starting /\ Starting'
  <2>1. ~run => ~TameOp(Next1)
    BY DEF TameOp
  <2>2. ~run => guest.prog # "cancel" \/ guest.pc # 2
    <3>1. guest.prog = "cancel" /\ guest.pc = 2 => Next1.op = "deassert"
      BY ProgramsTame DEF Next1
    <3> QED
      BY <3>1
  <2> QED
    BY <2>1, <2>2, GuestMoves, NextAccess DEF BusInv
<1>6. DmaPhase(fdc') <=> DmaPhase(g)
  BY <1>3 DEF DmaPhase
<1>7. AgreeInv'
  <2>1. "abandoned" \notin mishap' /\ isa'.card = "fdc" => fdc.run /\ run /\ DmaPhase(fdc)
    BY <1>4, <1>5, GuestMoves DEF BusInv, AgreeInv, DriverInv, None
  <2> QED
    BY <1>1, <1>4, <1>6, <2>1, GuestMoves DEF BusInv, AgreeInv
<1>8. DriverInv'
  BY <1>3, <1>4, <1>5, GuestMoves, NotCancelling DEF BusInv, DriverInv
<1>9. ShapeInv'
  BY <1>3, <1>4, GuestShapes DEF BusInv, ShapeInv
<1> QED
  BY <1>7, <1>8, <1>9 DEF BusInv

\* The test card's ports.
LEMMA CardKeeps ==
  ASSUME BusInv, GuestStep, fdc' = fdc,
         \/ Next1.op = "card" /\ CardRequest(Next1.arg)
         \/ Next1.op = "deassert" /\ CardDeassert(Next1.arg)
  PROVE  BusInv'
<1>1. CASE Next1.op = "card" /\ CardRequest(Next1.arg)
  <2>1. Next1.arg \in {1, 3} /\ ~Starting
    <3>1. guest.prog = "cancel" /\ guest.pc = 2 => Next1.op = "deassert"
      BY ProgramsTame DEF Next1
    <3> QED
      BY <1>1, <3>1, GuestMoves, NextAccess DEF BusInv, OpenOp, TameOp
  <2>2. /\ IsaShape(isa') /\ isa'.active # NoChannel /\ isa'.card = "card"
    BY <1>1, <2>1 DEF CardRequest, Assert, Owner, BusInv, ShapeInv, IsaShape, IsaFields,
       NoChannel
  <2>3. mishap' = {} => isa.card = None
    BY <1>1 DEF GuestStep, Overlap, BusInv, ShapeInv
  <2>4. AgreeInv'
    BY <2>2, <2>3, GuestMoves DEF BusInv, AgreeInv, None
  <2>5. DriverInv'
    BY <2>1, <2>2, GuestMoves DEF BusInv, DriverInv
  <2>6. ShapeInv'
    BY <2>2, GuestShapes DEF BusInv, ShapeInv, None
  <2> QED
    BY <2>4, <2>5, <2>6 DEF BusInv
<1>2. CASE Next1.op = "deassert" /\ CardDeassert(Next1.arg)
  <2>1. guest.prog = "cancel" /\ guest.pc = 2 /\ ~Starting
    BY <1>2, GuestMoves, NextAccess DEF BusInv, OpenOp, TameOp
  <2>2. IsaShape(isa') /\ isa'.active = NoChannel /\ isa'.card = None
    BY <1>2 DEF CardDeassert, Deassert, BusInv, ShapeInv, IsaShape, IsaFields
  <2>3. AgreeInv'
    BY <2>1, <2>2, GuestMoves DEF BusInv, AgreeInv, DriverInv, None
  <2>4. DriverInv'
    BY <2>1, <2>2, GuestMoves DEF BusInv, DriverInv, None
  <2>5. ShapeInv'
    BY <2>2, GuestShapes DEF BusInv, ShapeInv
  <2> QED
    BY <2>3, <2>4, <2>5 DEF BusInv
<1> QED
  BY <1>1, <1>2

LEMMA GuestKeepsBus ==
  ASSUME BusInv, GuestStep
  PROVE  BusInv'
<1> DEFINE o == Next1
<1>1. CASE KeepCards /\ o.op \notin {"dor", "card", "deassert"}
  BY <1>1, CardsKept DEF KeepCards, isaVars, BusInv, ShapeInv
<1>2. CASE o.op = "dor" /\ WriteDor(o.arg.irq, o.arg.run, 0)
  BY <1>2, DorKeepsBus DEF WriteDor, FdcPort
<1>3. CASE o.op = "fifo" /\ WriteFifo(o.arg)
  <2>1. FdcShape(fdc) /\ fdc.out = Quiet
    BY DEF BusInv, ShapeInv
  <2>2. CASE Programmed /\ FdcPort(PioMoved(fdc, FALSE))
    BY <1>3, <2>1, <2>2, MovedKeeps, FifoKeeps DEF FdcPort, Programmed
  <2>3. CASE FdcPort(Command(fdc, o.arg))
    BY <1>3, <2>1, <2>3, CommandKeeps, FifoKeeps DEF FdcPort
  <2> QED
    BY <1>3, <2>2, <2>3 DEF WriteFifo
<1>4. CASE o.op \in {"data", "read"} /\ ReadFifo
  <2>1. FdcShape(fdc) /\ fdc.out = Quiet
    BY DEF BusInv, ShapeInv
  <2>2. CASE Programmed /\ FdcPort(PioMoved(fdc, fdc.prot))
    BY <1>4, <2>1, <2>2, MovedKeeps, FifoKeeps DEF FdcPort, Programmed
  <2>3. CASE fdc.phase = "Result" /\ FdcPort(ResultMoved(fdc))
    BY <1>4, <2>1, <2>3, MovedKeeps, FifoKeeps DEF FdcPort
  <2> QED
    BY <1>4, <2>2, <2>3 DEF ReadFifo
<1>5. CASE \/ o.op = "card" /\ CardRequest(o.arg)
           \/ o.op = "deassert" /\ CardDeassert(o.arg)
  BY <1>5, CardKeeps DEF CardRequest, CardDeassert
<1>6. CASE \/ o.op = "cardIrq" /\ CardIrq(o.arg)
           \/ o.op = "lower" /\ LowerCardIrq(o.arg)
  <2>1. fdc' = fdc /\ IsaShape(isa') /\ isa'.active = isa.active /\ isa'.card = isa.card
    BY <1>6 DEF CardIrq, LowerCardIrq, BusInv, ShapeInv, IsaShape, IsaFields
  <2> QED
    BY <1>6, <2>1, CardsKept
<1> QED
  BY <1>1, <1>2, <1>3, <1>4, <1>5, <1>6, GuestMoves DEF Access

\* A bus cycle moves a byte of the active card's transfer, or ends it.
LEMMA WatchedKeeps ==
  ASSUME ShapeInv, NEW p, NEW byte
  PROVE  LET b == CardCalled(p, Watched(p, byte))
         IN /\ IsaShape(b)
            /\ Completes(p) => b.active = NoChannel /\ b.card = None
            /\ ~Completes(p) => b.active = isa.active /\ b.card = isa.card
<1> DEFINE b == Watched(p, byte)
<1>1. /\ IsaShape(b)
      /\ Completes(p) => b.active = NoChannel /\ b.card = None
      /\ ~Completes(p) => b.active = isa.active /\ b.card = isa.card
  BY DEF Watched, ShapeInv, IsaShape, IsaFields
<1> HIDE DEF b
<1>2. CardCalled(p, b) = b \/ CardCalled(p, b) = [b EXCEPT !.irq = @ \cup {card.irq}]
  BY DEF CardCalled
<1> QED
  BY <1>1, <1>2 DEF IsaShape, IsaFields, b

LEMMA ClockKeepsBus ==
  ASSUME BusInv, NEW ready, Clock(ready)
  PROVE  BusInv'
<1> DEFINE p == pins'
           g == FdcCalled(p)
           byte == IF isa.card = "fdc" THEN ReadByte(fdc) ELSE CardByte
           b == CardCalled(p, Watched(p, byte))
<1>1. /\ fdc' = [g EXCEPT !.out = Quiet] /\ isa' = Told(b, g.out)
      /\ guest' = [guest EXCEPT !.edge = Edges(@)] /\ mishap' = mishap
  BY DEF Clock, Cycle, IsaCycle, Handled
<1>2. /\ IsaShape(b)
      /\ Completes(p) => b.active = NoChannel /\ b.card = None
      /\ ~Completes(p) => b.active = isa.active /\ b.card = isa.card
  BY WatchedKeeps DEF BusInv
<1>3. /\ FdcShape(g) /\ g.run = fdc.run /\ g.out.drq = "none"
      /\ Completes(p) /\ isa.card = "fdc" => g.phase = "Result"
      /\ ~(Completes(p) /\ isa.card = "fdc") => g.phase = fdc.phase /\ g.pio = fdc.pio
  <2> DEFINE moved == CASE Fetches(p) -> DmaServed(fdc)
                        [] Delivers   -> DmaStored(fdc)
                        [] OTHER      -> fdc
  <2>1. moved = DmaServed(fdc) \/ moved = DmaStored(fdc) \/ moved = fdc
    BY DEF Fetches, Delivers
  <2>2. g = IF isa.card # "fdc" THEN fdc
            ELSE IF Completes(p) THEN DmaCompleted(moved) ELSE moved
    BY DEF FdcCalled
  <2>3. FdcShape(fdc) /\ fdc.out.drq = "none"
    BY DEF BusInv, ShapeInv, Quiet
  <2> HIDE DEF moved, g
  <2> QED
    BY <2>1, <2>2, <2>3, ServedKeeps
<1> HIDE DEF p, g, b
<1>4. /\ FdcShape(fdc') /\ fdc'.out = Quiet /\ fdc'.run = fdc.run
      /\ fdc'.phase = g.phase /\ fdc'.pio = g.pio
  BY <1>1, <1>3 DEF FdcShape, FdcFields
<1>5. IsaShape(isa') /\ isa'.active = b.active /\ isa'.card = b.card
  BY <1>1, <1>2, <1>3, ToldKeeps
<1>6. GuestShape(guest') /\ guest'.prog = guest.prog /\ guest'.pc = guest.pc
  BY <1>1 DEF BusInv, ShapeInv, GuestShape, GuestFields
<1>7. ShapeInv'
  BY <1>2, <1>4, <1>5, <1>6 DEF BusInv, ShapeInv
<1>8. AgreeInv'
  <2>1. CASE Completes(p)
    BY <1>1, <1>2, <1>3, <1>4, <1>5, <2>1 DEF BusInv, AgreeInv, DmaPhase, None
  <2>2. CASE ~Completes(p)
    BY <1>1, <1>2, <1>3, <1>4, <1>5, <2>2 DEF BusInv, AgreeInv, DmaPhase
  <2> QED
    BY <2>1, <2>2
<1>9. DriverInv'
  <2>1. Starting' <=> Starting
    BY <1>6 DEF Starting
  <2>2. isa'.card \in {isa.card, None} /\ None # "fdc"
    BY <1>2, <1>5 DEF None
  <2> QED
    BY <1>1, <1>4, <1>6, <2>1, <2>2 DEF BusInv, DriverInv
<1> QED
  BY <1>7, <1>8, <1>9 DEF BusInv

\* A driver starts over: at once, or after RESET.
LEMMA RestartKeepsBus ==
  ASSUME BusInv, NEW p \in Resets, guest' = Restarted(p), UNCHANGED <<isa, fdc>>,
         mishap \subseteq mishap', "abandoned" \notin mishap' => ~Busy
  PROVE  BusInv'
<1>1. GuestShape(guest') /\ guest'.prog = p /\ guest'.pc = 1
  BY DEF BusInv, ShapeInv, Restarted, GuestShape, GuestFields
<1>2. p \in DOMAIN Programs /\ p # "cancel" /\ Starting'
  BY <1>1 DEF Resets, Programs, Starting, Ahead
<1>3. ShapeInv' /\ AgreeInv'
  BY <1>1, <1>2 DEF BusInv, ShapeInv, AgreeInv
<1>4. "abandoned" \notin mishap' => isa.card = None
  BY DEF BusInv, ShapeInv, Busy
<1> QED
  BY <1>1, <1>2, <1>3, <1>4 DEF BusInv, DriverInv

LEMMA ChooseKeepsBus ==
  ASSUME BusInv, Choose
  PROVE  BusInv'
<1>1. PICK p \in DOMAIN Programs \ Resets :
        guest' = [guest EXCEPT !.prog = p, !.pc = 1, !.done = @ + 1,
                               !.got = <<>>, !.mem = mem, !.disk = disk]
  BY RetriedAssumption DEF Choose
<1>2. GuestShape(guest') /\ guest'.prog = p /\ guest'.pc = 1
  BY <1>1 DEF BusInv, ShapeInv, GuestShape, GuestFields
<1>3. ~Starting
  <2> SUFFICES ASSUME Starting PROVE FALSE
    OBVIOUS
  <2>1. /\ guest.prog \in Resets /\ guest.pc \in Nat /\ guest.pc <= Ahead[guest.prog]
        /\ guest.pc > Len(Programs[guest.prog])
    BY DEF BusInv, ShapeInv, Starting, Choose, Ended, Length
  <2>2. Opens(Programs[guest.prog], Ahead[guest.prog])
    BY <2>1, ProgramsTame DEF Resets, Ahead
  <2>3. Ahead[guest.prog] \in 1 .. Len(Programs[guest.prog])
        /\ Len(Programs[guest.prog]) \in Nat
    BY <2>2 DEF Opens
  <2> QED
    BY <2>1, <2>3
<1>4. ~Starting' /\ UNCHANGED <<isa, fdc>> /\ mishap \subseteq mishap'
  BY <1>1, <1>2 DEF Starting, Choose, isaVars
<1>5. ShapeInv' /\ AgreeInv'
  BY <1>1, <1>2, <1>4 DEF BusInv, ShapeInv, AgreeInv
<1> QED
  BY <1>2, <1>3, <1>4, <1>5 DEF BusInv, DriverInv

LEMMA StepKeepsBus == BusInv /\ [Next]_vars => BusInv'
<1> SUFFICES ASSUME BusInv, [Next]_vars PROVE BusInv'
  OBVIOUS
<1>1. CASE GuestStep
  BY <1>1, GuestKeepsBus
<1>2. CASE Choose
  BY <1>2, ChooseKeepsBus
<1>3. CASE GiveUp
  BY <1>3, RestartKeepsBus DEF GiveUp, isaVars, Resets
<1>4. CASE MachineReset
  BY <1>4, RestartKeepsBus DEF MachineReset, isaVars, Resets
<1>5. ASSUME NEW ready \in BOOLEAN, Clock(ready) PROVE BusInv'
  BY <1>5, ClockKeepsBus
<1>6. CASE Handshake \/ UNCHANGED vars
  BY <1>6 DEF Handshake, vars, isaVars, BusInv, ShapeInv, AgreeInv, DriverInv, Starting
<1> QED
  BY <1>1, <1>2, <1>3, <1>4, <1>5, <1>6 DEF Next

\* In every reachable state the active card and the controller's phase agree,
\* and the controller stands still only before a driver has started it.
THEOREM BusInvariant == Spec => []BusInv
  BY InitBusInv, StepKeepsBus, PTL DEF Spec

\* The floppy controller is the active card exactly while it executes a
\* transfer by DMA (isa_fdc.cpp, isa_bus.cpp), so no byte and no terminal
\* count reaches it in another phase.
THEOREM ActiveCard == Spec => []ActiveWhileExecuting
<1>1. BusInv => ActiveWhileExecuting
  BY DEF BusInv, AgreeInv, DmaPhase, ActiveWhileExecuting
<1> QED
  BY BusInvariant, <1>1, PTL
=============================================================================
