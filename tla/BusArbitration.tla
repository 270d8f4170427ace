--------------------------- MODULE BusArbitration ---------------------------
(***************************************************************************)
(* Who drives the bus: the 8088, the 8288 that issues its commands, the    *)
(* 8237A, and the gates and flip-flops between HRQ and HOLDA.  The board   *)
(* is synchronous: one call of Scheduler::evaluate runs every chip once,   *)
(* in a topological order of the nets driven in this cycle.  So a step is  *)
(* one CLK, each chip an operator from what it reads to what it drives,    *)
(* and the order the four plans give decides who reads an old level.       *)
(*                                                                         *)
(* Channel 0 is left out (its request never rises: IC_8253 suppresses OUT1)*)
(* and so is all data; transfers have the normal timing.                   *)
(***************************************************************************)
EXTENDS Naturals

CONSTANTS
  Ops,        \* the bus cycles the running program may make
  MaxBurst    \* bound: transfers in one service of a channel

Reads     == {"MemR", "IoR", "DmaR"}
PortCycles == {"IoR", "IoW", "DmaR", "DmaW"}
DmaPorts  == {"DmaR", "DmaW"}       \* cycles at the 8237A's own ports
BusCycles == {"MemR", "MemW"} \cup PortCycles

ASSUME BusAssumption == /\ Ops \subseteq BusCycles /\ Ops # {}
                        /\ MaxBurst \in Nat \ {0}

VARIABLES
  cpu,      \* 8088: T-state and bus cycle
  bc,       \* 8288
  glue,     \* the flip-flops and nets that hold a level between cycles
  dma,      \* 8237A
  ready,    \* READY, as the 8284A drove it after the last cycle
  seen      \* history of the CPU's bus cycle: latched by the 8288, its own
            \* command strobed, its register access executed by the 8237A

vars == <<cpu, bc, glue, dma, ready, seen>>

Init ==
  /\ cpu \in [t : {"Ti"}, op : Ops]
  /\ bc = [cycle |-> "None", strobe |-> FALSE, commanding |-> FALSE,
           prevActive |-> FALSE, inhibited |-> FALSE, hold |-> 0]
  /\ glue = [n238 |-> FALSE, holda |-> FALSE, n230 |-> TRUE,
             aen |-> FALSE, n244 |-> TRUE, rw |-> FALSE, n240 |-> FALSE]
  /\ dma = [state |-> "SI", hrq |-> FALSE, strobe |-> FALSE, left |-> 0,
            prev |-> "None", pending |-> "None"]
  /\ ready = TRUE
  /\ seen = [latched |-> FALSE, strobed |-> FALSE]

(***************************************************************************)
(* 8088, biu_run(): no idle states, T1 follows T4                          *)
(***************************************************************************)
Active(c) == c.t \in {"T1", "T2"}      \* S0-S2 carry the cycle

Waits(c) == c.t \in {"T3", "Tw"} /\ ~ready

CpuStep ==
  CASE cpu.t \in {"Ti", "T4"} -> {[t |-> "T1", op |-> o] : o \in Ops}
    [] cpu.t = "T1"   -> {[cpu EXCEPT !.t = "T2"]}
    [] cpu.t = "T2"   -> {[cpu EXCEPT !.t = "T3"]}
    [] Waits(cpu)     -> {[cpu EXCEPT !.t = "Tw"]}
    [] OTHER          -> {[cpu EXCEPT !.t = "T4"]}

(***************************************************************************)
(* 8288, on_clk_rising()                                                   *)
(***************************************************************************)
\* CEN Low and ~AEN Low together.
Inhibit(cen, waitBar) == ~cen /\ ~waitBar

\* The status decoder: T1 latches the cycle, T2 asserts its command.
Sequence(b, active, op, cen) ==
  CASE active /\ ~b.prevActive ->
         [b EXCEPT !.cycle = op, !.strobe = FALSE, !.commanding = FALSE,
                   !.prevActive = TRUE]
    [] active /\ b.prevActive ->
         [b EXCEPT !.strobe = b.strobe \/ (cen /\ ~b.commanding),
                   !.commanding = b.commanding \/ cen]
    [] OTHER -> [b EXCEPT !.prevActive = FALSE]

\* Inhibited, the 8288 does not look at the status; B0 starts the recovery.
BcNormal(b, active, op, cen, waitBar) ==
  CASE Inhibit(cen, waitBar) -> [b EXCEPT !.strobe = FALSE, !.inhibited = TRUE]
    [] ~Inhibit(cen, waitBar) /\ b.inhibited -> [b EXCEPT !.hold = 3]
    [] OTHER -> Sequence(b, active, op, cen)

\* Mutant of Reassert: stays inhibited.
ReassertInhibited(b) ==
  [b EXCEPT !.hold = 2, !.strobe = (b.cycle # "None"),
            !.commanding = b.commanding \/ (b.cycle # "None")]

\* B1: the command of the cycle it last latched.
Reassert(b) ==
  [b EXCEPT !.hold = 2, !.inhibited = FALSE, !.strobe = (b.cycle # "None"),
            !.commanding = b.commanding \/ (b.cycle # "None")]

\* Mutant of BcStep: the recovery does not wait for CEN.
BcStepNoStall(active, op, cen, waitBar) ==
  CASE bc.hold = 3 -> Reassert(bc)
    [] bc.hold = 2 -> [bc EXCEPT !.hold = 1]
    [] OTHER -> BcNormal([bc EXCEPT !.hold = 0], active, op, cen, waitBar)

BcStep(active, op, cen, waitBar) ==
  CASE bc.hold > 0 /\ ~cen -> bc
    [] bc.hold = 3 /\ cen  -> Reassert(bc)
    [] bc.hold = 2 /\ cen  -> [bc EXCEPT !.hold = 1]
    [] OTHER -> BcNormal([bc EXCEPT !.hold = 0], active, op, cen, waitBar)

\* The command lines as the 8288 drives them.
Command(b) == IF b.strobe THEN b.cycle ELSE "None"

(***************************************************************************)
(* 8237A, on_cycle(): sample ~CS with ~IOR and ~IOW, look at the requests, *)
(* one state of the transfer                                               *)
(***************************************************************************)
\* A call executes the access the call before it noticed.
Sampled(access) == IF dma.state = "SI" THEN access ELSE dma.prev

Noticed(access) ==
  IF Sampled(access) # dma.prev THEN Sampled(access) ELSE "None"

\* Mutant of MayRequest: bus_hold() is not asked.
MayRequestInRecovery(hold) == dma.state = "SI" /\ ~glue.holda

\* evaluate_dreq(); which requests are up and unmasked is left open.
MayRequest(hold) == dma.state = "SI" /\ ~glue.holda /\ hold = 0

\* on_clk_falling()
Transfer(d) ==
  CASE d.state = "BusRequested" ->
         {IF glue.holda THEN [d EXCEPT !.state = "S2"] ELSE d}
    [] d.state = "S1" -> {[d EXCEPT !.state = "S2"]}
    [] d.state = "S2" -> {[d EXCEPT !.state = "S3", !.strobe = TRUE]}
    [] d.state = "S3" -> {IF glue.n244 THEN [d EXCEPT !.state = "S4"] ELSE d}
    [] d.state = "S4" /\ d.left = 1 ->
         {[d EXCEPT !.state = "SI", !.strobe = FALSE, !.hrq = FALSE, !.left = 0]}
    [] d.state = "S4" /\ d.left > 1 ->
         {[d EXCEPT !.state = s, !.strobe = FALSE, !.left = d.left - 1] :
            s \in {"S1", "S2"}}
    [] OTHER -> {d}

DmaStep(access, hold) ==
  LET d == [dma EXCEPT !.pending = Noticed(access), !.prev = Sampled(access)]
  IN  (IF MayRequest(hold)
       THEN {[d EXCEPT !.state = "BusRequested", !.hrq = TRUE, !.left = n] :
               n \in 1 .. MaxBurst}
       ELSE {}) \cup Transfer(d)

\* The 8237A's port the command lines reach: ~DMA_CS is gated by ~AEN.
PortAccess(b) ==
  IF ~glue.holda /\ Command(b) \in DmaPorts THEN Command(b) ELSE "None"

(***************************************************************************)
(* The grant: U99, U52, U5 and U83, then a flip-flop of U98, then U67.     *)
(* U98 also makes AEN_BRD of HOLDA, a cycle later; U82 makes ~RDY/WAIT.    *)
(***************************************************************************)
\* Mutant of BusIdle: U101 sees the reads of the 8237A's ports too.
BusIdleNoPort(n242, active, access) == n242 /\ ~active /\ access = "None"

\* U5: a request, the status lines idle, no write to the 8237A.
BusIdle(n242, active, access) == n242 /\ ~active /\ access # "DmaW"

\* Mutant of RdyWaitBar: N-000244 is the latch's true output, pin 11 as 3Q.
RdyWaitBarUninverted == glue.rw

\* U98 latches ~(~RDY/WAIT) into N-000244 (pin 11 is ~3Q), which clears U82's
\* flip-flop; else N-000240, high, sets it.  A level low stays low.
RdyWaitBar == ~glue.rw /\ glue.n240

\* U64: an I/O command, or a memory read of the 8237A's.
N240(b, d) ==
  \/ d.strobe
  \/ Command(b) \in PortCycles
  \/ glue.holda /\ Command(b) = "MemR"

\* U67: N-000242 clears; its own ~Q, low, presets, and makes both outputs high.
Holda(n242) == ~glue.n230 \/ (n242 /\ glue.n238)

GlueStep(n242, active, access, b, d) ==
  [n238  |-> BusIdle(n242, active, access),
   holda |-> Holda(n242),
   n230  |-> ~n242 \/ (glue.n230 /\ ~glue.n238),
   aen   |-> glue.holda,
   n244  |-> ~glue.rw,
   rw    |-> RdyWaitBar,
   n240  |-> N240(b, d)]

\* 8284A: READY is low while the 8288 recovers and while the 8237A has AEN.
Ready(b) == b.hold = 0 /\ ~glue.holda

SeenStep(c, b) ==
  LET latched == \/ b.prevActive /\ ~bc.prevActive
                 \/ c.t # "T1" /\ seen.latched
  IN  [latched |-> latched,
       strobed |-> c.t # "T1" /\ (seen.strobed \/ (latched /\ b.strobe))]

(***************************************************************************)
(* One CLK.  late: the chips that decode S0-S2 before the 8088 has run and *)
(* so see the cycle before; only when a read enters T3, its data nets being*)
(* inputs then, and U5 runs after the 8288.  dmaFirst: the 8237A, U64 and  *)
(* U101 run before the 8288.                                               *)
(***************************************************************************)
EntersT3(c, ops) == c.t = "T3" /\ c.op \in ops

Clock(c, late, dmaFirst, hrqOfThisCycle) ==
  LET Sees(chip) == Active(IF chip \in late THEN cpu ELSE c)
      b      == BcStep(Sees("8288"), c.op, ~glue.holda, RdyWaitBar)
      before == IF dmaFirst THEN bc ELSE b
      access == PortAccess(before)
  IN \E d \in DmaStep(access, before.hold) :
       LET n242 == IF hrqOfThisCycle THEN d.hrq ELSE dma.hrq
       IN /\ cpu' = c /\ bc' = b /\ dma' = d
          /\ glue' = GlueStep(n242, Sees("U5"), access, before, d)
          /\ ready' = Ready(b)
          /\ seen' = SeenStep(c, b)

LateWhenIdle(c) ==
  IF EntersT3(c, Reads) THEN {{}, {"8288"}, {"8288", "U5"}} ELSE {{}}

LateWhenRequested(c) ==
  IF EntersT3(c, {"MemR"}) THEN {{"8288", "U5"}} ELSE LateWhenIdle(c)

\* One action per plan: the levels that choose the plan are those of the start
\* of the cycle.
ClockIdle ==
  /\ dma.state = "SI" /\ ~bc.inhibited
  /\ \E c \in CpuStep : \E late \in LateWhenIdle(c) : Clock(c, late, FALSE, FALSE)

ClockRequested ==
  /\ dma.state = "BusRequested"
  /\ \E c \in CpuStep : \E late \in LateWhenRequested(c) : Clock(c, late, FALSE, TRUE)

ClockTransfer ==
  /\ dma.state \in {"S1", "S2", "S3", "S4"}
  /\ \E c \in CpuStep : Clock(c, {}, TRUE, TRUE)

ClockRelease ==
  /\ dma.state = "SI" /\ bc.inhibited
  /\ \E c \in CpuStep : Clock(c, {}, TRUE, FALSE)

Next == ClockIdle \/ ClockRequested \/ ClockTransfer \/ ClockRelease

\* The clock thread calls evaluate for as long as the power is on.
Spec == Init /\ [][Next]_vars /\ WF_vars(Next)

(***************************************************************************)
(* Safety                                                                  *)
(***************************************************************************)
Access == {"None"} \cup DmaPorts

CpuType == [t : {"Ti", "T1", "T2", "T3", "Tw", "T4"}, op : Ops]

BcType == [cycle : {"None"} \cup Ops, strobe : BOOLEAN, commanding : BOOLEAN,
           prevActive : BOOLEAN, inhibited : BOOLEAN, hold : 0 .. 3]

GlueType == [n238 : BOOLEAN, holda : BOOLEAN, n230 : BOOLEAN, aen : BOOLEAN,
             n244 : BOOLEAN, rw : BOOLEAN, n240 : BOOLEAN]

DmaType == [state : {"SI", "BusRequested", "S1", "S2", "S3", "S4"},
            hrq : BOOLEAN, strobe : BOOLEAN, left : 0 .. MaxBurst,
            prev : Access, pending : Access]

SeenType == [latched : BOOLEAN, strobed : BOOLEAN]

\* Every variable stays in its range; in particular bus_hold_ in 0 .. 3.
TypeOK ==
  /\ cpu \in CpuType /\ bc \in BcType /\ glue \in GlueType
  /\ dma \in DmaType /\ ready \in BOOLEAN /\ seen \in SeenType

\* The 8288 and the 8237A never drive a command at the same time, although the
\* 8288 starts to recover while the 8237A's last strobes are still low.
OneMaster == ~(bc.strobe /\ dma.strobe)

\* The 8237A drives a command only while HOLDA and AEN_BRD give it the bus.
TransferOwnsBus == dma.strobe => glue.holda /\ glue.aen

\* While the 8288 re-runs the interrupted cycle (B1, B2) the 8237A is idle, has
\* no grant and asks for none: what evaluate_dreq's bus_hold() test is for.
RecoveryShielded ==
  bc.hold \in {1, 2} =>
    dma.state = "SI" /\ ~dma.hrq /\ ~glue.holda /\ ~glue.aen

\* The 8237A only executes a register access of the cycle in progress: the
\* command re-asserted after a transfer never repeats an access of its ports.
AccessIsCurrent ==
  dma.pending # "None" => seen.latched /\ dma.pending = cpu.op

\* A cycle that ends without its command having been issued follows a memory
\* write, whose command the 8288 re-asserts in its place: a grant that falls in
\* T3 of any other cycle finds ~RDY/WAIT high in T1 of the next or comes later.
LostOnlyAfterWrite == cpu.t = "T4" /\ ~seen.strobed => bc.cycle = "MemW"

\* U67 holds HOLDA for as long as the request stands, though the status lines
\* that granted it go active again.
GrantHeld == [][glue.holda /\ dma.hrq /\ dma'.hrq => glue'.holda]_vars

(***************************************************************************)
(* Liveness: the clock ticks                                               *)
(***************************************************************************)
\* The 8088 always finishes its bus cycle: READY comes back after every
\* transfer, however the recoveries and the requests fall.
CpuRuns == []<>(cpu.t = "T4")

\* A request is granted if the program makes, again and again, a cycle that is
\* not a write to the 8237A, which holds U5 off.
RequestGranted ==
  []<>(cpu.t = "T1" /\ cpu.op # "DmaW") =>
     (dma.state = "BusRequested" ~> dma.state = "S2")

=============================================================================
