------------------------------ MODULE BusProofs ------------------------------
(***************************************************************************)
(* Proofs about BusArbitration, for every program, every burst length and  *)
(* every evaluation order of the four plans: the 8237A drives commands     *)
(* only with the grant, the grant does not fall while the request stands,  *)
(* the 8288 never drives a command beside it, and recovers undisturbed.    *)
(* Then the processor's own cycle against the grant: an access that is     *)
(* strobed belongs to the cycle it is in, and only a memory write is lost. *)
(***************************************************************************)
EXTENDS BusArbitration, TLAPS

\* HRQ is up for as long as the 8237A is out of SI, a transfer has had HOLDA
\* for a clock at least, and S3 and S4 strobe.
ServiceInv ==
  /\ dma.hrq <=> dma.state # "SI"
  /\ dma.strobe <=> dma.state \in {"S3", "S4"}
  /\ dma.state \in {"S1", "S2", "S3", "S4"} => glue.holda /\ glue.aen

\* U67's preset: high until the grant, and low, so holding it, for as long as
\* the request that was granted stands.
PresetInv ==
  /\ ~glue.holda => glue.n230
  /\ glue.holda /\ dma.hrq => ~glue.n230

\* An inhibited 8288 strobes nothing and is at the start of a recovery or not
\* in one; B1 and B2 come after AEN_BRD has fallen.
RecoveryInv ==
  /\ bc.inhibited => ~bc.strobe /\ bc.hold \in {0, 3}
  /\ bc.hold \in {1, 2} => ~glue.aen

\* The inhibition along a service.  The 8288 is inhibited in S2 or, if ~RDY/WAIT
\* was high then, in S3 (S2 leaves rw set, so it is low in the next clock).  The
\* strobe of S3 makes ~RDY/WAIT rise through U64, so that S4 finds the recovery
\* begun, and stalled: in SI an inhibited 8288 is never without one.
InhibitInv ==
  /\ dma.state = "SI" => (bc.inhibited => bc.hold = 3) /\ (glue.holda => bc.inhibited)
  /\ dma.state = "BusRequested" => ~bc.inhibited /\ bc.hold = 0
  /\ dma.state = "S2" => bc.inhibited \/ (glue.rw /\ bc.hold = 0)
  /\ dma.state = "S3" => bc.inhibited /\ glue.n240 /\ (bc.hold = 0 => ~glue.rw)
  /\ dma.state \in {"S1", "S4"} => bc.inhibited /\ bc.hold = 3

BusInv == TypeOK /\ ServiceInv /\ PresetInv /\ RecoveryInv /\ InhibitInv

LEMMA InitBusInv == Init => BusInv
  BY BusAssumption
  DEF Init, BusInv, TypeOK, ServiceInv, PresetInv, RecoveryInv, InhibitInv,
      CpuType, BcType, GlueType, DmaType, SeenType, Access

(***************************************************************************)
(* One lemma for each chip                                                 *)
(***************************************************************************)
LEMMA CpuStepType ==
  ASSUME TypeOK, NEW c \in CpuStep
  PROVE  c \in CpuType
<1>1. CASE cpu.t \in {"Ti", "T4"}
  BY <1>1 DEF CpuStep, CpuType, TypeOK
<1>2. CASE cpu.t \notin {"Ti", "T4"}
  <2>1. \E t \in {"T2", "T3", "Tw", "T4"} : c = [cpu EXCEPT !.t = t]
    BY <1>2 DEF CpuStep
  <2> QED
    BY <2>1 DEF CpuType, TypeOK
<1> QED
  BY <1>1, <1>2

\* The status decoder alone never inhibits, uninhibits or starts a recovery.
LEMMA SequenceFacts ==
  ASSUME NEW b \in BcType, NEW active \in BOOLEAN, NEW op \in Ops,
         NEW cen \in BOOLEAN
  PROVE  /\ Sequence(b, active, op, cen) \in BcType
         /\ Sequence(b, active, op, cen).inhibited = b.inhibited
         /\ Sequence(b, active, op, cen).hold = b.hold
<1>1. CASE active /\ ~b.prevActive
  BY <1>1 DEF Sequence, BcType
<1>2. CASE active /\ b.prevActive
  BY <1>2 DEF Sequence, BcType
<1>3. CASE ~active
  BY <1>3 DEF Sequence, BcType
<1> QED
  BY <1>1, <1>2, <1>3 DEF BcType

\* Outside a recovery, by ~CEN and ~AEN.
LEMMA BcNormalFacts ==
  ASSUME NEW b0 \in BcType, b0.inhibited => ~b0.strobe,
         NEW active \in BOOLEAN, NEW op \in Ops,
         NEW cen \in BOOLEAN, NEW waitBar \in BOOLEAN,
         NEW b, b = BcNormal(b0, active, op, cen, waitBar)
  PROVE  /\ b \in BcType
         /\ ~cen /\ ~waitBar => b.inhibited /\ ~b.strobe /\ b.hold = b0.hold
         /\ (cen \/ waitBar) /\ b0.inhibited => b.inhibited /\ ~b.strobe /\ b.hold = 3
         /\ (cen \/ waitBar) /\ ~b0.inhibited => ~b.inhibited /\ b.hold = b0.hold
<1>1. CASE ~cen /\ ~waitBar
  BY <1>1 DEF BcNormal, Inhibit, BcType
<1>2. CASE (cen \/ waitBar) /\ b0.inhibited
  BY <1>2 DEF BcNormal, Inhibit, BcType
<1>3. CASE (cen \/ waitBar) /\ ~b0.inhibited
  <2>1. b = Sequence(b0, active, op, cen)
    BY <1>3 DEF BcNormal, Inhibit
  <2> QED
    BY <1>3, <2>1, SequenceFacts
<1> QED
  BY <1>1, <1>2, <1>3 DEF BcType

\* The 8288: with CEN Low it stalls a recovery or begins a stalled one, with
\* CEN High it advances.
LEMMA BcStepFacts ==
  ASSUME TypeOK, RecoveryInv, NEW active \in BOOLEAN, NEW op \in Ops,
         NEW cen \in BOOLEAN, NEW waitBar \in BOOLEAN,
         NEW b, b = BcStep(active, op, cen, waitBar)
  PROVE  /\ b \in BcType
         /\ b.inhibited => ~b.strobe /\ b.hold \in {0, 3}
         /\ b.hold \in {1, 2} => cen \/ b = bc
         /\ ~cen /\ bc.hold > 0 => b = bc
         /\ ~cen /\ bc.hold = 0 /\ ~waitBar => b.inhibited /\ b.hold = 0
         /\ ~cen /\ bc.hold = 0 /\ waitBar /\ bc.inhibited => b.inhibited /\ b.hold = 3
         /\ ~cen /\ bc.hold = 0 /\ waitBar /\ ~bc.inhibited => ~b.inhibited /\ b.hold = 0
         /\ cen /\ ~bc.inhibited => ~b.inhibited
         /\ cen /\ bc.inhibited /\ bc.hold = 0 => b.inhibited /\ b.hold = 3
         /\ cen /\ bc.inhibited /\ bc.hold = 3 => ~b.inhibited /\ b.hold = 2
         /\ cen /\ ~bc.inhibited /\ bc.hold = 0 => b.hold = 0
<1>1. bc \in BcType /\ bc.hold \in 0 .. 3
  BY DEF TypeOK, BcType
<1>2. CASE bc.hold > 0 /\ ~cen
  BY <1>1, <1>2 DEF BcStep, RecoveryInv
<1>3. CASE bc.hold = 3 /\ cen
  <2>1. b = Reassert(bc)
    BY <1>3 DEF BcStep
  <2>2. PICK s \in BOOLEAN, m \in BOOLEAN :
          b = [bc EXCEPT !.hold = 2, !.inhibited = FALSE, !.strobe = s, !.commanding = m]
    BY <2>1 DEF Reassert
  <2>3. b.hold = 2 /\ ~b.inhibited
    BY <1>1, <2>2 DEF BcType
  <2>4. b = [cycle |-> bc.cycle, strobe |-> s, commanding |-> m,
             prevActive |-> bc.prevActive, inhibited |-> FALSE, hold |-> 2]
    BY <1>1, <2>2 DEF BcType
  <2>5. b \in BcType
    BY <1>1, <2>4 DEF BcType
  <2> QED
    <3>1. b.inhibited => ~b.strobe /\ b.hold \in {0, 3}
      BY <2>3
    <3>2. b.hold \in {1, 2} => cen \/ b = bc
      BY <1>3
    <3>3. ~cen /\ bc.hold > 0 => b = bc
      BY <1>3
    <3>4. bc.hold # 0
      BY <1>3
    <3>5. cen /\ ~bc.inhibited => ~b.inhibited
      BY <2>3
    <3>6. cen /\ bc.inhibited /\ bc.hold = 3 => ~b.inhibited /\ b.hold = 2
      BY <2>3
    <3> QED
      BY <2>5, <3>1, <3>2, <3>3, <3>4, <3>5, <3>6
<1>4. CASE bc.hold = 2 /\ cen
  BY <1>1, <1>4 DEF BcStep, RecoveryInv, BcType
<1>5. CASE bc.hold = 0 \/ (bc.hold = 1 /\ cen)
  <2> DEFINE b0 == [bc EXCEPT !.hold = 0]
  <2>1. b0 \in BcType /\ b0.hold = 0 /\ b0.inhibited = bc.inhibited /\ b0.strobe = bc.strobe
    BY <1>1 DEF BcType
  <2>2. b = BcNormal(b0, active, op, cen, waitBar)
    BY <1>1, <1>5 DEF BcStep
  <2> HIDE DEF b0
  <2>3. /\ b \in BcType
        /\ ~cen /\ ~waitBar => b.inhibited /\ ~b.strobe /\ b.hold = 0
        /\ (cen \/ waitBar) /\ bc.inhibited => b.inhibited /\ ~b.strobe /\ b.hold = 3
        /\ (cen \/ waitBar) /\ ~bc.inhibited => ~b.inhibited /\ b.hold = 0
    BY <2>1, <2>2, BcNormalFacts DEF RecoveryInv
  <2> QED
    BY <1>1, <1>5, <2>3 DEF RecoveryInv
<1> QED
  BY <1>1, <1>2, <1>3, <1>4, <1>5

LEMMA PortAccessType ==
  ASSUME NEW b
  PROVE  PortAccess(b) \in Access
  BY DEF PortAccess, Access

\* The 8237A between two calls: what it has noticed is an access of its ports.
LEMMA SampledType ==
  ASSUME TypeOK, NEW access \in Access
  PROVE  Sampled(access) \in Access /\ Noticed(access) \in Access
<1>1. dma.prev \in Access
  BY DEF TypeOK, DmaType
<1> QED
  BY <1>1 DEF Sampled, Noticed, Access

\* A step of the 8237A: a new request, or none from SI, or the next state.
Moves(d, hold) ==
  \/ d.state = "BusRequested" /\ dma.state = "SI" /\ ~glue.holda /\ hold = 0
  \/ d.state = "BusRequested" /\ dma.state = "BusRequested" /\ ~glue.holda
  \/ d.state = "SI" /\ dma.state \in {"SI", "S4"}
  \/ d.state = "S2" /\ dma.state = "BusRequested" /\ glue.holda
  \/ d.state \in {"S1", "S2"} /\ dma.state = "S4"
  \/ d.state = "S2" /\ dma.state = "S1"
  \/ d.state = "S3" /\ dma.state \in {"S2", "S3"}
  \/ d.state = "S4" /\ dma.state \in {"S3", "S4"}

\* The 8237A, one call: HRQ and the strobes follow the state, and the state
\* moves as above.
LEMMA DmaStepFacts ==
  ASSUME TypeOK, ServiceInv, NEW access \in Access, NEW hold,
         NEW d \in DmaStep(access, hold)
  PROVE  /\ d \in DmaType
         /\ d.hrq <=> d.state # "SI"
         /\ d.strobe <=> d.state \in {"S3", "S4"}
         /\ Moves(d, hold)
         /\ d.pending = Noticed(access)
<1> DEFINE e == [dma EXCEPT !.pending = Noticed(access), !.prev = Sampled(access)]
<1>1. /\ e \in DmaType
      /\ e.state = dma.state /\ e.hrq = dma.hrq /\ e.strobe = dma.strobe
      /\ e.left = dma.left /\ e.pending = Noticed(access)
  BY SampledType DEF TypeOK, DmaType
<1>2. CASE /\ MayRequest(hold)
           /\ \E n \in 1 .. MaxBurst :
                d = [e EXCEPT !.state = "BusRequested", !.hrq = TRUE, !.left = n]
  <2>1. PICK n \in 1 .. MaxBurst :
          d = [e EXCEPT !.state = "BusRequested", !.hrq = TRUE, !.left = n]
    BY <1>2
  <2>2. n \in 0 .. MaxBurst
    BY BusAssumption
  <2>3. dma.state = "SI" /\ ~glue.holda /\ ~dma.strobe /\ hold = 0
    BY <1>2 DEF MayRequest, ServiceInv
  <2> QED
    BY <1>1, <2>1, <2>2, <2>3 DEF DmaType, Moves
<1>3. CASE d \in Transfer(e)
  <2>1. CASE dma.state = "SI"
    BY <1>1, <1>3, <2>1 DEF Transfer, ServiceInv, Moves
  <2>2. CASE dma.state = "BusRequested"
    BY ZenonT(30), <1>1, <1>3, <2>2 DEF Transfer, ServiceInv, DmaType, Moves
  <2>3. CASE dma.state = "S1"
    BY ZenonT(30), <1>1, <1>3, <2>3 DEF Transfer, ServiceInv, DmaType, Moves
  <2>4. CASE dma.state = "S2"
    BY ZenonT(30), <1>1, <1>3, <2>4 DEF Transfer, ServiceInv, DmaType, Moves
  <2>5. CASE dma.state = "S3"
    BY <1>1, <1>3, <2>5 DEF Transfer, ServiceInv, DmaType, Moves
  <2>6. CASE dma.state = "S4"
    <3>1. dma.hrq
      BY <2>6 DEF ServiceInv
    <3>2. \A m \in 0 .. MaxBurst : m > 1 => m - 1 \in 0 .. MaxBurst
      BY BusAssumption
    <3>3. 0 \in 0 .. MaxBurst
      BY BusAssumption
    <3>4. \/ d = [e EXCEPT !.state = "SI", !.strobe = FALSE, !.hrq = FALSE, !.left = 0]
          \/ e.left > 1 /\ d = [e EXCEPT !.state = "S1", !.strobe = FALSE, !.left = e.left - 1]
          \/ e.left > 1 /\ d = [e EXCEPT !.state = "S2", !.strobe = FALSE, !.left = e.left - 1]
          \/ d = e
      BY <1>1, <1>3, <2>6 DEF Transfer
    <3> QED
      BY ZenonT(30), <1>1, <2>6, <3>1, <3>2, <3>3, <3>4 DEF DmaType, ServiceInv, Moves
  <2> QED
    BY <2>1, <2>2, <2>3, <2>4, <2>5, <2>6 DEF TypeOK, DmaType
<1> QED
  BY <1>2, <1>3 DEF DmaStep

(***************************************************************************)
(* One clock, in whatever order the chips run                              *)
(***************************************************************************)
\* A request can only be seen a clock late while the 8237A is in SI: then U67
\* is clear, and stays so, in the clock in which the request rises.
LEMMA ClockKeepsBusInv ==
  ASSUME BusInv, NEW c \in CpuStep, NEW late, NEW dmaFirst \in BOOLEAN,
         NEW hrqOfThisCycle \in BOOLEAN, ~hrqOfThisCycle => dma.state = "SI",
         Clock(c, late, dmaFirst, hrqOfThisCycle)
  PROVE  BusInv' /\ (glue.holda /\ dma.hrq => glue'.holda)
<1> DEFINE stat    == Active(IF "8288" \in late THEN cpu ELSE c)
           idle    == Active(IF "U5" \in late THEN cpu ELSE c)
           cen     == ~glue.holda
           waitBar == RdyWaitBar
           before  == IF dmaFirst THEN bc ELSE bc'
           access  == PortAccess(before)
           n242    == IF hrqOfThisCycle THEN dma'.hrq ELSE dma.hrq
<1>1. /\ cpu' = c
      /\ bc' = BcStep(stat, c.op, cen, waitBar)
      /\ dma' \in DmaStep(access, before.hold)
      /\ glue' = GlueStep(n242, idle, access, before, dma')
      /\ ready' = Ready(bc')
      /\ seen' = SeenStep(c, bc')
  BY DEF Clock
<1>2. /\ stat \in BOOLEAN /\ idle \in BOOLEAN /\ cen \in BOOLEAN /\ waitBar \in BOOLEAN
      /\ access \in Access
      /\ cen <=> ~glue.holda
      /\ waitBar <=> ~glue.rw /\ glue.n240
  BY PortAccessType DEF Active, RdyWaitBar
<1>3. c \in CpuType /\ c.op \in Ops
  BY CpuStepType DEF BusInv, CpuType
<1> HIDE DEF stat, idle, cen, waitBar, access
<1>4. /\ bc' \in BcType
      /\ bc'.inhibited => ~bc'.strobe /\ bc'.hold \in {0, 3}
      /\ bc'.hold \in {1, 2} => cen \/ bc' = bc
      /\ ~cen /\ bc.hold > 0 => bc' = bc
      /\ ~cen /\ bc.hold = 0 /\ ~waitBar => bc'.inhibited /\ bc'.hold = 0
      /\ ~cen /\ bc.hold = 0 /\ waitBar /\ bc.inhibited => bc'.inhibited /\ bc'.hold = 3
      /\ ~cen /\ bc.hold = 0 /\ waitBar /\ ~bc.inhibited => ~bc'.inhibited /\ bc'.hold = 0
      /\ cen /\ ~bc.inhibited => ~bc'.inhibited
      /\ cen /\ bc.inhibited /\ bc.hold = 0 => bc'.inhibited /\ bc'.hold = 3
      /\ cen /\ bc.inhibited /\ bc.hold = 3 => ~bc'.inhibited /\ bc'.hold = 2
      /\ cen /\ ~bc.inhibited /\ bc.hold = 0 => bc'.hold = 0
  BY <1>1, <1>2, <1>3, BcStepFacts DEF BusInv
<1>5. /\ dma' \in DmaType
      /\ dma'.hrq <=> dma'.state # "SI"
      /\ dma'.strobe <=> dma'.state \in {"S3", "S4"}
      /\ Moves(dma', before.hold)
  BY <1>1, <1>2, DmaStepFacts DEF BusInv
<1>6. /\ glue'.holda <=> ~glue.n230 \/ (n242 /\ glue.n238)
      /\ glue'.n230 <=> ~n242 \/ (glue.n230 /\ ~glue.n238)
      /\ glue'.aen <=> glue.holda
      /\ glue'.rw <=> waitBar
      /\ dma'.strobe => glue'.n240
  BY <1>1 DEF GlueStep, Holda, N240, waitBar
<1>7. TypeOK'
  <2>1. glue' \in GlueType
    <3>1. n242 \in BOOLEAN
      BY <1>5 DEF BusInv, TypeOK, DmaType
    <3>2. glue.n230 \in BOOLEAN /\ glue.n238 \in BOOLEAN /\ glue.holda \in BOOLEAN
      BY DEF BusInv, TypeOK, GlueType
    <3> QED
      BY <1>1, <3>1, <3>2 DEF GlueStep, Holda, BusIdle, N240, RdyWaitBar, GlueType
  <2>2. ready' \in BOOLEAN
    BY <1>1 DEF Ready
  <2>3. seen' \in SeenType
    BY <1>1 DEF SeenStep, SeenType, BusInv, TypeOK
  <2> QED
    BY <1>1, <1>3, <1>4, <1>5, <2>1, <2>2, <2>3 DEF TypeOK
<1>8. glue.holda /\ dma.hrq => glue'.holda
  BY <1>6 DEF BusInv, PresetInv
<1>9. ServiceInv'
  BY <1>5, <1>6, <1>8 DEF Moves, ServiceInv, BusInv
<1>10. PresetInv'
  <2>1. ~n242 /\ dma'.hrq => ~glue.holda
    BY <1>5 DEF Moves, BusInv, ServiceInv
  <2> QED
    BY <1>6, <2>1 DEF BusInv, PresetInv
<1>11. RecoveryInv'
  <2>1. bc.hold \in {1, 2} => ~glue.holda
    BY DEF BusInv, TypeOK, DmaType, RecoveryInv, InhibitInv
  <2>2. bc'.hold \in {1, 2} => ~glue.holda
    BY <1>2, <1>4, <2>1
  <2> QED
    BY <1>4, <1>6, <2>2 DEF RecoveryInv
<1>12. InhibitInv'
  <2> USE DEF BusInv, InhibitInv
  <2>1. bc.hold \in 0 .. 3
    BY DEF TypeOK, BcType
  <2>2. CASE dma'.state = "SI"
    <3>1. CASE dma.state = "SI"
      <4>1. ~n242
        BY <1>5, <2>2, <3>1 DEF ServiceInv
      <4>2. glue'.holda => glue.holda
        BY <1>6, <4>1 DEF PresetInv
      <4>3. glue.holda => bc.inhibited /\ bc' = bc
        BY <1>2, <1>4, <3>1
      <4>4. bc'.inhibited => bc'.hold = 3
        BY <1>2, <1>4, <2>1, <3>1
      <4> QED
        BY <2>2, <4>2, <4>3, <4>4
    <3>2. CASE dma.state = "S4"
      BY <1>2, <1>4, <1>6, <2>1, <2>2, <3>2 DEF ServiceInv
    <3> QED
      BY <1>5, <2>2, <3>1, <3>2 DEF Moves
  <2>3. CASE dma'.state = "BusRequested"
    BY <1>2, <1>4, <1>5, <2>1, <2>3 DEF Moves
  <2>4. CASE dma'.state = "S1"
    BY <1>2, <1>4, <1>5, <2>1, <2>4 DEF Moves, ServiceInv
  <2>5. CASE dma'.state = "S2"
    BY <1>2, <1>4, <1>5, <1>6, <2>1, <2>5 DEF Moves, ServiceInv
  <2>6. CASE dma'.state = "S3"
    BY <1>2, <1>4, <1>5, <1>6, <2>1, <2>6 DEF Moves, ServiceInv
  <2>7. CASE dma'.state = "S4"
    BY <1>2, <1>4, <1>5, <2>1, <2>7 DEF Moves, ServiceInv
  <2> QED
    BY <1>5, <2>2, <2>3, <2>4, <2>5, <2>6, <2>7 DEF DmaType
<1> QED
  BY <1>7, <1>8, <1>9, <1>10, <1>11, <1>12 DEF BusInv

\* Each of the four plans is such a clock.
LEMMA StepKeepsBusInv ==
  ASSUME BusInv, [Next]_vars
  PROVE  BusInv' /\ (glue.holda /\ dma.hrq => glue'.holda)
<1>1. CASE ClockIdle
  BY <1>1, ClockKeepsBusInv DEF ClockIdle
<1>2. CASE ClockRequested
  BY <1>2, ClockKeepsBusInv DEF ClockRequested
<1>3. CASE ClockTransfer
  BY <1>3, ClockKeepsBusInv DEF ClockTransfer
<1>4. CASE ClockRelease
  BY <1>4, ClockKeepsBusInv DEF ClockRelease
<1>5. CASE UNCHANGED vars
  BY <1>5 DEF vars, BusInv, TypeOK, ServiceInv, PresetInv, RecoveryInv, InhibitInv
<1> QED
  BY <1>1, <1>2, <1>3, <1>4, <1>5 DEF Next

THEOREM BusInvariance == Spec => []BusInv
<1>1. BusInv /\ [Next]_vars => BusInv'
  BY StepKeepsBusInv
<1> QED
  BY InitBusInv, <1>1, PTL DEF Spec

(***************************************************************************)
(* The processor's cycle.  It is running (READY high), has been granted    *)
(* away a clock ago, is being served (AEN_BRD), or recovers.               *)
(***************************************************************************)
\* The 8288 holds the cycle in progress; or it was inhibited in that cycle's T1,
\* and holds the memory write before it; and it has issued what it holds.
Latest    == seen.latched /\ bc.cycle = cpu.op
Swallowed == ~seen.latched /\ ~seen.strobed /\ bc.cycle = "MemW"
Issued    == (Latest /\ seen.strobed) \/ Swallowed

\* The command on the lines is one that U64 makes wait states for.
PortCommand == bc.cycle \in PortCycles

\* Running.  ~RDY/WAIT rises in T2 of a port cycle, is low in T4 and high again
\* in T1 of the next: U64 has a command at the end of T2, U98 undoes it each
\* other clock, and the command lasts into T1.
RunInv ==
  /\ cpu.t = "Ti" => ~bc.strobe /\ ~bc.prevActive /\ ~glue.n240 /\ ~glue.rw
  /\ cpu.t = "T1" => /\ Latest /\ bc.prevActive /\ ~bc.strobe /\ ~bc.commanding
                     /\ ~glue.n240
  /\ cpu.t = "T2" => /\ Latest /\ seen.strobed /\ bc.prevActive /\ bc.strobe
                     /\ ~glue.rw /\ (glue.n240 <=> PortCommand)
  /\ cpu.t = "T3" => /\ Latest /\ seen.strobed /\ bc.strobe
                     /\ (glue.rw <=> PortCommand) /\ (glue.n240 <=> PortCommand)
  /\ cpu.t = "Tw" => /\ Issued /\ ~bc.prevActive /\ bc.strobe
                     /\ (glue.rw <=> PortCommand) /\ (glue.n240 <=> PortCommand)
  /\ cpu.t = "T4" => /\ Issued /\ ~bc.prevActive /\ bc.strobe
                     /\ ~glue.rw /\ (glue.n240 <=> PortCommand)

\* The grant falls in T4, or in T3 of a cycle whose plan runs U5 after the
\* status has gone idle and whose command does not hold U5 off; HOLDA follows
\* in T1, or in T4 of such a cycle.
Grantable == cpu.op \notin {"MemR", "DmaW"}

GrantInv ==
  /\ glue.n238 /\ ~glue.holda =>
       /\ dma.state = "BusRequested"
       /\ cpu.t = "T4" \/ (cpu.t = "T3" /\ Grantable)
  /\ glue.holda /\ ~glue.aen =>
       /\ dma.state = "BusRequested"
       /\ cpu.t = "T1" \/ (cpu.t = "T4" /\ Latest /\ Grantable)

\* Being served, the 8088 runs into its wait states and stays there.
ServeInv ==
  /\ glue.aen => /\ Latest \/ Swallowed
                 /\ cpu.t \in {"T1", "T2", "T3", "Tw"}
                 /\ dma.state # "BusRequested"
                 /\ ~glue.holda => dma.state = "SI" /\ bc.inhibited
  /\ dma.state = "S3" => cpu.t \in {"T2", "T3", "Tw"}
  /\ dma.state = "S4" => cpu.t \in {"T3", "Tw"}
  /\ dma.state = "S1" => cpu.t = "Tw"
  /\ dma.state = "SI" /\ bc.inhibited =>
       cpu.t = "Tw" /\ ~glue.n240 /\ (~glue.holda => ~glue.rw)
  /\ bc.hold = 3 => bc.inhibited /\ glue.aen

\* Re-asserted, the command waits out B1 and B2, the 8088 its wait states.
RecoverInv ==
  bc.hold \in {1, 2} =>
    /\ cpu.t = "Tw" /\ dma.state = "SI" /\ ~glue.holda
    /\ Issued /\ bc.strobe /\ ~glue.rw
    /\ glue.n240 <=> bc.hold = 1 /\ PortCommand

CycleInv ==
  /\ ready <=> bc.hold = 0 /\ ~glue.aen
  /\ ready => RunInv
  /\ GrantInv
  /\ ServeInv
  /\ RecoverInv
  /\ AccessIsCurrent

(***************************************************************************)
(* One clock, in fields                                                    *)
(***************************************************************************)
\* biu_run() walks T1 to T4; READY low holds it in Tw.
LEMMA CpuMoves ==
  ASSUME TypeOK, NEW c \in CpuStep
  PROVE  /\ cpu.t \in {"Ti", "T4"} => c.t = "T1"
         /\ cpu.t = "T1" => c.t = "T2"
         /\ cpu.t = "T2" => c.t = "T3"
         /\ cpu.t \in {"T3", "Tw"} => c.t = IF ready THEN "T4" ELSE "Tw"
         /\ c.t # "T1" => c.op = cpu.op
         /\ cpu.t \in {"Ti", "T1", "T2", "T3", "Tw", "T4"}
<1>t. cpu \in CpuType
  BY DEF TypeOK
<1>1. \A x : c = [cpu EXCEPT !.t = x] => c.t = x /\ c.op = cpu.op
  BY <1>t DEF CpuType
<1>2. CASE cpu.t \in {"Ti", "T4"}
  <2>1. \E o \in Ops : c = [t |-> "T1", op |-> o]
    BY <1>2 DEF CpuStep, Waits
  <2> QED
    BY <1>2, <2>1
<1>3. CASE cpu.t = "T1"
  <2>1. c = [cpu EXCEPT !.t = "T2"]
    BY <1>3 DEF CpuStep, Waits
  <2> QED
    BY <1>1, <1>3, <2>1
<1>4. CASE cpu.t = "T2"
  <2>1. c = [cpu EXCEPT !.t = "T3"]
    BY <1>4 DEF CpuStep, Waits
  <2> QED
    BY <1>1, <1>4, <2>1
<1>5. CASE cpu.t \in {"T3", "Tw"}
  <2>1. c = [cpu EXCEPT !.t = IF ready THEN "T4" ELSE "Tw"]
    BY <1>5 DEF CpuStep, Waits
  <2> QED
    BY <1>1, <1>5, <2>1
<1> QED
  BY <1>t, <1>2, <1>3, <1>4, <1>5 DEF CpuType

\* The status decoder: T1 latches, T2 strobes, idle it holds.
Decodes(b, active, op, cen) ==
  /\ active /\ ~bc.prevActive =>
       b.cycle = op /\ b.prevActive /\ ~b.strobe /\ ~b.commanding
  /\ active /\ bc.prevActive =>
       /\ b.cycle = bc.cycle /\ b.prevActive
       /\ b.strobe <=> bc.strobe \/ (cen /\ ~bc.commanding)
  /\ ~active => b.cycle = bc.cycle /\ ~b.prevActive /\ (b.strobe <=> bc.strobe)

\* The 8288 keeps the cycle it has latched and what it has seen of the status.
SameCycle(b) == b.cycle = bc.cycle /\ (b.prevActive <=> bc.prevActive)

\* With CEN High the 8288 decodes or re-asserts, with CEN Low it may decode
\* (~RDY/WAIT high) and never strobes.
LEMMA BcMoves ==
  ASSUME TypeOK, RecoveryInv, NEW active \in BOOLEAN, NEW op \in Ops,
         NEW cen \in BOOLEAN, NEW waitBar \in BOOLEAN,
         NEW b, b = BcStep(active, op, cen, waitBar)
  PROVE  /\ ~bc.inhibited /\ bc.hold = 0 /\ (cen \/ waitBar) => Decodes(b, active, op, cen)
         /\ bc.hold = 1 /\ cen => Decodes(b, active, op, cen) /\ b.hold = 0
         /\ bc.hold = 2 /\ cen => SameCycle(b) /\ (b.strobe <=> bc.strobe) /\ b.hold = 1
         /\ bc.hold = 3 /\ cen =>
              SameCycle(b) /\ (b.strobe <=> bc.cycle # "None") /\ b.hold = 2
         /\ bc.hold = 3 /\ ~cen => SameCycle(b)
         /\ bc.hold = 0 /\ bc.inhibited => SameCycle(b)
         /\ bc.hold = 0 /\ ~cen /\ ~waitBar => SameCycle(b)
<1>t. bc \in BcType /\ bc.hold \in 0 .. 3
  BY DEF TypeOK, BcType
<1>1. CASE bc.hold = 3 /\ cen
  <2>1. b = Reassert(bc)
    BY <1>1 DEF BcStep
  <2>2. /\ b.cycle = bc.cycle /\ (b.prevActive <=> bc.prevActive) /\ b.hold = 2
        /\ b.strobe <=> bc.cycle # "None"
    <3> DEFINE s == (bc.cycle # "None")
               m == (bc.commanding \/ s)
    <3>1. b = [bc EXCEPT !.hold = 2, !.inhibited = FALSE, !.strobe = s, !.commanding = m]
      BY <2>1 DEF Reassert
    <3>2. s \in BOOLEAN
      OBVIOUS
    <3> HIDE DEF s, m
    <3>3. b.cycle = bc.cycle /\ b.prevActive = bc.prevActive /\ b.hold = 2 /\ b.strobe = s
      BY <1>t, <3>1 DEF BcType
    <3>4. (b.prevActive <=> bc.prevActive) /\ (b.strobe <=> s)
      BY <3>2, <3>3, <1>t DEF BcType
    <3> QED
      BY <3>3, <3>4 DEF s
  <2>3. SameCycle(b) /\ b.hold = 2
    BY <2>2 DEF SameCycle
  <2>4. bc.hold \notin {0, 1, 2}
    BY <1>1
  <2> QED
    BY <1>1, <2>2, <2>3, <2>4
<1>2. CASE bc.hold = 2 /\ cen
  BY <1>2, <1>t DEF BcStep, BcType, SameCycle
<1>3. CASE bc.hold > 0 /\ ~cen
  BY <1>3, <1>t DEF BcStep, SameCycle
<1>4. CASE bc.hold = 0 \/ (bc.hold = 1 /\ cen)
  <2> DEFINE b0 == [bc EXCEPT !.hold = 0]
  <2>1. /\ b0 \in BcType /\ b0.hold = 0 /\ b0.inhibited = bc.inhibited
        /\ b0.strobe = bc.strobe /\ b0.cycle = bc.cycle
        /\ b0.prevActive = bc.prevActive /\ b0.commanding = bc.commanding
    BY <1>t DEF BcType
  <2>2. b = BcNormal(b0, active, op, cen, waitBar)
    BY <1>t, <1>4 DEF BcStep
  <2> HIDE DEF b0
  <2>3. CASE ~cen /\ ~waitBar
    <3>1. SameCycle(b)
      BY <2>1, <2>2, <2>3 DEF BcNormal, Inhibit, BcType, SameCycle
    <3> QED
      BY <1>4, <2>3, <3>1
  <2>4. CASE (cen \/ waitBar) /\ bc.inhibited
    <3>1. SameCycle(b)
      BY <2>1, <2>2, <2>4 DEF BcNormal, Inhibit, BcType, SameCycle
    <3>2. bc.hold # 1
      BY <2>4 DEF RecoveryInv
    <3> QED
      BY <1>4, <2>4, <3>1, <3>2
  <2>5. CASE (cen \/ waitBar) /\ ~bc.inhibited
    <3>1. b = Sequence(b0, active, op, cen)
      BY <2>1, <2>2, <2>5 DEF BcNormal, Inhibit
    <3>2. b.hold = 0
      BY <2>1, <3>1, SequenceFacts
    <3>3. Decodes(b, active, op, cen)
      <4>1. CASE active /\ ~b0.prevActive
        BY <2>1, <3>1, <4>1 DEF Sequence, BcType, Decodes
      <4>2. CASE active /\ b0.prevActive
        BY <2>1, <3>1, <4>2 DEF Sequence, BcType, Decodes
      <4>3. CASE ~active
        BY <2>1, <3>1, <4>3 DEF Sequence, BcType, Decodes
      <4> QED
        BY <2>1, <4>1, <4>2, <4>3 DEF BcType
    <3> QED
      BY <1>4, <2>5, <3>2, <3>3
  <2> QED
    BY <2>3, <2>4, <2>5
<1> QED
  BY <1>t, <1>1, <1>2, <1>3, <1>4

\* What a plan may do: the chips that see the status late, and the order.
Plan(c, late, dmaFirst, hrqOfThisCycle) ==
  /\ dmaFirst <=> dma.state \in {"S1", "S2", "S3", "S4"} \/ bc.inhibited
  /\ hrqOfThisCycle <=> dma.state # "SI"
  /\ late # {} => c.t = "T3" /\ c.op \in Reads
  /\ dma.state = "BusRequested" /\ c.t = "T3" /\ c.op = "MemR" => "U5" \in late

\* A clock, as the 8288 sees the status (stat), U5 sees it gone (idle), the
\* 8237A and U64 see the command lines (k) and U67 sees HRQ (n242).
Ticks(c, stat, idle, k, n242) ==
  LET access == IF ~glue.holda /\ k \in DmaPorts THEN k ELSE "None"
  IN  /\ cpu' = c /\ bc' = BcStep(stat, c.op, ~glue.holda, RdyWaitBar)
      /\ c.t # "T3" => (stat <=> c.t \in {"T1", "T2"}) /\ (idle <=> ~stat)
      /\ dma.state = "BusRequested" /\ c.t = "T3" /\ c.op = "MemR" => ~idle
      /\ ~bc.inhibited /\ dma.state \in {"SI", "BusRequested"} => k = Command(bc')
      /\ bc.inhibited => k = "None"
      /\ n242 <=> dma'.hrq /\ dma.state # "SI"
      /\ glue'.n238 <=> n242 /\ idle /\ access # "DmaW"
      /\ glue'.holda <=> ~glue.n230 \/ (n242 /\ glue.n238)
      /\ glue'.aen <=> glue.holda
      /\ glue'.rw <=> ~glue.rw /\ glue.n240
      /\ glue'.n240 <=> \/ dma'.strobe
                        \/ k \in PortCycles
                        \/ glue.holda /\ k = "MemR"
      /\ ready' <=> bc'.hold = 0 /\ ~glue.holda
      /\ seen'.latched <=> \/ bc'.prevActive /\ ~bc.prevActive
                           \/ c.t # "T1" /\ seen.latched
      /\ seen'.strobed <=> /\ c.t # "T1"
                           /\ seen.strobed \/ (seen'.latched /\ bc'.strobe)
      /\ \E hold : Moves(dma', hold)
      /\ dma'.pending # "None" => dma.state = "SI" /\ dma'.pending = access

LEMMA ClockTicks ==
  ASSUME BusInv, NEW c \in CpuStep, NEW late, NEW dmaFirst \in BOOLEAN,
         NEW hrqOfThisCycle \in BOOLEAN, Plan(c, late, dmaFirst, hrqOfThisCycle),
         Clock(c, late, dmaFirst, hrqOfThisCycle)
  PROVE  \E stat, idle, n242 \in BOOLEAN, k \in {"None"} \cup Ops :
            Ticks(c, stat, idle, k, n242)
<1> DEFINE stat   == Active(IF "8288" \in late THEN cpu ELSE c)
           act    == Active(IF "U5" \in late THEN cpu ELSE c)
           before == IF dmaFirst THEN bc ELSE bc'
           k      == Command(before)
           access == PortAccess(before)
           n242   == IF hrqOfThisCycle THEN dma'.hrq ELSE dma.hrq
<1>1. /\ cpu' = c
      /\ bc' = BcStep(stat, c.op, ~glue.holda, RdyWaitBar)
      /\ dma' \in DmaStep(access, before.hold)
      /\ glue' = GlueStep(n242, act, access, before, dma')
      /\ ready' = Ready(bc')
      /\ seen' = SeenStep(c, bc')
  BY DEF Clock
<1>2. /\ stat \in BOOLEAN /\ act \in BOOLEAN
      /\ access = IF ~glue.holda /\ k \in DmaPorts THEN k ELSE "None"
      /\ access \in Access
  BY PortAccessType DEF Active, PortAccess
<1>3. /\ c.t # "T3" => (stat <=> c.t \in {"T1", "T2"}) /\ (act <=> stat)
      /\ dma.state = "BusRequested" /\ c.t = "T3" /\ c.op = "MemR" => act
  <2>1. c.t # "T3" => late = {}
    BY DEF Plan
  <2>2. c.t = "T3" => cpu.t = "T2"
    BY CpuMoves DEF BusInv
  <2> QED
    BY <2>1, <2>2 DEF Plan, Active
<1>4. /\ ~bc.inhibited /\ dma.state \in {"SI", "BusRequested"} => k = Command(bc')
      /\ bc.inhibited => k = "None"
  BY DEF Plan, Command, BusInv, RecoveryInv
<1>5. /\ dma' \in DmaType
      /\ Moves(dma', before.hold)
      /\ dma'.pending = Noticed(access)
  BY <1>1, <1>2, DmaStepFacts DEF BusInv
<1>6. /\ n242 \in BOOLEAN
      /\ n242 <=> dma'.hrq /\ dma.state # "SI"
  BY <1>5 DEF Plan, BusInv, ServiceInv, TypeOK, DmaType
<1>k. k \in {"None"} \cup Ops
  <2>1. bc \in BcType /\ bc' \in BcType
    BY ClockKeepsBusInv DEF Plan, BusInv, TypeOK
  <2> QED
    BY <2>1 DEF Command, BcType
<1> HIDE DEF stat, act, before, access, n242
<1>7. dma'.pending # "None" => dma.state = "SI" /\ dma'.pending = access
  BY <1>5 DEF Noticed, Sampled
<1>8. /\ glue'.n238 <=> n242 /\ ~act /\ access # "DmaW"
      /\ glue'.holda <=> ~glue.n230 \/ (n242 /\ glue.n238)
      /\ glue'.aen <=> glue.holda
      /\ glue'.rw <=> ~glue.rw /\ glue.n240
      /\ glue'.n240 <=> dma'.strobe \/ k \in PortCycles \/ (glue.holda /\ k = "MemR")
  BY <1>1 DEF GlueStep, BusIdle, Holda, RdyWaitBar, N240
<1>9. /\ ready' <=> bc'.hold = 0 /\ ~glue.holda
      /\ seen'.latched <=> \/ bc'.prevActive /\ ~bc.prevActive
                           \/ c.t # "T1" /\ seen.latched
      /\ seen'.strobed <=> /\ c.t # "T1"
                           /\ seen.strobed \/ (seen'.latched /\ bc'.strobe)
  BY <1>1 DEF Ready, SeenStep
<1> HIDE DEF k
<1>10. Ticks(c, stat, ~act, k, n242)
  BY <1>1, <1>2, <1>3, <1>4, <1>5, <1>6, <1>7, <1>8, <1>9 DEF Ticks
<1> QED
  BY <1>2, <1>6, <1>10, <1>k

(***************************************************************************)
(* The four situations                                                     *)
(***************************************************************************)
\* What the lemmas above say of a clock.
LEMMA TickFacts ==
  ASSUME BusInv, NEW c \in CpuStep,
         NEW stat \in BOOLEAN, NEW idle \in BOOLEAN, NEW n242 \in BOOLEAN, NEW k,
         Ticks(c, stat, idle, k, n242)
  PROVE  /\ ~bc.inhibited /\ bc.hold = 0 /\ ~glue.holda =>
              Decodes(bc', stat, c.op, TRUE) /\ ~bc'.inhibited /\ bc'.hold = 0
         /\ ~bc.inhibited /\ bc.hold = 0 /\ glue.holda /\ RdyWaitBar =>
              Decodes(bc', stat, c.op, FALSE) /\ ~bc'.inhibited /\ bc'.hold = 0
         /\ bc.hold = 0 /\ glue.holda /\ ~RdyWaitBar =>
              SameCycle(bc') /\ bc'.inhibited /\ bc'.hold = 0
         /\ bc.hold = 0 /\ bc.inhibited => SameCycle(bc')
         /\ bc.hold = 1 /\ ~glue.holda =>
              Decodes(bc', stat, c.op, TRUE) /\ bc'.hold = 0
         /\ bc.hold = 2 /\ ~glue.holda =>
              SameCycle(bc') /\ (bc'.strobe <=> bc.strobe) /\ bc'.hold = 1
         /\ bc.hold = 3 /\ ~glue.holda =>
              SameCycle(bc') /\ (bc'.strobe <=> bc.cycle # "None") /\ bc'.hold = 2
         /\ bc.hold = 3 /\ glue.holda => SameCycle(bc') /\ bc'.hold = 3 /\ bc'.inhibited = bc.inhibited
<1> DEFINE cen == ~glue.holda
<1>1. TypeOK /\ RecoveryInv /\ (cen <=> ~glue.holda) /\ cen \in BOOLEAN
  BY DEF BusInv
<1>2. bc' = BcStep(stat, c.op, cen, RdyWaitBar)
  BY DEF Ticks
<1>3. RdyWaitBar \in BOOLEAN
  BY DEF RdyWaitBar
<1>4. c.op \in Ops
  BY <1>1, CpuStepType DEF CpuType
<1>5. bc.hold \in 0 .. 3
  BY <1>1 DEF TypeOK, BcType
<1> HIDE DEF cen
<1>6. /\ ~bc.inhibited /\ bc.hold = 0 /\ (cen \/ RdyWaitBar) =>
           Decodes(bc', stat, c.op, cen)
      /\ bc.hold = 1 /\ cen => Decodes(bc', stat, c.op, cen) /\ bc'.hold = 0
      /\ bc.hold = 2 /\ cen => SameCycle(bc') /\ (bc'.strobe <=> bc.strobe) /\ bc'.hold = 1
      /\ bc.hold = 3 /\ cen =>
           SameCycle(bc') /\ (bc'.strobe <=> bc.cycle # "None") /\ bc'.hold = 2
      /\ bc.hold = 3 /\ ~cen => SameCycle(bc')
      /\ bc.hold = 0 /\ bc.inhibited => SameCycle(bc')
      /\ bc.hold = 0 /\ ~cen /\ ~RdyWaitBar => SameCycle(bc')
  BY <1>1, <1>2, <1>3, <1>4, BcMoves
<1>7. /\ ~cen /\ bc.hold > 0 => bc' = bc
      /\ ~cen /\ bc.hold = 0 /\ ~RdyWaitBar => bc'.inhibited /\ bc'.hold = 0
      /\ ~cen /\ bc.hold = 0 /\ RdyWaitBar /\ ~bc.inhibited => ~bc'.inhibited /\ bc'.hold = 0
      /\ cen /\ ~bc.inhibited => ~bc'.inhibited
      /\ cen /\ ~bc.inhibited /\ bc.hold = 0 => bc'.hold = 0
  BY <1>1, <1>2, <1>3, <1>4, BcStepFacts
<1>8. /\ cen => Decodes(bc', stat, c.op, cen) <=> Decodes(bc', stat, c.op, TRUE)
      /\ ~cen => Decodes(bc', stat, c.op, cen) <=> Decodes(bc', stat, c.op, FALSE)
  BY DEF Decodes
<1>9. CASE ~glue.holda
  <2>1. cen
    BY <1>1, <1>9
  <2>2. Decodes(bc', stat, c.op, cen) <=> Decodes(bc', stat, c.op, TRUE)
    BY <1>8, <2>1
  <2> QED
    BY <1>6, <1>7, <1>9, <2>1, <2>2
<1>10. CASE glue.holda
  <2>1. ~cen
    BY <1>1, <1>10
  <2>2. Decodes(bc', stat, c.op, cen) <=> Decodes(bc', stat, c.op, FALSE)
    BY <1>8, <2>1
  <2>3. bc.hold = 3 => bc.hold > 0
    OBVIOUS
  <2> QED
    BY <1>6, <1>7, <1>10, <2>1, <2>2, <2>3
<1> QED
  BY <1>9, <1>10

\* An access the 8237A notices is the command the 8288 drives: it is of the
\* cycle in progress, unless that is no access of its ports at all.
LEMMA NoticedIsCurrent ==
  ASSUME NEW c, NEW stat, NEW idle, NEW n242, NEW k, Ticks(c, stat, idle, k, n242),
         k \in {"None", Command(bc')},
         ~bc'.strobe \/ Latest' \/ Swallowed'
  PROVE  AccessIsCurrent'
<1>1. dma'.pending # "None" => dma'.pending = k /\ k \in DmaPorts
  BY DEF Ticks
<1>2. k \in DmaPorts => bc'.strobe /\ bc'.cycle = k
  BY DEF Command, DmaPorts
<1> QED
  BY <1>1, <1>2 DEF AccessIsCurrent, Latest, Swallowed, DmaPorts

\* The 8088 has READY and the bus is its own: it moves on, and so does the 8288.
LEMMA RunningClock ==
  ASSUME BusInv, BusInv', CycleInv, ready, ~glue.holda, NEW c \in CpuStep,
         NEW stat \in BOOLEAN, NEW idle \in BOOLEAN, NEW n242 \in BOOLEAN, NEW k,
         Ticks(c, stat, idle, k, n242)
  PROVE  CycleInv'
<1>1. /\ bc.hold = 0 /\ ~glue.aen /\ RunInv /\ GrantInv
      /\ dma.state \in {"SI", "BusRequested"} /\ ~bc.inhibited
  BY DEF CycleInv, BusInv, TypeOK, DmaType, ServiceInv, InhibitInv
<1>2. Decodes(bc', stat, c.op, TRUE) /\ ~bc'.inhibited /\ bc'.hold = 0
  BY <1>1, TickFacts
<1>3. /\ k = Command(bc') /\ cpu' = c /\ ready' /\ ~glue'.aen
      /\ glue'.rw <=> ~glue.rw /\ glue.n240
  BY <1>1, <1>2 DEF Ticks
<1>4. /\ dma'.state \in {"SI", "BusRequested"}
      /\ glue'.n240 <=> k \in PortCycles
  BY <1>1, <1>3 DEF Ticks, BusInv, TypeOK, DmaType, ServiceInv
<1>5. /\ seen'.latched <=> (bc'.prevActive /\ ~bc.prevActive) \/ (c.t # "T1" /\ seen.latched)
      /\ seen'.strobed <=> c.t # "T1" /\ (seen.strobed \/ (seen'.latched /\ bc'.strobe))
  BY DEF Ticks
<1>6. /\ glue'.holda => /\ glue.n238 /\ dma.state = "BusRequested"
                        /\ cpu.t = "T4" \/ (cpu.t = "T3" /\ Grantable)
      /\ dma.state = "BusRequested" => dma'.state = "BusRequested"
      /\ glue'.n238 => /\ dma.state = "BusRequested" /\ idle /\ k # "DmaW"
  BY <1>1 DEF Ticks, Moves, GrantInv, DmaPorts, BusInv, PresetInv
<1>7. TypeOK
  BY DEF BusInv
<1>8. RunInv' /\ GrantInv' /\ (~bc'.strobe \/ Latest' \/ Swallowed') => CycleInv'
  <2>1. (~bc'.strobe \/ Latest' \/ Swallowed') => AccessIsCurrent'
    BY <1>3, NoticedIsCurrent
  <2> QED
    BY <1>2, <1>3, <1>4, <2>1 DEF CycleInv, ServeInv, RecoverInv
<1>9. CASE cpu.t \in {"Ti", "T4"}
  <2>1. c.t = "T1" /\ stat /\ ~idle /\ ~bc.prevActive
    BY <1>1, <1>7, <1>9, CpuMoves DEF Ticks, RunInv
  <2>2. /\ bc'.cycle = c.op /\ bc'.prevActive /\ ~bc'.strobe /\ ~bc'.commanding
        /\ seen'.latched
    BY <1>2, <1>5, <2>1 DEF Decodes
  <2>3. ~glue'.n240 /\ ~glue'.n238
    BY <1>3, <1>4, <1>6, <2>1, <2>2 DEF Command, PortCycles
  <2>4. RunInv' /\ GrantInv'
    BY <1>3, <1>6, <2>1, <2>2, <2>3 DEF RunInv, Latest, GrantInv
  <2> QED
    BY <1>8, <2>2, <2>4
<1>10. CASE cpu.t = "T1"
  <2>1. c.t = "T2" /\ c.op = cpu.op /\ stat /\ ~idle
    BY <1>7, <1>10, CpuMoves DEF Ticks
  <2>2. /\ Latest /\ bc.prevActive /\ ~bc.commanding /\ ~glue.n240
    BY <1>1, <1>10 DEF RunInv
  <2>3. bc'.cycle = c.op /\ bc'.prevActive /\ bc'.strobe
    BY <1>2, <2>1, <2>2 DEF Decodes, Latest
  <2>4. seen'.latched /\ seen'.strobed /\ ~glue'.rw /\ ~glue'.n238 /\ ~glue'.holda
    BY <1>3, <1>5, <1>6, <1>10, <2>1, <2>2, <2>3 DEF Latest
  <2>5. RunInv' /\ GrantInv' /\ Latest'
    BY <1>3, <1>4, <2>1, <2>3, <2>4 DEF RunInv, Latest, GrantInv, Command, PortCommand
  <2> QED
    BY <1>8, <2>5
<1>11. CASE cpu.t = "T2"
  <2>1. c.t = "T3" /\ c.op = cpu.op
    BY <1>7, <1>11, CpuMoves
  <2>2. /\ Latest /\ seen.strobed /\ bc.prevActive /\ bc.strobe
        /\ ~glue.rw /\ (glue.n240 <=> PortCommand)
    BY <1>1, <1>11 DEF RunInv
  <2>3. bc'.cycle = c.op /\ bc'.cycle = bc.cycle /\ bc'.strobe
    BY <1>2, <2>1, <2>2 DEF Decodes, Latest
  <2>4. /\ seen'.latched /\ seen'.strobed /\ ~glue'.holda
        /\ glue'.rw <=> bc'.cycle \in PortCycles
    BY <1>3, <1>5, <1>6, <1>11, <2>1, <2>2, <2>3 DEF Latest, PortCommand
  <2>5. glue'.n238 => c.op \notin {"MemR", "DmaW"}
    BY <1>3, <1>6, <2>1, <2>3 DEF Ticks, Command
  <2>6. RunInv' /\ GrantInv' /\ Latest'
    BY <1>3, <1>4, <1>6, <2>1, <2>3, <2>4, <2>5
    DEF RunInv, Latest, GrantInv, Grantable, Command, PortCommand
  <2> QED
    BY <1>8, <2>6
<1>12. CASE cpu.t \in {"T3", "Tw"}
  <2>1. c.t = "T4" /\ c.op = cpu.op /\ ~stat
    BY <1>7, <1>12, CpuMoves DEF Ticks
  <2>2. /\ Issued /\ bc.strobe /\ (cpu.t = "T3" => Latest)
        /\ (glue.rw <=> PortCommand) /\ (glue.n240 <=> PortCommand)
    BY <1>1, <1>12 DEF RunInv, Issued
  <2>3. bc'.cycle = bc.cycle /\ bc'.strobe /\ ~bc'.prevActive
    BY <1>2, <2>1, <2>2 DEF Decodes
  <2>4. /\ seen'.latched <=> seen.latched
        /\ seen'.strobed <=> seen.strobed \/ seen.latched
        /\ ~glue'.rw
    BY <1>3, <1>5, <2>1, <2>2, <2>3
  <2>5. Issued' /\ (cpu.t = "T3" => Latest')
    BY <1>3, <2>1, <2>2, <2>3, <2>4 DEF Issued, Latest, Swallowed
  <2>6. RunInv'
    BY <1>3, <1>4, <2>1, <2>3, <2>4, <2>5 DEF RunInv, Command, PortCommand
  <2>7. GrantInv'
    BY <1>3, <1>6, <1>12, <2>1, <2>5 DEF GrantInv, Grantable
  <2> QED
    BY <1>8, <2>5, <2>6, <2>7 DEF Issued
<1> QED
  BY <1>7, <1>9, <1>10, <1>11, <1>12, CpuMoves

\* HOLDA has risen a clock ago: T1 is latched unless the command before it left
\* ~RDY/WAIT low, and then that was a memory write.
LEMMA GrantedClock ==
  ASSUME BusInv, BusInv', CycleInv, ready, glue.holda, NEW c \in CpuStep,
         NEW stat \in BOOLEAN, NEW idle \in BOOLEAN, NEW n242 \in BOOLEAN, NEW k,
         Ticks(c, stat, idle, k, n242)
  PROVE  CycleInv'
<1>1. /\ bc.hold = 0 /\ ~glue.aen /\ RunInv /\ GrantInv
      /\ dma.state = "BusRequested" /\ ~bc.inhibited
      /\ cpu.t = "T1" \/ (cpu.t = "T4" /\ Latest /\ Grantable)
  BY DEF CycleInv, BusInv, InhibitInv, GrantInv
<1>2. /\ RdyWaitBar =>
           Decodes(bc', stat, c.op, FALSE) /\ ~bc'.inhibited /\ bc'.hold = 0
      /\ ~RdyWaitBar => SameCycle(bc') /\ bc'.inhibited /\ bc'.hold = 0
      /\ bc'.hold = 0
  BY <1>1, TickFacts
<1>3. /\ cpu' = c /\ ~ready' /\ glue'.aen /\ glue'.holda /\ dma'.state = "S2"
      /\ RdyWaitBar <=> ~glue.rw /\ glue.n240
      /\ dma'.pending = "None"
  BY <1>1 DEF Ticks, Moves, BusInv, PresetInv, ServiceInv, RdyWaitBar
<1>4. /\ seen'.latched <=> (bc'.prevActive /\ ~bc.prevActive) \/ (c.t # "T1" /\ seen.latched)
      /\ seen'.strobed <=> c.t # "T1" /\ (seen.strobed \/ (seen'.latched /\ bc'.strobe))
  BY DEF Ticks
<1>5. TypeOK
  BY DEF BusInv
<1>6. (Latest' \/ Swallowed') /\ c.t \in {"T1", "T2"}
  <2>1. CASE cpu.t = "T1"
    <3>1. c.t = "T2" /\ c.op = cpu.op /\ Latest /\ ~glue.n240
      BY <1>1, <1>5, <2>1, CpuMoves DEF RunInv
    <3>2. SameCycle(bc')
      BY <1>2, <1>3, <3>1
    <3> QED
      BY <1>3, <1>4, <3>1, <3>2 DEF Latest, SameCycle
  <2>2. CASE cpu.t = "T4"
    <3>1. /\ c.t = "T1" /\ stat /\ ~bc.prevActive /\ ~glue.rw
          /\ glue.n240 <=> cpu.op \in PortCycles
          /\ bc.cycle = cpu.op /\ cpu.op \in Ops
      BY <1>1, <1>5, <2>2, CpuMoves DEF RunInv, Ticks, Latest, PortCommand, TypeOK, CpuType
    <3>2. CASE RdyWaitBar
      <4>1. bc'.cycle = c.op /\ bc'.prevActive
        BY <1>2, <3>1, <3>2 DEF Decodes
      <4> QED
        BY <1>3, <1>4, <3>1, <4>1 DEF Latest
    <3>3. CASE ~RdyWaitBar
      <4>1. bc.cycle = "MemW"
        BY <1>1, <1>3, <2>2, <3>1, <3>3, BusAssumption DEF Grantable, BusCycles
      <4>2. bc'.cycle = bc.cycle /\ ~bc'.prevActive
        BY <1>2, <3>1, <3>3 DEF SameCycle
      <4> QED
        BY <1>3, <1>4, <3>1, <4>1, <4>2 DEF Swallowed
    <3> QED
      BY <3>2, <3>3
  <2> QED
    BY <1>1, <1>5, <2>1, <2>2, CpuMoves
<1> QED
  BY <1>2, <1>3, <1>6
  DEF CycleInv, GrantInv, ServeInv, RecoverInv, AccessIsCurrent

\* AEN_BRD is up: READY is low, and the inhibited 8288 keeps the cycle it holds
\* until HOLDA has fallen and it asserts that cycle's command.
LEMMA ServedClock ==
  ASSUME BusInv, BusInv', CycleInv, glue.aen, NEW c \in CpuStep,
         NEW stat \in BOOLEAN, NEW idle \in BOOLEAN, NEW n242 \in BOOLEAN, NEW k,
         Ticks(c, stat, idle, k, n242)
  PROVE  CycleInv'
<1>1. /\ ~ready /\ ServeInv /\ (Latest \/ Swallowed) /\ bc.hold \in {0, 3}
      /\ cpu.t \in {"T1", "T2", "T3", "Tw"} /\ dma.state # "BusRequested"
      /\ ~glue.holda => dma.state = "SI" /\ bc.inhibited /\ bc.hold = 3
  BY DEF CycleInv, ServeInv, BusInv, TypeOK, BcType, RecoveryInv, InhibitInv
<1>2. TypeOK
  BY DEF BusInv
<1>3. /\ c.t \in {"T2", "T3", "Tw"} /\ c.op = cpu.op
      /\ cpu.t \in {"T2", "T3", "Tw"} => c.t \in {"T3", "Tw"}
      /\ cpu.t \in {"T3", "Tw"} => c.t = "Tw"
  BY <1>1, <1>2, CpuMoves
<1>4. /\ SameCycle(bc')
      /\ bc.hold = 3 /\ glue.holda => bc'.hold = 3 /\ (bc'.inhibited <=> bc.inhibited)
      /\ ~glue.holda => (bc'.strobe <=> bc.cycle # "None") /\ bc'.hold = 2
  <2>1. bc.hold = 0 => bc.inhibited \/ ~RdyWaitBar
    BY <1>1 DEF BusInv, TypeOK, DmaType, InhibitInv, RdyWaitBar
  <2> QED
    BY <1>1, <2>1, TickFacts
<1>5. /\ cpu' = c
      /\ seen'.latched <=> seen.latched
      /\ seen'.strobed <=> seen.strobed \/ (seen.latched /\ bc'.strobe)
  BY <1>3, <1>4 DEF Ticks, SameCycle
<1>6. Latest' \/ Swallowed'
  BY <1>1, <1>3, <1>4, <1>5 DEF Latest, Swallowed, SameCycle
<1>7. CASE glue.holda
  <2>1. glue'.aen /\ ~ready' /\ dma'.pending = "None" /\ dma'.state # "BusRequested"
    BY <1>1, <1>7 DEF Ticks, Moves
  <2>2. ~glue'.holda =>
          /\ dma.state = "SI" /\ dma'.state = "SI" /\ bc.hold = 3 /\ bc'.inhibited
          /\ ~glue'.n238 /\ ~glue'.rw
    <3> SUFFICES ASSUME ~glue'.holda
                 PROVE  /\ dma.state = "SI" /\ dma'.state = "SI" /\ bc.hold = 3
                        /\ bc'.inhibited /\ ~glue'.n238 /\ ~glue'.rw
      OBVIOUS
    <3>1. dma.state = "SI" /\ bc.inhibited /\ bc.hold = 3
      BY <1>7 DEF Ticks, BusInv, PresetInv, ServiceInv, InhibitInv
    <3>2. dma'.state = "SI" /\ ~glue'.n238 /\ ~glue'.rw
      BY <1>1, <1>7, <3>1 DEF Ticks, Moves, ServeInv
    <3> QED
      BY <1>4, <1>7, <3>1, <3>2
  <2>3. GrantInv'
    BY <2>1, <2>2 DEF GrantInv
  <2>4. ServeInv'
    <3>1. /\ dma'.state = "S3" => cpu'.t \in {"T2", "T3", "Tw"}
          /\ dma'.state = "S4" => cpu'.t \in {"T3", "Tw"}
          /\ dma'.state = "S1" => cpu'.t = "Tw"
      BY <1>1, <1>3, <1>5 DEF Ticks, Moves, ServeInv
    <3>2. dma'.state = "SI" => cpu'.t = "Tw" /\ bc.inhibited
      BY <1>1, <1>3, <1>5, <1>7 DEF Ticks, Moves, ServeInv, BusInv, InhibitInv
    <3>3. dma'.state = "SI" => ~glue'.n240
      BY <3>2 DEF Ticks, BusInv, ServiceInv, PortCycles
    <3>4. bc'.hold = 3 => bc'.inhibited
      BY <2>1, <2>2 DEF BusInv, TypeOK, DmaType, InhibitInv
    <3> QED
      BY <1>3, <1>5, <1>6, <2>1, <2>2, <3>1, <3>2, <3>3, <3>4 DEF ServeInv
  <2>5. RecoverInv'
    BY <2>1 DEF RecoverInv, BusInv, RecoveryInv
  <2> QED
    BY <2>1, <2>3, <2>4, <2>5 DEF CycleInv, AccessIsCurrent
<1>8. CASE ~glue.holda
  <2>1. dma.state = "SI" /\ bc.inhibited /\ bc.hold = 3 /\ cpu.t = "Tw" /\ ~glue.n240
    BY <1>1, <1>8 DEF ServeInv
  <2>2. /\ bc'.hold = 2 /\ bc'.strobe /\ bc'.cycle = bc.cycle
    <3>1. bc.cycle # "None"
      BY <1>1, <1>2, BusAssumption DEF Latest, Swallowed, TypeOK, CpuType,
            BusCycles, PortCycles
    <3> QED
      BY <1>4, <1>8, <3>1 DEF SameCycle
  <2>3. /\ ~glue'.aen /\ ~glue'.holda /\ ~glue'.n238 /\ ~glue'.rw /\ ~ready' /\ k = "None"
    BY <1>8, <2>1, <2>2 DEF Ticks, BusInv, PresetInv
  <2>4. dma'.state = "SI"
    BY <2>1, <2>2 DEF Ticks, Moves, BusInv, InhibitInv
  <2>5. ~glue'.n240
    BY <2>3, <2>4 DEF Ticks, BusInv, ServiceInv, PortCycles
  <2>6. Issued'
    BY <1>5, <1>6, <2>2 DEF Issued, Latest, Swallowed
  <2>7. AccessIsCurrent'
    BY <2>3, <1>6, NoticedIsCurrent
  <2>8. RecoverInv'
    BY <1>3, <1>5, <2>1, <2>2, <2>3, <2>4, <2>5, <2>6 DEF RecoverInv
  <2>9. ServeInv'
    BY <2>2, <2>3, <2>4 DEF ServeInv, BusInv, InhibitInv
  <2> QED
    BY <2>2, <2>3, <2>7, <2>8, <2>9 DEF CycleInv, GrantInv
<1> QED
  BY <1>7, <1>8

\* B1 and B2: the command stands and the 8088 waits for READY.
LEMMA RecoveringClock ==
  ASSUME BusInv, BusInv', CycleInv, bc.hold \in {1, 2}, NEW c \in CpuStep,
         NEW stat \in BOOLEAN, NEW idle \in BOOLEAN, NEW n242 \in BOOLEAN, NEW k,
         Ticks(c, stat, idle, k, n242)
  PROVE  CycleInv'
<1>1. /\ ~ready /\ cpu.t = "Tw" /\ dma.state = "SI" /\ ~glue.holda /\ ~bc.inhibited
      /\ Issued /\ bc.strobe /\ ~glue.rw
      /\ glue.n240 <=> bc.hold = 1 /\ PortCommand
  BY DEF CycleInv, RecoverInv, BusInv, RecoveryInv
<1>2. TypeOK
  BY DEF BusInv
<1>3. c.t = "Tw" /\ c.op = cpu.op /\ cpu' = c /\ ~stat
  BY <1>1, <1>2, CpuMoves DEF Ticks
<1>4. /\ bc'.cycle = bc.cycle /\ bc'.strobe
      /\ bc'.prevActive => bc.prevActive
      /\ bc.hold = 2 => bc'.hold = 1
      /\ bc.hold = 1 => bc'.hold = 0 /\ ~bc'.prevActive
  BY <1>1, <1>3, TickFacts DEF SameCycle, Decodes
<1>5. /\ seen'.latched <=> seen.latched
      /\ seen'.strobed <=> seen.strobed \/ seen.latched
  BY <1>3, <1>4 DEF Ticks
<1>6. Issued'
  BY <1>1, <1>3, <1>4, <1>5 DEF Issued, Latest, Swallowed
<1>7. /\ ~glue'.aen /\ ~glue'.holda /\ ~glue'.n238 /\ k = Command(bc')
      /\ glue'.rw <=> bc.hold = 1 /\ PortCommand
      /\ ready' <=> bc'.hold = 0
  BY <1>1 DEF Ticks, BusInv, PresetInv
<1>8. /\ dma'.state \in {"SI", "BusRequested"}
      /\ bc'.hold # 0 => dma'.state = "SI"
  BY <1>1 DEF Ticks, Moves, BusInv, InhibitInv
<1>9. glue'.n240 <=> PortCommand'
  BY <1>1, <1>4, <1>7, <1>8 DEF Ticks, Command, PortCommand, BusInv, ServiceInv
<1>10. AccessIsCurrent'
  BY <1>6, <1>7, NoticedIsCurrent DEF Issued
<1>11. ready' => RunInv'
  BY <1>3, <1>4, <1>6, <1>7, <1>9 DEF RunInv, PortCommand
<1>12. RecoverInv'
  BY <1>3, <1>4, <1>6, <1>7, <1>8, <1>9 DEF RecoverInv
<1>13. ServeInv'
  BY <1>4, <1>7, <1>8 DEF ServeInv, BusInv, InhibitInv
<1> QED
  BY <1>7, <1>10, <1>11, <1>12, <1>13 DEF CycleInv, GrantInv

LEMMA ClockKeepsCycleInv ==
  ASSUME BusInv, CycleInv, NEW c \in CpuStep, NEW late, NEW dmaFirst \in BOOLEAN,
         NEW hrqOfThisCycle \in BOOLEAN, Plan(c, late, dmaFirst, hrqOfThisCycle),
         Clock(c, late, dmaFirst, hrqOfThisCycle)
  PROVE  CycleInv'
<1>1. BusInv'
  BY ClockKeepsBusInv DEF Plan
<1>2. PICK stat \in BOOLEAN, idle \in BOOLEAN, n242 \in BOOLEAN,
           k \in {"None"} \cup Ops : Ticks(c, stat, idle, k, n242)
  BY ClockTicks
<1>3. ready \/ glue.aen \/ bc.hold \in {1, 2}
  BY DEF CycleInv, ServeInv, BusInv, TypeOK, BcType
<1>4. CASE ready /\ ~glue.holda
  BY <1>1, <1>2, <1>4, RunningClock
<1>5. CASE ready /\ glue.holda
  BY <1>1, <1>2, <1>5, GrantedClock
<1>6. CASE glue.aen
  BY <1>1, <1>2, <1>6, ServedClock
<1>7. CASE bc.hold \in {1, 2}
  BY <1>1, <1>2, <1>7, RecoveringClock
<1> QED
  BY <1>3, <1>4, <1>5, <1>6, <1>7

\* The four plans, with the chips each lets run late.
LEMMA StepKeepsCycleInv ==
  ASSUME BusInv, CycleInv, [Next]_vars
  PROVE  CycleInv'
<1> USE DEF Plan, EntersT3
<1>i. BusInv => InhibitInv
  BY DEF BusInv
<1>1. CASE ClockIdle
  <2>0. PICK c \in CpuStep : \E late \in LateWhenIdle(c) : Clock(c, late, FALSE, FALSE)
    BY <1>1 DEF ClockIdle
  <2>1. PICK late \in LateWhenIdle(c) : Clock(c, late, FALSE, FALSE)
    BY <2>0
  <2>2. Plan(c, late, FALSE, FALSE)
    BY <1>1, <2>1 DEF ClockIdle, LateWhenIdle
  <2> QED
    BY <2>1, <2>2, ClockKeepsCycleInv
<1>2. CASE ClockRequested
  <2>0. PICK c \in CpuStep : \E late \in LateWhenRequested(c) : Clock(c, late, FALSE, TRUE)
    BY <1>2 DEF ClockRequested
  <2>1. PICK late \in LateWhenRequested(c) : Clock(c, late, FALSE, TRUE)
    BY <2>0
  <2>2. Plan(c, late, FALSE, TRUE)
    BY <1>2, <1>i, <2>1 DEF ClockRequested, LateWhenRequested, LateWhenIdle, InhibitInv, Reads
  <2> QED
    BY <2>1, <2>2, ClockKeepsCycleInv
<1>3. CASE ClockTransfer
  <2>1. PICK c \in CpuStep : Clock(c, {}, TRUE, TRUE)
    BY <1>3 DEF ClockTransfer
  <2>2. Plan(c, {}, TRUE, TRUE)
    BY <1>3 DEF ClockTransfer
  <2> QED
    BY <2>1, <2>2, ClockKeepsCycleInv
<1>4. CASE ClockRelease
  <2>1. PICK c \in CpuStep : Clock(c, {}, TRUE, FALSE)
    BY <1>4 DEF ClockRelease
  <2>2. Plan(c, {}, TRUE, FALSE)
    BY <1>4 DEF ClockRelease
  <2> QED
    BY <2>1, <2>2, ClockKeepsCycleInv
<1>5. CASE UNCHANGED vars
  BY <1>5 DEF vars, CycleInv, RunInv, GrantInv, ServeInv, RecoverInv, AccessIsCurrent,
              Issued, Latest, Swallowed, PortCommand, Grantable
<1> QED
  BY <1>1, <1>2, <1>3, <1>4, <1>5 DEF Next

LEMMA InitCycleInv == Init => CycleInv
  BY DEF Init, CycleInv, RunInv, GrantInv, ServeInv, RecoverInv, AccessIsCurrent

THEOREM CycleInvariance == Spec => [](BusInv /\ CycleInv)
<1>1. (BusInv /\ CycleInv) /\ [Next]_vars => (BusInv /\ CycleInv)'
  BY StepKeepsBusInv, StepKeepsCycleInv
<1> QED
  BY InitBusInv, InitCycleInv, <1>1, PTL DEF Spec

(***************************************************************************)
(* What follows                                                            *)
(***************************************************************************)
\* Every variable keeps its type; the recovery counter never leaves 0 .. 3.
THEOREM TypeCorrect == Spec => []TypeOK
<1>1. BusInv => TypeOK
  BY DEF BusInv
<1> QED
  BY BusInvariance, <1>1, PTL

\* The 8288 and the 8237A never drive a command in the same clock.
THEOREM NeverTwoMasters == Spec => []OneMaster
<1>1. BusInv => OneMaster
  BY DEF BusInv, ServiceInv, RecoveryInv, InhibitInv, OneMaster
<1> QED
  BY BusInvariance, <1>1, PTL

\* The 8237A never drives a command without HOLDA and AEN_BRD.
THEOREM TransfersOwnTheBus == Spec => []TransferOwnsBus
<1>1. BusInv => TransferOwnsBus
  BY DEF BusInv, ServiceInv, TransferOwnsBus
<1> QED
  BY BusInvariance, <1>1, PTL

\* No request and no grant falls in the 8288's recovery.
THEOREM RecoveryIsShielded == Spec => []RecoveryShielded
<1>1. BusInv => RecoveryShielded
  BY DEF BusInv, TypeOK, DmaType, ServiceInv, RecoveryInv, InhibitInv, RecoveryShielded
<1> QED
  BY BusInvariance, <1>1, PTL

\* U67 keeps the grant from the clock it is given to the end of the service.
THEOREM GrantIsHeld == Spec => GrantHeld
<1>1. BusInv /\ [Next]_vars =>
        [glue.holda /\ dma.hrq /\ dma'.hrq => glue'.holda]_vars
  BY StepKeepsBusInv
<1> QED
  BY BusInvariance, <1>1, PTL DEF Spec, GrantHeld

\* The 8237A executes only accesses of the cycle in progress, though the 8288
\* re-asserts after every transfer the command of the cycle it interrupted.
THEOREM AccessesAreCurrent == Spec => []AccessIsCurrent
<1>1. CycleInv => AccessIsCurrent
  BY DEF CycleInv
<1> QED
  BY CycleInvariance, <1>1, PTL

\* A cycle ends without its own command only after a memory write.
THEOREM OnlyWritesSwallow == Spec => []LostOnlyAfterWrite
<1>1. BusInv /\ CycleInv => LostOnlyAfterWrite
  <2> SUFFICES ASSUME BusInv, CycleInv, cpu.t = "T4", ~seen.strobed
               PROVE  bc.cycle = "MemW"
    BY DEF LostOnlyAfterWrite
  <2>1. ready
    BY DEF CycleInv, ServeInv, RecoverInv, BusInv, TypeOK, BcType
  <2> QED
    BY <2>1 DEF CycleInv, RunInv, Issued, Swallowed
<1> QED
  BY CycleInvariance, <1>1, PTL
=============================================================================
