------------------------------ MODULE PICProofs ------------------------------
(***************************************************************************)
(* For every number of IR pins.  First the chip: its registers keep their  *)
(* types and its INT output is never stale, one lemma per operation, then  *)
(* one step of the interrupt path, whatever the CPU and the devices do in  *)
(* it.  Then the path: where the processor is in an INTA cycle against the *)
(* 8259A's count of pulses, and the handlers it is in against the levels   *)
(* in service.  So no vector floats, and what is in service is what the    *)
(* processor's stack holds.                                                *)
(***************************************************************************)
EXTENDS InterruptPath, WellFoundedInduction, TLAPS

PicInv(p) == p \in PicType /\ IntCurrent(p)

\* The bus events the PIC can see.
Event(e) ==
  \/ e \in {NoEvent, IntaFall, IntaRise, Eoi}
  \/ \E edge, single, icw4 \in BOOLEAN : e = Icw1(edge, single, icw4)
  \/ \E mask \in SUBSET Levels, aeoi \in BOOLEAN : e = Data(mask, aeoi)
  \/ \E lvl : e = SpecificEoi(lvl)
  \/ \E isr \in BOOLEAN : e = ReadReg(isr)

-----------------------------------------------------------------------------
(* The helpers.                                                            *)

\* A nonempty set of levels has a least one.
LEMMA LeastLevel ==
  ASSUME NEW reg \in SUBSET Levels, reg # {}
  PROVE  \E i \in reg : \A j \in reg : i <= j
<1>1. Levels \subseteq Nat
  BY NLevelsAssumption DEF Levels
<1>2. \E i \in reg : \A j \in reg : ~ (<<j, i>> \in OpToRel(<, Nat))
  BY <1>1, WFMin, NatLessThanWellFounded
<1>3. \A i, j \in Nat : ~ (<<j, i>> \in OpToRel(<, Nat)) => i <= j
  BY DEF OpToRel
<1> QED
  BY <1>1, <1>2, <1>3

\* highest_priority_irq() finds the least level of a register, or none.
LEMMA HighestFacts ==
  ASSUME NEW reg \in SUBSET Levels
  PROVE  /\ Highest(reg) \in Levels \cup {None}
         /\ reg = {} <=> Highest(reg) = None
         /\ reg # {} => Highest(reg) \in reg
         /\ \A j \in reg : Highest(reg) <= j
<1>1. CASE reg = {}
  BY <1>1 DEF Highest
<1>2. CASE reg # {}
  <2>1. /\ Highest(reg) \in reg
        /\ \A j \in reg : Highest(reg) <= j
    BY <1>2, LeastLevel DEF Highest
  <2>2. None \notin Levels
    BY NLevelsAssumption DEF None, Levels
  <2> QED
    BY <1>2, <2>1, <2>2
<1> QED
  BY <1>1, <1>2

\* evaluate_int() makes the output current, whatever it was.
LEMMA EvaluateKeeps ==
  ASSUME NEW p \in PicType, p.initialized \/ ~p.int
  PROVE  PicInv(EvaluateInt(p))
<1>1. Requests(p) \in BOOLEAN
  BY DEF Requests
<1>2. CASE p.initialized
  <2> DEFINE q == [p EXCEPT !.int = Requests(p)]
  <2>1. EvaluateInt(p) = q
    BY <1>2 DEF EvaluateInt
  <2>2. q \in PicType /\ q.int = Requests(p) /\ q.initialized
    BY <1>1, <1>2 DEF PicType
  <2>3. q.irr = p.irr /\ q.imr = p.imr /\ q.isr = p.isr
    BY DEF PicType
  <2>4. Requests(q) = Requests(p)
    BY <2>3 DEF Requests
  <2> HIDE DEF q
  <2> QED
    BY <2>1, <2>2, <2>4 DEF PicInv, IntCurrent
<1>3. CASE ~p.initialized
  BY <1>3 DEF EvaluateInt, PicInv, IntCurrent
<1> QED
  BY <1>2, <1>3

-----------------------------------------------------------------------------
(* on_bus_write()                                                          *)

LEMMA Icw1Keeps ==
  ASSUME NEW p, PicInv(p), NEW edge \in BOOLEAN, NEW single \in BOOLEAN,
         NEW icw4 \in BOOLEAN
  PROVE  PicInv(OnIcw1(p, Icw1(edge, single, icw4)))
<1> DEFINE w == Icw1(edge, single, icw4)
           q == OnIcw1(p, w)
<1>0. w.edge = edge /\ w.single = single /\ w.icw4 = icw4
  BY DEF Icw1
<1> HIDE DEF w
<1>1. q \in PicType
  BY <1>0 DEF PicInv, OnIcw1, PicType
<1>2. q.int = FALSE /\ q.initialized = FALSE
  BY DEF PicInv, OnIcw1, PicType
<1> HIDE DEF q
<1> QED
  BY <1>1, <1>2 DEF PicInv, IntCurrent, q, w

LEMMA InitializedKeeps ==
  ASSUME NEW p \in PicType
  PROVE  PicInv(Initialized(p))
<1> DEFINE q == [p EXCEPT !.state = "Ready", !.initialized = TRUE]
<1>1. q \in PicType /\ q.initialized
  BY DEF PicType
<1> HIDE DEF q
<1>2. PicInv(EvaluateInt(q))
  BY <1>1, EvaluateKeeps
<1> QED
  BY <1>2 DEF Initialized, q

\* Changing the initialisation state alone leaves the output current.
LEMMA StateKeeps ==
  ASSUME NEW p, PicInv(p), NEW s \in {"WaitICW3", "WaitICW4"}
  PROVE  PicInv([p EXCEPT !.state = s])
<1> DEFINE q == [p EXCEPT !.state = s]
<1>1. q \in PicType
  BY DEF PicInv, PicType
<1>2. /\ q.int = p.int /\ q.initialized = p.initialized
      /\ q.irr = p.irr /\ q.imr = p.imr /\ q.isr = p.isr
  BY DEF PicInv, PicType
<1> QED
  BY <1>1, <1>2 DEF PicInv, IntCurrent, Requests

LEMMA AwaitIcw4Keeps ==
  ASSUME NEW p, PicInv(p)
  PROVE  PicInv(AwaitIcw4(p))
<1>1. CASE p.icw4
  BY <1>1, StateKeeps DEF AwaitIcw4
<1>2. CASE ~p.icw4
  BY <1>2, InitializedKeeps DEF AwaitIcw4, PicInv
<1> QED
  BY <1>1, <1>2

LEMMA Icw4Keeps ==
  ASSUME NEW p, PicInv(p), NEW w, w.aeoi \in BOOLEAN, NEW lines0 \in SUBSET Levels
  PROVE  PicInv(OnIcw4(p, w, lines0))
<1> DEFINE q == [p EXCEPT !.autoEoi = w.aeoi, !.prev = @ \cup lines0,
                          !.irr = IF p.edge THEN @ \cup lines0 ELSE @]
<1>1. q \in PicType
  BY DEF PicInv, PicType
<1> HIDE DEF q
<1>2. PicInv(Initialized(q))
  BY <1>1, InitializedKeeps
<1> QED
  BY <1>2 DEF OnIcw4, q

LEMMA DataKeeps ==
  ASSUME NEW p, PicInv(p), NEW mask \in SUBSET Levels, NEW aeoi \in BOOLEAN,
         NEW lines0 \in SUBSET Levels
  PROVE  PicInv(OnData(p, Data(mask, aeoi), lines0))
<1> DEFINE w == Data(mask, aeoi)
<1>0. w.mask = mask /\ w.aeoi = aeoi
  BY DEF Data
<1> HIDE DEF w
<1>1. CASE p.state = "WaitICW2"
  BY <1>1, AwaitIcw4Keeps, StateKeeps DEF OnData, w
<1>2. CASE p.state = "WaitICW3"
  BY <1>2, AwaitIcw4Keeps DEF OnData
<1>3. CASE p.state = "WaitICW4"
  <2>1. PicInv(OnIcw4(p, w, lines0))
    BY <1>0, Icw4Keeps
  <2> QED
    BY <1>3, <2>1 DEF OnData, w
<1>4. CASE p.state = "Ready" /\ p.initialized
  <2> DEFINE q == [p EXCEPT !.imr = w.mask]
  <2>1. q \in PicType /\ q.initialized
    BY <1>0, <1>4 DEF PicInv, PicType
  <2> HIDE DEF q
  <2>2. PicInv(EvaluateInt(q))
    BY <2>1, EvaluateKeeps
  <2> QED
    BY <1>4, <2>2 DEF OnData, q, w
<1>5. CASE p.state = "Ready" /\ ~p.initialized
  BY <1>5 DEF OnData
<1>6. p.state \in {"Ready", "WaitICW2", "WaitICW3", "WaitICW4"}
  BY DEF PicInv, PicType
<1>7. p.initialized \in BOOLEAN
  BY DEF PicInv, PicType
<1> QED
  BY <1>1, <1>2, <1>3, <1>4, <1>5, <1>6, <1>7

LEMMA EoiKeeps ==
  ASSUME NEW p, PicInv(p), p.initialized, NEW lvl
  PROVE  PicInv(EndOfInterrupt(p, lvl))
<1> DEFINE q == [p EXCEPT !.isr = @ \ {lvl}]
<1>1. q \in PicType /\ q.initialized
  BY DEF PicInv, PicType
<1> HIDE DEF q
<1>2. PicInv(EvaluateInt(q))
  BY <1>1, EvaluateKeeps
<1> QED
  BY <1>2 DEF EndOfInterrupt, q


LEMMA BusWriteKeeps ==
  ASSUME NEW p, PicInv(p), NEW w, Event(w), NEW lines0 \in SUBSET Levels,
         w \notin {NoEvent, IntaFall, IntaRise}
  PROVE  PicInv(OnBusWrite(p, w, lines0))
<1>1. CASE w = Eoi
  BY <1>1, EoiKeeps DEF OnBusWrite, Eoi
<1>2. ASSUME NEW edge \in BOOLEAN, NEW single \in BOOLEAN, NEW icw4 \in BOOLEAN,
             w = Icw1(edge, single, icw4)
      PROVE  PicInv(OnBusWrite(p, w, lines0))
  <2>1. w.op = "icw1"
    BY <1>2 DEF Icw1
  <2>2. PicInv(OnIcw1(p, w))
    BY <1>2, Icw1Keeps
  <2> QED
    BY <2>1, <2>2 DEF OnBusWrite
<1>3. ASSUME NEW mask \in SUBSET Levels, NEW aeoi \in BOOLEAN,
             w = Data(mask, aeoi)
      PROVE  PicInv(OnBusWrite(p, w, lines0))
  <2>1. w.op = "data"
    BY <1>3 DEF Data
  <2>2. PicInv(OnData(p, w, lines0))
    BY <1>3, DataKeeps
  <2> QED
    BY <2>1, <2>2 DEF OnBusWrite
<1>4. ASSUME NEW lvl, w = SpecificEoi(lvl)
      PROVE  PicInv(OnBusWrite(p, w, lines0))
  <2>1. w.op = "seoi"
    BY <1>4 DEF SpecificEoi
  <2> QED
    BY <2>1, EoiKeeps DEF OnBusWrite
<1>5. ASSUME NEW isr \in BOOLEAN, w = ReadReg(isr)
      PROVE  PicInv(OnBusWrite(p, w, lines0))
  <2>1. w.op = "ocw3" /\ w.isr = isr
    BY <1>5 DEF ReadReg
  <2> DEFINE q == [p EXCEPT !.readIsr = w.isr]
  <2>2. q \in PicType
    BY <2>1 DEF PicInv, PicType
  <2>3. /\ q.int = p.int /\ q.initialized = p.initialized
        /\ q.irr = p.irr /\ q.imr = p.imr /\ q.isr = p.isr
    BY DEF PicInv, PicType
  <2>4. PicInv(q)
    BY <2>2, <2>3 DEF PicInv, IntCurrent, Requests
  <2> QED
    BY <2>1, <2>4 DEF OnBusWrite
<1> QED
  BY <1>1, <1>2, <1>3, <1>4, <1>5 DEF Event

-----------------------------------------------------------------------------
(* The acknowledge pulses.                                                 *)

\* After the first pulse every request left is outranked by the level taken:
\* INT may drop without another evaluation.
LEMMA FirstIntaKeeps ==
  ASSUME NEW p, PicInv(p), p.initialized
  PROVE  PicInv(FirstInta(p))
<1> DEFINE pending == p.irr \ p.imr
           lvl     == Highest(pending)
           q       == FirstInta(p)
<1>1. /\ p.irr \in SUBSET Levels
      /\ p.imr \in SUBSET Levels
      /\ p.isr \in SUBSET Levels
  BY DEF PicInv, PicType
<1>2. /\ lvl \in Levels \cup {None}
      /\ pending = {} <=> lvl = None
      /\ pending # {} => lvl \in pending
      /\ \A j \in pending : lvl <= j
  BY <1>1, HighestFacts
<1>3. CASE lvl = None
  <2>1. q = [p EXCEPT !.count = 1, !.level = lvl]
    BY <1>3 DEF FirstInta
  <2> HIDE DEF lvl, q
  <2>2. q \in PicType
    BY <1>2, <2>1 DEF PicInv, PicType
  <2>3. /\ q.int = p.int /\ q.initialized = p.initialized
        /\ q.irr = p.irr /\ q.imr = p.imr /\ q.isr = p.isr
    BY <2>1 DEF PicInv, PicType
  <2> QED
    BY <2>2, <2>3 DEF PicInv, IntCurrent, Requests, q
<1>4. CASE lvl # None
  <2>1. q = [[p EXCEPT !.count = 1, !.level = lvl] EXCEPT
               !.isr = @ \cup {lvl}, !.irr = @ \ {lvl}, !.int = FALSE]
    BY <1>4 DEF FirstInta
  <2>2. lvl \in pending /\ lvl \in Levels
    BY <1>2, <1>4
  <2> HIDE DEF lvl, q
  <2>3. q \in PicType /\ q.int = FALSE
    <3> DEFINE r == [p EXCEPT !.count = 1, !.level = lvl]
    <3>1. r \in PicType
      BY <2>2 DEF PicInv, PicType
    <3>2. q = [r EXCEPT !.isr = @ \cup {lvl}, !.irr = @ \ {lvl}, !.int = FALSE]
      BY <2>1
    <3> HIDE DEF r
    <3> QED
      BY <2>2, <3>1, <3>2 DEF PicType
  <2>4. /\ q.irr = p.irr \ {lvl} /\ q.imr = p.imr
        /\ q.isr = p.isr \cup {lvl}
    BY <2>1 DEF PicInv, PicType
  <2> DEFINE rest == q.irr \ q.imr
             req  == Highest(rest)
             svc  == Highest(q.isr)
  <2>5. rest \in SUBSET Levels /\ q.isr \in SUBSET Levels
    BY <1>1, <2>2, <2>4
  <2>6. /\ rest = {} <=> req = None
        /\ rest # {} => req \in rest
    BY <2>5, HighestFacts
  <2>7. /\ svc \in Levels \cup {None}
        /\ q.isr = {} <=> svc = None
        /\ \A j \in q.isr : svc <= j
    BY <2>5, HighestFacts
  <2>8. svc # None /\ svc <= lvl
    BY <2>4, <2>7
  <2>9. req # None => lvl <= req
    BY <1>2, <2>4, <2>6
  <2>10. Levels \subseteq Int /\ None \in Int
    BY DEF Levels, None
  <2>11. req # None => req \in Levels
    BY <2>5, <2>6
  <2>12. ~Requests(q)
    <3>1. lvl \in Int /\ svc \in Int /\ (req # None => req \in Int)
      BY <2>2, <2>7, <2>10, <2>11
    <3> HIDE DEF req, svc
    <3>2. ~(req # None /\ (svc = None \/ req < svc))
      BY <2>8, <2>9, <3>1
    <3> QED
      BY <3>2 DEF Requests, req, svc
  <2> QED
    BY <2>3, <2>12 DEF PicInv, IntCurrent, q
<1> QED
  BY <1>3, <1>4

LEMMA SecondIntaKeeps ==
  ASSUME NEW p, PicInv(p), p.initialized
  PROVE  PicInv(SecondInta(p))
<1> DEFINE q == [p EXCEPT !.count = 2, !.vec = p.level,
                          !.isr = IF p.autoEoi THEN @ \ {p.level} ELSE @]
<1>1. q \in PicType /\ q.initialized
  BY DEF PicInv, PicType
<1> HIDE DEF q
<1>2. PicInv(EvaluateInt(q))
  BY <1>1, EvaluateKeeps
<1> QED
  BY <1>2 DEF SecondInta, q

\* A pulse that only counts, and the rise, leave what INT depends on alone.
LEMMA CountKeeps ==
  ASSUME NEW p, PicInv(p), NEW n \in Nat,
         NEW l \in Levels \cup {None}, NEW v \in Levels \cup {None}
  PROVE  PicInv([p EXCEPT !.count = n, !.level = l, !.vec = v])
<1> DEFINE q == [p EXCEPT !.count = n, !.level = l, !.vec = v]
<1>1. q \in PicType
  BY DEF PicInv, PicType
<1>2. /\ q.int = p.int /\ q.initialized = p.initialized
      /\ q.irr = p.irr /\ q.imr = p.imr /\ q.isr = p.isr
  BY DEF PicInv, PicType
<1> QED
  BY <1>1, <1>2 DEF PicInv, IntCurrent, Requests

LEMMA IntaKeeps ==
  ASSUME NEW p, PicInv(p)
  PROVE  PicInv(OnIntaFalling(p)) /\ PicInv(OnIntaRising(p))
<1>1. p \in PicType /\ p.count \in Nat
      /\ p.level \in Levels \cup {None} /\ p.vec \in Levels \cup {None}
  BY DEF PicInv, PicType
<1>2. PicInv(OnIntaRising(p))
  BY <1>1, CountKeeps DEF OnIntaRising
<1>3. PicInv([p EXCEPT !.count = @ + 1])
  <2> DEFINE q == [p EXCEPT !.count = @ + 1]
  <2>1. q \in PicType
    BY <1>1 DEF PicType
  <2>2. /\ q.int = p.int /\ q.initialized = p.initialized
        /\ q.irr = p.irr /\ q.imr = p.imr /\ q.isr = p.isr
    BY <1>1 DEF PicType
  <2> QED
    BY <2>1, <2>2 DEF PicInv, IntCurrent, Requests
<1>4. CASE ~p.initialized
  BY <1>2, <1>4 DEF OnIntaFalling
<1>5. CASE p.initialized /\ p.count = 0
  BY <1>2, <1>5, FirstIntaKeeps DEF OnIntaFalling
<1>6. CASE p.initialized /\ p.count = 1
  BY <1>2, <1>6, SecondIntaKeeps DEF OnIntaFalling
<1>7. CASE p.initialized /\ p.count # 0 /\ p.count # 1
  BY <1>2, <1>3, <1>7 DEF OnIntaFalling
<1> QED
  BY <1>4, <1>5, <1>6, <1>7

-----------------------------------------------------------------------------
(* The IR pins, and the whole of on_cycle().                               *)

LEMMA SampleLinesKeeps ==
  ASSUME NEW p, PicInv(p), NEW now \in SUBSET Levels
  PROVE  PicInv(SampleLines(p, now))
<1> DEFINE rising  == now \ p.prev
           falling == p.prev \ now
           q       == [p EXCEPT !.prev = now]
           up      == [q EXCEPT !.irr = @ \cup rising]
           down    == [q EXCEPT !.irr = @ \ falling]
<1>1. q \in PicType /\ up \in PicType /\ down \in PicType
  BY DEF PicInv, PicType
<1>2. /\ q.int = p.int /\ q.initialized = p.initialized
      /\ q.irr = p.irr /\ q.imr = p.imr /\ q.isr = p.isr
  BY DEF PicInv, PicType
<1>3. PicInv(q)
  BY <1>1, <1>2 DEF PicInv, IntCurrent, Requests
<1>4. /\ up.initialized = p.initialized /\ up.int = p.int
      /\ down.initialized = p.initialized /\ down.int = p.int
  BY DEF PicInv, PicType
<1>5. p.initialized \/ ~p.int
  BY DEF PicInv, IntCurrent
<1> HIDE DEF q, up, down
<1>6. PicInv(EvaluateInt(up)) /\ PicInv(EvaluateInt(down))
  BY <1>1, <1>4, <1>5, EvaluateKeeps
<1> QED
  BY <1>3, <1>6 DEF SampleLines, q, up, down

LEMMA BusEventKeeps ==
  ASSUME NEW p, PicInv(p), NEW e, Event(e), NEW now \in SUBSET Levels
  PROVE  PicInv(BusEvent(p, e, now))
<1>1. CASE e \in {NoEvent, IntaFall, IntaRise}
  BY <1>1, IntaKeeps DEF BusEvent, NoEvent, IntaFall, IntaRise
<1>2. CASE e \notin {NoEvent, IntaFall, IntaRise}
  <2>1. e.op \notin {"none", "fall", "rise"}
    BY <1>2 DEF Event, Icw1, Data, Eoi, SpecificEoi, ReadReg
  <2>2. PicInv(OnBusWrite(p, e, now))
    BY <1>2, BusWriteKeeps
  <2> QED
    BY <2>1, <2>2 DEF BusEvent
<1> QED
  BY <1>1, <1>2

LEMMA OnCycleKeeps ==
  ASSUME NEW p, PicInv(p), NEW e, Event(e), NEW now \in SUBSET Levels
  PROVE  PicInv(OnCycle(p, e, now))
BY BusEventKeeps, SampleLinesKeeps DEF OnCycle

-----------------------------------------------------------------------------
(* The interrupt path.                                                     *)

LEMMA CycleKeeps ==
  ASSUME PicInv(pic), NEW e, Event(e), NEW next, Cycle(e, next)
  PROVE  PicInv(pic)'
BY OnCycleKeeps DEF Cycle

LEMMA NextKeeps ==
  ASSUME PicInv(pic), [Next]_vars
  PROVE  PicInv(pic)'
<1>1. /\ Event(NoEvent) /\ Event(IntaFall) /\ Event(IntaRise) /\ Event(Eoi)
      /\ \A lvl : Event(SpecificEoi(lvl))
      /\ \A mask \in SUBSET Levels, aeoi \in BOOLEAN : Event(Data(mask, aeoi))
      /\ \A edge, single, icw4 \in BOOLEAN : Event(Icw1(edge, single, icw4))
  BY DEF Event
<1>2. CASE Devices \/ Sti \/ Cli \/ Iret
  BY <1>1, <1>2, CycleKeeps DEF Devices, Sti, Cli, Iret
<1>3. CASE Boot
  <2>1. CASE WriteIcw1
    BY <1>1, <2>1, CycleKeeps, PathAssumption DEF WriteIcw1
  <2>2. CASE WriteIcw2 \/ WriteIcw3
    BY <1>1, <2>2, CycleKeeps DEF WriteIcw2, WriteIcw3
  <2>3. CASE WriteIcw4
    BY <1>1, <2>3, CycleKeeps, PathAssumption DEF WriteIcw4
  <2> QED
    BY <1>3, <2>1, <2>2, <2>3 DEF Boot
<1>4. CASE WriteMask
  BY <1>1, <1>4, CycleKeeps DEF WriteMask
<1>5. CASE WriteEoi
  BY <1>1, <1>5, CycleKeeps DEF WriteEoi
<1>6. CASE Acknowledge
  BY <1>1, <1>6, CycleKeeps DEF Acknowledge, Accept, FirstPulse, SecondCycle,
     SecondPulse, ReadVector, Release
<1>7. CASE CpuReset
  BY <1>1, <1>7, CycleKeeps DEF CpuReset
<1>8. CASE UNCHANGED vars
  BY <1>8 DEF vars
<1> QED
  BY <1>2, <1>3, <1>4, <1>5, <1>6, <1>7, <1>8 DEF Next

\* The INT output is never stale, for every number of IR pins, every sequence
\* of bus events and every movement of the pins.
THEOREM IntIsNeverStale == Spec => []IntNeverStale
<1>1. Init => PicInv(pic)
  <2>1. PowerOn \in PicType
    BY DEF PowerOn, PicType
  <2>2. PowerOn.int = FALSE /\ PowerOn.initialized = FALSE
    BY DEF PowerOn
  <2> QED
    BY <2>1, <2>2 DEF Init, PicInv, IntCurrent
<1>2. PicInv(pic) /\ [Next]_vars => PicInv(pic)'
  BY NextKeeps
<1>3. PicInv(pic) => IntNeverStale
  BY DEF PicInv, IntNeverStale
<1> QED
  BY <1>1, <1>2, <1>3, PTL DEF Spec

-----------------------------------------------------------------------------
(* What a cycle leaves alone.                                              *)

\* Everything but INT, the requests and the pins' last levels.
SameBut(p, q) ==
  /\ q.isr = p.isr /\ q.imr = p.imr /\ q.state = p.state
  /\ q.initialized = p.initialized /\ q.edge = p.edge /\ q.single = p.single
  /\ q.icw4 = p.icw4 /\ q.autoEoi = p.autoEoi
  /\ q.count = p.count /\ q.level = p.level /\ q.vec = p.vec

LEMMA EvaluateLeaves ==
  ASSUME NEW p \in PicType
  PROVE  SameBut(p, EvaluateInt(p)) /\ EvaluateInt(p).irr = p.irr
<1>1. Requests(p) \in BOOLEAN
  BY DEF Requests
<1> QED
  BY <1>1 DEF EvaluateInt, SameBut, PicType

\* A request only goes with its line in the level mode, in which none is made.
LEMMA SampleLinesLeaves ==
  ASSUME NEW p \in PicType, NEW now \in SUBSET Levels
  PROVE  /\ SameBut(p, SampleLines(p, now))
         /\ p.edge => p.irr \subseteq SampleLines(p, now).irr
         /\ ~p.edge /\ p.irr = {} => SampleLines(p, now).irr = {}
<1> DEFINE rising  == now \ p.prev
           falling == p.prev \ now
           q       == [p EXCEPT !.prev = now]
           up      == [q EXCEPT !.irr = @ \cup rising]
           down    == [q EXCEPT !.irr = @ \ falling]
<1>1. q \in PicType /\ up \in PicType /\ down \in PicType
  BY DEF PicType
<1>2. /\ SameBut(p, q) /\ SameBut(p, up) /\ SameBut(p, down)
      /\ q.irr = p.irr /\ up.irr = p.irr \cup rising /\ down.irr = p.irr \ falling
  BY DEF PicType, SameBut
<1> HIDE DEF q, up, down
<1>3. /\ SameBut(up, EvaluateInt(up)) /\ EvaluateInt(up).irr = up.irr
      /\ SameBut(down, EvaluateInt(down)) /\ EvaluateInt(down).irr = down.irr
  BY <1>1, EvaluateLeaves
<1>4. SampleLines(p, now) \in {q} \cup (IF p.edge THEN {EvaluateInt(up)}
                                        ELSE {EvaluateInt(down)})
  BY DEF SampleLines, q, up, down
<1> QED
  BY <1>2, <1>3, <1>4 DEF SameBut

\* A request that is shown on INT is shown until it is acknowledged.
LEMMA IntStands ==
  ASSUME NEW p, PicInv(p), p.int, ~p.edge => p.irr = {},
         NEW now \in SUBSET Levels
  PROVE  SampleLines(p, now).int
<1> DEFINE q == SampleLines(p, now)
<1>1. PicInv(q) /\ SameBut(p, q) /\ (p.edge => p.irr \subseteq q.irr)
  BY SampleLinesKeeps, SampleLinesLeaves DEF PicInv
<1> HIDE DEF q
<1>2. p.initialized /\ Requests(p)
  BY DEF PicInv, IntCurrent
<1>3. /\ p.irr \ p.imr \in SUBSET Levels /\ q.irr \ q.imr \in SUBSET Levels
      /\ p.isr \in SUBSET Levels
  BY <1>1 DEF PicInv, PicType
<1>4. p.irr \ p.imr # {}
  BY <1>2, <1>3, HighestFacts DEF Requests
<1>5. p.irr \ p.imr \subseteq q.irr \ q.imr
  BY <1>1, <1>4 DEF SameBut
<1>6. /\ Highest(q.irr \ q.imr) # None
      /\ Highest(q.irr \ q.imr) <= Highest(p.irr \ p.imr)
  BY <1>3, <1>4, <1>5, HighestFacts
<1>7. Highest(p.isr) = None \/ Highest(q.irr \ q.imr) < Highest(p.isr)
  <2>1. Highest(p.isr) = None \/ Highest(p.irr \ p.imr) < Highest(p.isr)
    BY <1>2 DEF Requests
  <2>2. /\ Highest(q.irr \ q.imr) \in Int /\ Highest(p.irr \ p.imr) \in Int
        /\ Highest(p.isr) \in Int
    BY <1>3, HighestFacts, NLevelsAssumption DEF Levels, None
  <2> QED
    BY <1>6, <2>1, <2>2
<1>8. Requests(q)
  BY <1>1, <1>6, <1>7 DEF Requests, SameBut
<1>9. q.int
  BY <1>1, <1>2, <1>8 DEF PicInv, IntCurrent, SameBut
<1> QED
  BY <1>9 DEF q

-----------------------------------------------------------------------------
(* The stack of handlers.                                                  *)

Handler == [lvl : Levels, ended : BOOLEAN]

UnendedIn(s) == {s[k].lvl : k \in {j \in DOMAIN s : ~s[j].ended}}

\* Each handler not yet ended is more urgent than those below it.
Nested(s) ==
  \A j, k \in DOMAIN s :
    j < k /\ ~s[j].ended /\ ~s[k].ended => s[j].lvl < s[k].lvl

LEMMA PushNests ==
  ASSUME NEW s \in Seq(Handler), NEW l \in Levels, Nested(s),
         \A u \in UnendedIn(s) : l < u,
         NEW t, t = <<[lvl |-> l, ended |-> FALSE]>> \o s
  PROVE  Nested(t) /\ UnendedIn(t) = UnendedIn(s) \cup {l}
<1> DEFINE h == [lvl |-> l, ended |-> FALSE]
<1>1. /\ t \in Seq(Handler) /\ Len(t) = Len(s) + 1 /\ t[1] = h
      /\ \A k \in 1 .. Len(s) : t[k + 1] = s[k]
      /\ \A k \in 2 .. Len(t) : k - 1 \in 1 .. Len(s) /\ t[k] = s[k - 1]
  BY DEF Handler
<1>2. DOMAIN t = 1 .. Len(s) + 1 /\ DOMAIN s = 1 .. Len(s) /\ Len(s) \in Nat
  BY <1>1
<1>3. UnendedIn(t) = UnendedIn(s) \cup {l}
  <2>1. ASSUME NEW x \in UnendedIn(t) PROVE x \in UnendedIn(s) \cup {l}
    <3>1. PICK k \in DOMAIN t : ~t[k].ended /\ x = t[k].lvl
      BY DEF UnendedIn
    <3>2. CASE k = 1
      BY <1>1, <3>1, <3>2
    <3>3. CASE k # 1
      <4>1. k \in 2 .. Len(t) /\ k - 1 \in DOMAIN s
        BY <1>1, <1>2, <3>1, <3>3
      <4> QED
        BY <1>1, <3>1, <4>1 DEF UnendedIn
    <3> QED
      BY <3>2, <3>3
  <2>2. l \in UnendedIn(t)
    <3>1. 1 \in DOMAIN t /\ ~t[1].ended /\ t[1].lvl = l
      BY <1>1, <1>2
    <3> QED
      BY <3>1 DEF UnendedIn
  <2>3. ASSUME NEW x \in UnendedIn(s) PROVE x \in UnendedIn(t)
    <3>1. PICK k \in DOMAIN s : ~s[k].ended /\ x = s[k].lvl
      BY DEF UnendedIn
    <3>2. k + 1 \in DOMAIN t /\ t[k + 1] = s[k]
      BY <1>1, <1>2
    <3> QED
      BY <3>1, <3>2 DEF UnendedIn
  <2> QED
    BY <2>1, <2>2, <2>3
<1>4. Nested(t)
  <2> SUFFICES ASSUME NEW j \in DOMAIN t, NEW k \in DOMAIN t, j < k,
                      ~t[j].ended, ~t[k].ended
               PROVE  t[j].lvl < t[k].lvl
    BY DEF Nested
  <2>1. k \in 2 .. Len(t) /\ k - 1 \in DOMAIN s /\ t[k] = s[k - 1]
    BY <1>1, <1>2
  <2>2. CASE j = 1
    BY <1>1, <2>1, <2>2 DEF UnendedIn
  <2>3. CASE j # 1
    <3>1. j - 1 \in DOMAIN s /\ t[j] = s[j - 1] /\ j - 1 < k - 1
      BY <1>1, <1>2, <2>1, <2>3
    <3> QED
      BY <2>1, <3>1 DEF Nested
  <2> QED
    BY <2>2, <2>3
<1> QED
  BY <1>3, <1>4

\* The top handler is the most urgent; ending it takes just its level away.
LEMMA EndNests ==
  ASSUME NEW s \in Seq(Handler), s # <<>>, Nested(s), ~Head(s).ended,
         NEW t, t = <<[Head(s) EXCEPT !.ended = TRUE]>> \o Tail(s)
  PROVE  /\ Nested(t) /\ UnendedIn(t) = UnendedIn(s) \ {Head(s).lvl}
         /\ Head(s).lvl \in UnendedIn(s)
         /\ \A u \in UnendedIn(s) : Head(s).lvl <= u
<1> DEFINE h == [Head(s) EXCEPT !.ended = TRUE]
<1>1. /\ Head(s) = s[1] /\ 1 \in DOMAIN s /\ Len(s) \in Nat /\ DOMAIN s = 1 .. Len(s)
      /\ \A k \in DOMAIN s : s[k] \in Handler
  OBVIOUS
<1>2. h \in Handler /\ h.ended /\ Levels \subseteq Int
  <2>1. s[1] \in Handler
    BY <1>1
  <2>2. Levels \subseteq Int
    BY NLevelsAssumption DEF Levels
  <2> QED
    BY <1>1, <2>1, <2>2 DEF Handler
<1>3. /\ DOMAIN t = DOMAIN s /\ t[1] = h
      /\ \A k \in DOMAIN s : k # 1 => t[k] = s[k]
  <2>1. /\ Tail(s) \in Seq(Handler) /\ Len(Tail(s)) = Len(s) - 1
        /\ \A k \in 1 .. Len(s) - 1 : Tail(s)[k] = s[k + 1]
    OBVIOUS
  <2> HIDE DEF h
  <2>2. /\ t \in Seq(Handler) /\ Len(t) = Len(s) /\ t[1] = h
        /\ \A k \in 2 .. Len(t) : k - 1 \in 1 .. Len(s) - 1 /\ t[k] = Tail(s)[k - 1]
    <3>1. t = <<h>> \o Tail(s)
      BY DEF h
    <3>2. Tail(s) \in Seq(Handler) /\ Len(Tail(s)) \in Nat
      BY <1>1, <2>1
    <3>3. \A r \in Seq(Handler) :
            /\ <<h>> \o r \in Seq(Handler) /\ Len(<<h>> \o r) = Len(r) + 1
            /\ (<<h>> \o r)[1] = h
            /\ \A k \in 2 .. Len(r) + 1 :
                 k - 1 \in 1 .. Len(r) /\ (<<h>> \o r)[k] = r[k - 1]
      BY <1>2
    <3>4. /\ t \in Seq(Handler) /\ Len(t) = Len(Tail(s)) + 1 /\ t[1] = h
          /\ \A k \in 2 .. Len(Tail(s)) + 1 :
               k - 1 \in 1 .. Len(Tail(s)) /\ t[k] = Tail(s)[k - 1]
      BY <3>1, <3>2, <3>3
    <3>5. Len(Tail(s)) = Len(s) - 1
      BY <2>1
    <3> QED
      BY <1>1, <3>4, <3>5
  <2>3. ASSUME NEW k \in DOMAIN s, k # 1 PROVE t[k] = s[k]
    <3>1. k \in 2 .. Len(t) /\ (k - 1) + 1 = k
      BY <1>1, <2>2, <2>3
    <3> QED
      BY <2>1, <2>2, <3>1
  <2> QED
    BY <1>1, <2>2, <2>3
<1> HIDE DEF h
<1>4. s[1].lvl \in UnendedIn(s)
  BY <1>1 DEF UnendedIn
<1>5. ASSUME NEW k \in DOMAIN s, k # 1, ~s[k].ended
      PROVE  s[1].lvl < s[k].lvl
  <2>1. 1 < k
    BY <1>1, <1>5
  <2> QED
    BY <1>1, <1>5, <2>1 DEF Nested
<1>6. \A u \in UnendedIn(s) : s[1].lvl <= u
  <2> SUFFICES ASSUME NEW k \in DOMAIN s, ~s[k].ended PROVE s[1].lvl <= s[k].lvl
    BY DEF UnendedIn
  <2>1. s[1].lvl \in Int /\ s[k].lvl \in Int
    BY <1>1, <1>2 DEF Handler
  <2> QED
    BY SMTT(30), <1>5, <2>1
<1>7. UnendedIn(t) = UnendedIn(s) \ {s[1].lvl}
  <2>1. ASSUME NEW x \in UnendedIn(t) PROVE x \in UnendedIn(s) /\ x # s[1].lvl
    <3>1. PICK k \in DOMAIN t : ~t[k].ended /\ x = t[k].lvl
      BY DEF UnendedIn
    <3>2. k # 1 /\ k \in DOMAIN s /\ t[k] = s[k]
      BY <1>2, <1>3, <3>1
    <3>3. s[1].lvl < s[k].lvl /\ s[1].lvl \in Int /\ s[k].lvl \in Int
      BY <1>1, <1>2, <1>5, <3>1, <3>2 DEF Handler
    <3> QED
      BY SMTT(30), <3>1, <3>2, <3>3 DEF UnendedIn
  <2>2. ASSUME NEW x \in UnendedIn(s), x # s[1].lvl PROVE x \in UnendedIn(t)
    <3>1. PICK k \in DOMAIN s : ~s[k].ended /\ x = s[k].lvl
      BY DEF UnendedIn
    <3>2. k # 1 /\ k \in DOMAIN t /\ t[k] = s[k]
      BY <1>3, <2>2, <3>1
    <3> QED
      BY <3>1, <3>2 DEF UnendedIn
  <2> QED
    BY <2>1, <2>2
<1>8. Nested(t)
  <2> SUFFICES ASSUME NEW j \in DOMAIN t, NEW k \in DOMAIN t, j < k,
                      ~t[j].ended, ~t[k].ended
               PROVE  t[j].lvl < t[k].lvl
    BY DEF Nested
  <2>1. j # 1 /\ k # 1
    BY <1>2, <1>3
  <2> QED
    BY <1>3, <2>1 DEF Nested
<1> QED
  BY <1>1, <1>4, <1>6, <1>7, <1>8

LEMMA PopNests ==
  ASSUME NEW s \in Seq(Handler), s # <<>>, Nested(s), Head(s).ended
  PROVE  Nested(Tail(s)) /\ UnendedIn(Tail(s)) = UnendedIn(s)
<1> DEFINE t == Tail(s)
<1>1. /\ Head(s) = s[1] /\ Len(s) \in Nat /\ DOMAIN s = 1 .. Len(s)
      /\ t \in Seq(Handler) /\ DOMAIN t = 1 .. Len(s) - 1
      /\ \A k \in DOMAIN t : t[k] = s[k + 1] /\ k + 1 \in DOMAIN s
  OBVIOUS
<1> HIDE DEF t
<1>2. UnendedIn(t) = UnendedIn(s)
  <2>1. ASSUME NEW x \in UnendedIn(t) PROVE x \in UnendedIn(s)
    <3>1. PICK k \in DOMAIN t : ~t[k].ended /\ x = t[k].lvl
      BY DEF UnendedIn
    <3> QED
      BY <1>1, <3>1 DEF UnendedIn
  <2>2. ASSUME NEW x \in UnendedIn(s) PROVE x \in UnendedIn(t)
    <3>1. PICK k \in DOMAIN s : ~s[k].ended /\ x = s[k].lvl
      BY DEF UnendedIn
    <3>2. k # 1 /\ k - 1 \in DOMAIN t /\ (k - 1) + 1 = k
      BY <1>1, <3>1
    <3>3. t[k - 1] = s[k]
      BY <1>1, <3>2
    <3> QED
      BY <3>1, <3>2, <3>3 DEF UnendedIn
  <2> QED
    BY <2>1, <2>2
<1>3. Nested(t)
  <2> SUFFICES ASSUME NEW j \in DOMAIN t, NEW k \in DOMAIN t, j < k,
                      ~t[j].ended, ~t[k].ended
               PROVE  t[j].lvl < t[k].lvl
    BY DEF Nested
  <2>1. j + 1 < k + 1 /\ t[j] = s[j + 1] /\ t[k] = s[k + 1]
    BY <1>1
  <2> QED
    BY <1>1, <2>1 DEF Nested
<1> QED
  BY <1>2, <1>3 DEF t

-----------------------------------------------------------------------------
(* The phases of the path.                                                 *)

CpuType ==
  [pc : Booting \cup {"run", "ack1", "ack2rise", "ack2", "read", "release"},
   if : BOOLEAN, stack : Seq(Handler)]

\* What the chip is doing at each place of the CPU: the initialisation is in
\* step with the program that writes it, and a pulse finds the count its place
\* in the acknowledge implies: a reset comes before the first or after the second.
PhaseInv ==
  /\ cpu.pc \in Booting => cpu.stack = <<>>
  /\ ~pic.edge => pic.irr = {}
  /\ cpu.pc \in {"icw2", "icw3", "icw4"} => ~pic.initialized
  /\ cpu.pc = "icw2" => pic.state = "WaitICW2"
  /\ cpu.pc = "icw3" => pic.state = "WaitICW3"
  /\ cpu.pc = "icw4" => pic.state = "WaitICW4"
  /\ cpu.pc \in Booting \ {"icw1"} => pic.isr = {}
  /\ cpu.pc \notin {"icw1", "icw2", "icw3", "icw4"} =>
       pic.initialized /\ pic.state = "Ready"
  /\ cpu.pc \in {"icw2", "icw3", "icw4", "mask", "run", "ack1"} => pic.count = 0
  /\ cpu.pc = "ack1" => pic.int
  /\ cpu.pc \in {"ack2rise", "ack2"} => pic.count = 1 /\ pic.level \in Levels
  /\ cpu.pc \in {"read", "release"} =>
       pic.count = 2 /\ pic.level \in Levels /\ pic.vec = pic.level

NestInv ==
  cpu.pc \notin Booting /\ ~pic.autoEoi =>
    /\ pic.isr = UnendedIn(cpu.stack) \cup Entering
    /\ \A e \in Entering, u \in UnendedIn(cpu.stack) : e < u
    /\ Nested(cpu.stack)

PathInv == PicInv(pic) /\ cpu \in CpuType /\ PhaseInv /\ NestInv

LEMMA CycleFacts ==
  ASSUME PicInv(pic), NEW e, Event(e), NEW next, Cycle(e, next)
  PROVE  /\ cpu' = next
         /\ \E now \in SUBSET Levels, p \in PicType :
              /\ p = BusEvent(pic, e, now) /\ PicInv(p)
              /\ PicInv(pic') /\ SameBut(p, pic')
              /\ p.edge => p.irr \subseteq pic'.irr
              /\ ~p.edge /\ p.irr = {} => pic'.irr = {}
              /\ p.int /\ (~p.edge => p.irr = {}) => pic'.int
<1>1. PICK now \in SUBSET Levels : cpu' = next /\ pic' = OnCycle(pic, e, now)
  BY DEF Cycle
<1> DEFINE p == BusEvent(pic, e, now)
<1>2. PicInv(p) /\ pic' = SampleLines(p, now)
  BY <1>1, BusEventKeeps DEF OnCycle
<1> HIDE DEF p
<1>3. PicInv(pic')
  BY <1>2, SampleLinesKeeps
<1>4. p \in PicType
  BY <1>2 DEF PicInv
<1>5. /\ SameBut(p, pic')
      /\ p.edge => p.irr \subseteq pic'.irr
      /\ ~p.edge /\ p.irr = {} => pic'.irr = {}
  BY <1>2, <1>4, SampleLinesLeaves
<1>6. p.int /\ (~p.edge => p.irr = {}) => pic'.int
  BY <1>2, IntStands
<1> QED
  BY <1>1, <1>2, <1>3, <1>4, <1>5, <1>6 DEF p

\* A cycle without an event of the chip, or with a rise that it ignores.
LEMMA QuietFacts ==
  ASSUME PathInv, NEW e, e = NoEvent \/ (e = IntaRise /\ pic.count < 2),
         NEW next, Cycle(e, next)
  PROVE  /\ cpu' = next /\ PicInv(pic') /\ SameBut(pic, pic')
         /\ ~pic'.edge => pic'.irr = {}
         /\ pic.int => pic'.int
<1>1. Event(e)
  BY DEF Event
<1>2. \A now : BusEvent(pic, e, now) = pic
  <2>1. pic.count \in Nat
    BY DEF PathInv, PicInv, PicType
  <2> QED
    BY <2>1 DEF BusEvent, NoEvent, IntaRise, OnIntaRising
<1> QED
  BY <1>1, <1>2, CycleFacts DEF PathInv, PhaseInv, SameBut

\* The initialisation words and the masks.
LEMMA BootKeeps ==
  ASSUME PathInv, Boot \/ WriteMask
  PROVE  PathInv'
<1> USE DEF Booting, Goto
<1>t. pic \in PicType /\ cpu \in CpuType /\ PicInv(pic)
  BY DEF PathInv, PicInv
<1>e. /\ \A mask \in SUBSET Levels, aeoi \in BOOLEAN : Event(Data(mask, aeoi))
      /\ \A edge, single, icw4 \in BOOLEAN : Event(Icw1(edge, single, icw4))
  BY DEF Event
<1>1. CASE WriteIcw1
  <2>1. PICK edge \in BOOLEAN, single \in BOOLEAN, icw4 \in BOOLEAN :
          Cycle(Icw1(edge, single, icw4), Goto("icw2"))
    BY <1>1, PathAssumption DEF WriteIcw1
  <2>2. PICK now \in SUBSET Levels, p \in PicType :
          /\ p = BusEvent(pic, Icw1(edge, single, icw4), now) /\ PicInv(p)
          /\ PicInv(pic') /\ SameBut(p, pic')
          /\ ~p.edge /\ p.irr = {} => pic'.irr = {}
    BY <2>1, <1>t, <1>e, CycleFacts
  <2>3. p = OnIcw1(pic, Icw1(edge, single, icw4))
    BY <2>2 DEF BusEvent, OnBusWrite, Icw1
  <2>4. /\ ~p.initialized /\ p.state = "WaitICW2" /\ p.isr = {} /\ p.irr = {}
        /\ p.count = 0
    BY ZenonT(30), <2>3, <1>t DEF OnIcw1, PicType
  <2>5. cpu' = [cpu EXCEPT !.pc = "icw2"] /\ cpu.pc = "icw1"
    BY <2>1, <1>1 DEF WriteIcw1, Cycle
  <2> QED
    BY <2>2, <2>4, <2>5, <1>t
    DEF PathInv, PhaseInv, NestInv, SameBut, CpuType
<1>2. CASE WriteIcw2 \/ WriteIcw3 \/ WriteIcw4
  <2>1. PICK aeoi \in BOOLEAN, to \in {"icw3", "icw4", "mask"} :
          /\ Cycle(Data({}, aeoi), [cpu EXCEPT !.pc = to])
          /\ \/ cpu.pc = "icw2" /\ ~pic.single /\ to = "icw3"
             \/ /\ cpu.pc = "icw3" \/ (cpu.pc = "icw2" /\ pic.single)
                /\ to = IF pic.icw4 THEN "icw4" ELSE "mask"
             \/ cpu.pc = "icw4" /\ to = "mask"
    BY <1>2, PathAssumption DEF WriteIcw2, WriteIcw3, WriteIcw4, AfterIcw3
  <2>2. PICK now \in SUBSET Levels, p \in PicType :
          /\ p = BusEvent(pic, Data({}, aeoi), now) /\ PicInv(p)
          /\ PicInv(pic') /\ SameBut(p, pic')
          /\ ~p.edge /\ p.irr = {} => pic'.irr = {}
          /\ cpu' = [cpu EXCEPT !.pc = to]
    BY <2>1, <1>t, <1>e, CycleFacts
  <2>3. p = OnData(pic, Data({}, aeoi), now)
    BY <2>2 DEF BusEvent, OnBusWrite, Data
  <2>4. ASSUME NEW q \in PicType
        PROVE  /\ Initialized(q).initialized /\ Initialized(q).state = "Ready"
               /\ Initialized(q).isr = q.isr /\ Initialized(q).irr = q.irr
               /\ Initialized(q).count = q.count /\ Initialized(q).edge = q.edge
    <3> DEFINE r == [q EXCEPT !.state = "Ready", !.initialized = TRUE]
    <3>1. /\ r \in PicType /\ r.state = "Ready" /\ r.initialized /\ r.isr = q.isr
          /\ r.irr = q.irr /\ r.count = q.count /\ r.edge = q.edge
      BY DEF PicType
    <3> HIDE DEF r
    <3> QED
      BY <3>1, EvaluateLeaves DEF Initialized, r, SameBut
  <2>5. /\ ~pic.initialized /\ pic.isr = {} /\ pic.count = 0 /\ cpu.stack = <<>>
        /\ ~pic.edge => pic.irr = {}
    BY <2>1 DEF PathInv, PhaseInv
  <2>6. /\ p.isr = {} /\ p.count = 0 /\ (~p.edge => p.irr = {})
        /\ \/ to = "icw3" /\ ~p.initialized /\ p.state = "WaitICW3"
           \/ to = "icw4" /\ ~p.initialized /\ p.state = "WaitICW4"
           \/ to = "mask" /\ p.initialized /\ p.state = "Ready"
    <3>1. CASE cpu.pc = "icw2" /\ ~pic.single
      <4>1. p = [pic EXCEPT !.state = "WaitICW3"]
        BY <2>3, <3>1 DEF OnData, PathInv, PhaseInv
      <4> QED
        BY <2>1, <2>5, <3>1, <4>1, <1>t DEF PicType
    <3>2. CASE cpu.pc = "icw3" \/ (cpu.pc = "icw2" /\ pic.single)
      <4>1. p = AwaitIcw4(pic)
        BY <2>3, <3>2 DEF OnData, PathInv, PhaseInv
      <4>2. CASE pic.icw4
        <5>1. p = [pic EXCEPT !.state = "WaitICW4"]
          BY <4>1, <4>2 DEF AwaitIcw4
        <5> QED
          BY <2>1, <2>5, <3>2, <4>2, <5>1, <1>t DEF PicType
      <4>3. CASE ~pic.icw4
        <5>1. p = Initialized(pic)
          BY <4>1, <4>3 DEF AwaitIcw4
        <5> QED
          BY <2>1, <2>4, <2>5, <3>2, <4>3, <5>1, <1>t
      <4> QED
        BY <4>2, <4>3
    <3>3. CASE cpu.pc = "icw4"
      <4>1. p = OnIcw4(pic, Data({}, aeoi), now)
        BY <2>3, <3>3 DEF OnData, PathInv, PhaseInv
      <4> DEFINE irr == IF pic.edge THEN pic.irr \cup now ELSE pic.irr
                 q   == [pic EXCEPT !.autoEoi = aeoi, !.prev = pic.prev \cup now,
                                    !.irr = irr]
      <4>2. p = Initialized(q)
        BY <4>1 DEF OnIcw4, Data
      <4>3. irr \in SUBSET Levels /\ pic.prev \cup now \in SUBSET Levels
        BY <1>t DEF PicType
      <4>4. /\ q \in PicType /\ q.isr = pic.isr /\ q.irr = irr
            /\ q.count = pic.count /\ q.edge = pic.edge
        BY <4>3, <1>t DEF PicType
      <4> HIDE DEF q
      <4> QED
        BY <2>1, <2>4, <2>5, <3>3, <4>2, <4>4
    <3> QED
      BY <2>1, <3>1, <3>2, <3>3
  <2>7. cpu' = [cpu EXCEPT !.pc = to]
    BY <2>2
  <2> QED
    BY <2>1, <2>2, <2>5, <2>6, <2>7, <1>t
    DEF PathInv, PhaseInv, NestInv, SameBut, CpuType, Entering, UnendedIn, Nested
<1>3. CASE WriteMask
  <2>1. PICK mask \in SUBSET Levels : Cycle(Data(mask, FALSE), Goto("run"))
    BY <1>3 DEF WriteMask
  <2>2. PICK now \in SUBSET Levels, p \in PicType :
          /\ p = BusEvent(pic, Data(mask, FALSE), now) /\ PicInv(p)
          /\ PicInv(pic') /\ SameBut(p, pic')
          /\ ~p.edge /\ p.irr = {} => pic'.irr = {}
          /\ cpu' = [cpu EXCEPT !.pc = "run"]
    BY <2>1, <1>t, <1>e, CycleFacts
  <2>3. p = OnData(pic, Data(mask, FALSE), now)
    BY <2>2 DEF BusEvent, OnBusWrite, Data
  <2>4. /\ cpu.pc \in {"mask", "run"} /\ pic.initialized /\ pic.state = "Ready"
        /\ pic.count = 0
    BY <1>3 DEF WriteMask, Executes, PathInv, PhaseInv
  <2> DEFINE q == [pic EXCEPT !.imr = mask]
  <2>5. p = EvaluateInt(q)
    BY <2>3, <2>4 DEF OnData, Data
  <2>6. /\ q \in PicType /\ q.isr = pic.isr /\ q.irr = pic.irr /\ q.edge = pic.edge
        /\ q.count = pic.count /\ q.initialized = pic.initialized
        /\ q.state = pic.state /\ q.autoEoi = pic.autoEoi
    BY <1>t DEF PicType
  <2> HIDE DEF q
  <2>7. /\ p.isr = pic.isr /\ p.irr = pic.irr /\ p.edge = pic.edge
        /\ p.count = 0 /\ p.initialized /\ p.state = "Ready"
        /\ p.autoEoi = pic.autoEoi
    BY <2>4, <2>5, <2>6, EvaluateLeaves DEF SameBut
  <2>8. cpu'.pc = "run" /\ cpu'.stack = cpu.stack /\ cpu' \in CpuType
    BY <2>2, <1>t DEF CpuType
  <2>9. PhaseInv'
    BY <2>2, <2>4, <2>7, <2>8 DEF PathInv, PhaseInv, SameBut
  <2>10. NestInv'
    <3>1. CASE cpu.pc = "mask"
      <4>1. pic'.isr = {} /\ cpu'.stack = <<>>
        BY <2>2, <2>7, <2>8, <3>1 DEF PathInv, PhaseInv, SameBut
      <4> QED
        BY <2>8, <4>1 DEF NestInv, Entering, UnendedIn, Nested
    <3>2. CASE cpu.pc = "run"
      BY <2>2, <2>7, <2>8, <3>2
      DEF PathInv, NestInv, SameBut, Entering
    <3> QED
      BY <2>4, <3>1, <3>2
  <2> QED
    BY <2>2, <2>8, <2>9, <2>10 DEF PathInv
<1> QED
  BY <1>1, <1>2, <1>3 DEF Boot

\* Cycles in which the chip sees its pins only.
LEMMA QuietKeeps ==
  ASSUME PathInv, Devices \/ Sti \/ Cli \/ Accept \/ SecondCycle
  PROVE  PathInv'
<1> USE DEF Booting, Goto
<1>t. pic \in PicType /\ cpu \in CpuType /\ cpu.if \in BOOLEAN
  BY DEF PathInv, PicInv, CpuType
<1>1. PICK pc \in {"run", "ack1", "ack2"} \cup {cpu.pc}, if \in BOOLEAN,
           e \in {NoEvent, IntaRise} :
        /\ Cycle(e, [cpu EXCEPT !.pc = pc, !.if = if])
        /\ e = NoEvent \/ (e = IntaRise /\ pic.count < 2)
        /\ \/ pc = cpu.pc
           \/ cpu.pc = "run" /\ pc = "ack1" /\ pic.int
           \/ cpu.pc = "ack2rise" /\ pc = "ack2"
  <2>1. CASE Devices
    <3>1. cpu = [cpu EXCEPT !.pc = cpu.pc, !.if = cpu.if]
      BY <1>t DEF CpuType
    <3> QED
      BY <1>t, <2>1, <3>1 DEF Devices
  <2>2. CASE Sti
    <3>1. [cpu EXCEPT !.if = TRUE] = [cpu EXCEPT !.pc = cpu.pc, !.if = TRUE]
      BY <1>t DEF CpuType
    <3> QED
      BY <2>2, <3>1 DEF Sti
  <2>3. CASE Cli
    <3>1. [cpu EXCEPT !.if = FALSE] = [cpu EXCEPT !.pc = cpu.pc, !.if = FALSE]
      BY <1>t DEF CpuType
    <3> QED
      BY <2>3, <3>1 DEF Cli
  <2>4. CASE Accept
    <3>1. [cpu EXCEPT !.pc = "ack1"] = [cpu EXCEPT !.pc = "ack1", !.if = cpu.if]
      BY <1>t DEF CpuType
    <3> QED
      BY <1>t, <2>4, <3>1 DEF Accept, Interrupted
  <2>5. CASE SecondCycle
    <3>1. [cpu EXCEPT !.pc = "ack2"] = [cpu EXCEPT !.pc = "ack2", !.if = cpu.if]
      BY <1>t DEF CpuType
    <3>2. pic.count < 2
      BY <2>5 DEF SecondCycle, PathInv, PhaseInv
    <3> QED
      BY <1>t, <2>5, <3>1, <3>2 DEF SecondCycle
  <2> QED
    BY <2>1, <2>2, <2>3, <2>4, <2>5
<1>2. /\ cpu' = [cpu EXCEPT !.pc = pc, !.if = if]
      /\ PicInv(pic') /\ SameBut(pic, pic')
      /\ ~pic'.edge => pic'.irr = {}
      /\ pic.int => pic'.int
  BY <1>1, QuietFacts
<1>3. cpu' \in CpuType /\ cpu'.pc = pc /\ cpu'.stack = cpu.stack
  BY <1>1, <1>2, <1>t DEF CpuType
<1>4. PhaseInv'
  BY <1>1, <1>2, <1>3 DEF PathInv, PhaseInv, SameBut
<1>5. NestInv'
  BY <1>1, <1>2, <1>3 DEF PathInv, NestInv, SameBut, Entering
<1> QED
  BY <1>2, <1>3, <1>4, <1>5 DEF PathInv

\* The request that is taken outranks every handler not yet ended.
LEMMA FirstPulseKeeps ==
  ASSUME PathInv, FirstPulse
  PROVE  PathInv'
<1> USE DEF Booting, Goto
<1>t. pic \in PicType /\ cpu \in CpuType /\ PicInv(pic)
  BY DEF PathInv, PicInv
<1>1. /\ cpu.pc = "ack1" /\ Event(IntaFall)
      /\ Cycle(IntaFall, [cpu EXCEPT !.pc = "ack2rise"])
  BY DEF FirstPulse, Event
<1>2. PICK now \in SUBSET Levels, p \in PicType :
        /\ p = BusEvent(pic, IntaFall, now) /\ PicInv(p)
        /\ PicInv(pic') /\ SameBut(p, pic')
        /\ ~p.edge /\ p.irr = {} => pic'.irr = {}
        /\ cpu' = [cpu EXCEPT !.pc = "ack2rise"]
  BY <1>1, <1>t, CycleFacts
<1>3. pic.int /\ pic.initialized /\ pic.count = 0 /\ pic.state = "Ready"
  BY <1>1 DEF PathInv, PhaseInv
<1> DEFINE lvl == Highest(pic.irr \ pic.imr)
<1>4. /\ lvl \in Levels /\ lvl # None
      /\ Highest(pic.isr) = None \/ lvl < Highest(pic.isr)
  <2>1. Requests(pic)
    BY <1>3, <1>t DEF PicInv, IntCurrent
  <2>2. pic.irr \ pic.imr \in SUBSET Levels
    BY <1>t DEF PicType
  <2> QED
    BY <2>1, <2>2, HighestFacts DEF Requests
<1> HIDE DEF lvl
<1>5. p = FirstInta(pic)
  BY <1>2, <1>3 DEF BusEvent, IntaFall, OnIntaFalling
<1>6. p = [[pic EXCEPT !.count = 1, !.level = lvl]
             EXCEPT !.isr = @ \cup {lvl}, !.irr = @ \ {lvl}, !.int = FALSE]
  BY <1>4, <1>5 DEF FirstInta, lvl
<1>7. /\ p.isr = pic.isr \cup {lvl} /\ p.count = 1 /\ p.level = lvl
      /\ p.initialized /\ p.state = "Ready" /\ p.edge = pic.edge
      /\ p.irr \subseteq pic.irr /\ p.autoEoi = pic.autoEoi
  BY <1>3, <1>4, <1>6, <1>t DEF PicType
<1>8. cpu' \in CpuType /\ cpu'.pc = "ack2rise" /\ cpu'.stack = cpu.stack
  BY <1>2, <1>t DEF CpuType
<1>9. PhaseInv'
  BY <1>2, <1>4, <1>7, <1>8 DEF PathInv, PhaseInv, SameBut
<1>10. NestInv'
  <2>1. \A u \in pic.isr : lvl < u
    <3>1. pic.isr \in SUBSET Levels /\ Levels \subseteq Int
      BY <1>t, NLevelsAssumption DEF PicType, Levels
    <3>2. \A u \in pic.isr : Highest(pic.isr) # None /\ Highest(pic.isr) <= u
      BY <3>1, HighestFacts
    <3>3. Highest(pic.isr) \in Int /\ lvl \in Int /\ pic.isr \subseteq Int
      <4>1. Highest(pic.isr) \in Levels \cup {None}
        BY <3>1, HighestFacts
      <4>2. None \in Int
        BY DEF None
      <4> QED
        BY <1>4, <3>1, <4>1, <4>2
    <3> QED
      BY <1>4, <3>2, <3>3
  <2> QED
    BY <1>1, <1>2, <1>7, <1>8, <2>1 DEF PathInv, NestInv, SameBut, Entering
<1> QED
  BY <1>2, <1>8, <1>9, <1>10 DEF PathInv

LEMMA SecondPulseKeeps ==
  ASSUME PathInv, SecondPulse
  PROVE  PathInv'
<1> USE DEF Booting, Goto
<1>t. pic \in PicType /\ cpu \in CpuType /\ PicInv(pic)
  BY DEF PathInv, PicInv
<1>1. /\ cpu.pc = "ack2" /\ Event(IntaFall)
      /\ Cycle(IntaFall, [cpu EXCEPT !.pc = "read"])
  BY DEF SecondPulse, Event
<1>2. PICK now \in SUBSET Levels, p \in PicType :
        /\ p = BusEvent(pic, IntaFall, now) /\ PicInv(p)
        /\ PicInv(pic') /\ SameBut(p, pic')
        /\ ~p.edge /\ p.irr = {} => pic'.irr = {}
        /\ cpu' = [cpu EXCEPT !.pc = "read"]
  BY <1>1, <1>t, CycleFacts
<1>3. /\ pic.initialized /\ pic.count = 1 /\ pic.state = "Ready"
      /\ pic.level \in Levels
  BY <1>1 DEF PathInv, PhaseInv
<1> DEFINE isr == IF pic.autoEoi THEN pic.isr \ {pic.level} ELSE pic.isr
           q   == [pic EXCEPT !.count = 2, !.vec = pic.level, !.isr = isr]
<1>4. p = EvaluateInt(q)
  BY <1>2, <1>3 DEF BusEvent, IntaFall, OnIntaFalling, SecondInta
<1>5. /\ q \in PicType /\ q.isr = isr /\ q.count = 2 /\ q.vec = pic.level
      /\ q.level = pic.level /\ q.initialized /\ q.state = "Ready"
      /\ q.edge = pic.edge /\ q.irr = pic.irr /\ q.autoEoi = pic.autoEoi
  BY <1>3, <1>t DEF PicType
<1> HIDE DEF q
<1>6. SameBut(q, p) /\ p.irr = pic.irr
  BY <1>4, <1>5, EvaluateLeaves
<1>7. cpu' \in CpuType /\ cpu'.pc = "read" /\ cpu'.stack = cpu.stack
  BY <1>2, <1>t DEF CpuType
<1>8. PhaseInv'
  BY <1>2, <1>3, <1>5, <1>6, <1>7 DEF PathInv, PhaseInv, SameBut
<1>9. NestInv'
  BY <1>1, <1>2, <1>5, <1>6, <1>7 DEF PathInv, NestInv, SameBut, Entering
<1> QED
  BY <1>2, <1>7, <1>8, <1>9 DEF PathInv

\* The level entered becomes the top handler.
LEMMA ReadVectorKeeps ==
  ASSUME PathInv, ReadVector
  PROVE  PathInv'
<1> USE DEF Booting
<1>t. pic \in PicType /\ cpu \in CpuType /\ cpu.stack \in Seq(Handler)
  BY DEF PathInv, PicInv, CpuType
<1> DEFINE h == [lvl |-> pic.vec, ended |-> FALSE]
           next == [pc |-> "release", if |-> FALSE, stack |-> <<h>> \o cpu.stack]
<1>1. /\ cpu.pc = "read" /\ Cycle(NoEvent, next)
  BY DEF ReadVector
<1>2. /\ cpu' = next /\ PicInv(pic') /\ SameBut(pic, pic')
      /\ ~pic'.edge => pic'.irr = {}
  BY <1>1, QuietFacts
<1>3. /\ pic.initialized /\ pic.count = 2 /\ pic.state = "Ready"
      /\ pic.level \in Levels /\ pic.vec = pic.level
  BY <1>1 DEF PathInv, PhaseInv
<1>4. h \in Handler
  BY <1>3 DEF Handler
<1>5. <<h>> \o cpu.stack \in Seq(Handler)
  BY <1>4, <1>t
<1>6. cpu' \in CpuType /\ cpu'.pc = "release" /\ cpu'.stack = <<h>> \o cpu.stack
  BY <1>2, <1>5 DEF CpuType
<1>7. PhaseInv'
  BY <1>2, <1>3, <1>6 DEF PhaseInv, SameBut
<1>8. NestInv'
  <2> SUFFICES ASSUME ~pic'.autoEoi
               PROVE  /\ pic'.isr = UnendedIn(cpu'.stack)
                      /\ Nested(cpu'.stack)
    BY <1>6 DEF NestInv, Entering
  <2>1. /\ pic.isr = UnendedIn(cpu.stack) \cup {pic.level}
        /\ \A u \in UnendedIn(cpu.stack) : pic.level < u
        /\ Nested(cpu.stack)
    BY <1>1, <1>2 DEF PathInv, NestInv, Entering, SameBut
  <2>2. /\ Nested(cpu'.stack)
        /\ UnendedIn(cpu'.stack) = UnendedIn(cpu.stack) \cup {pic.level}
    BY <1>3, <1>6, <1>t, <2>1, PushNests
  <2> QED
    BY <1>2, <2>1, <2>2 DEF SameBut
<1> QED
  BY <1>2, <1>6, <1>7, <1>8 DEF PathInv

LEMMA ReleaseKeeps ==
  ASSUME PathInv, Release
  PROVE  PathInv'
<1> USE DEF Booting, Goto
<1>t. pic \in PicType /\ cpu \in CpuType /\ PicInv(pic)
  BY DEF PathInv, PicInv
<1>1. /\ cpu.pc = "release" /\ Event(IntaRise)
      /\ Cycle(IntaRise, [cpu EXCEPT !.pc = "run"])
  BY DEF Release, Event
<1>2. PICK now \in SUBSET Levels, p \in PicType :
        /\ p = BusEvent(pic, IntaRise, now) /\ PicInv(p)
        /\ PicInv(pic') /\ SameBut(p, pic')
        /\ ~p.edge /\ p.irr = {} => pic'.irr = {}
        /\ cpu' = [cpu EXCEPT !.pc = "run"]
  BY <1>1, <1>t, CycleFacts
<1>3. pic.initialized /\ pic.count = 2 /\ pic.state = "Ready"
  BY <1>1 DEF PathInv, PhaseInv
<1>4. p = [pic EXCEPT !.count = 0, !.level = None, !.vec = None]
  BY <1>2, <1>3 DEF BusEvent, IntaRise, OnIntaRising
<1>5. /\ p.isr = pic.isr /\ p.count = 0 /\ p.initialized /\ p.state = "Ready"
      /\ p.edge = pic.edge /\ p.irr = pic.irr /\ p.autoEoi = pic.autoEoi
  BY <1>3, <1>4, <1>t DEF PicType
<1>6. cpu' \in CpuType /\ cpu'.pc = "run" /\ cpu'.stack = cpu.stack
  BY <1>2, <1>t DEF CpuType
<1>7. PhaseInv'
  BY <1>2, <1>5, <1>6 DEF PathInv, PhaseInv, SameBut
<1>8. NestInv'
  BY <1>1, <1>2, <1>5, <1>6 DEF PathInv, NestInv, SameBut, Entering
<1> QED
  BY <1>2, <1>6, <1>7, <1>8 DEF PathInv

\* The most urgent level in service is the top handler's: either EOI ends it.
LEMMA WriteEoiKeeps ==
  ASSUME PathInv, WriteEoi
  PROVE  PathInv'
<1> USE DEF Booting
<1>t. /\ pic \in PicType /\ cpu \in CpuType /\ PicInv(pic)
      /\ cpu.stack \in Seq(Handler)
  BY DEF PathInv, PicInv, CpuType
<1> DEFINE top  == Head(cpu.stack)
           left == <<[top EXCEPT !.ended = TRUE]>> \o Tail(cpu.stack)
<1>1. /\ cpu.pc = "run" /\ cpu.stack # <<>> /\ ~top.ended /\ ~pic.autoEoi
      /\ pic.initialized /\ pic.state = "Ready" /\ pic.count = 0
  BY DEF WriteEoi, Executes, InHandler, Ended, PathInv, PhaseInv
<1>2. PICK e \in {Eoi, SpecificEoi(top.lvl)} :
        Cycle(e, [cpu EXCEPT !.stack = left])
  BY DEF WriteEoi
<1>3. Event(e)
  BY DEF Event
<1>4. PICK now \in SUBSET Levels, p \in PicType :
        /\ p = BusEvent(pic, e, now) /\ PicInv(p)
        /\ PicInv(pic') /\ SameBut(p, pic')
        /\ ~p.edge /\ p.irr = {} => pic'.irr = {}
        /\ cpu' = [cpu EXCEPT !.stack = left]
  BY <1>2, <1>3, <1>t, CycleFacts
<1>5. pic.isr = UnendedIn(cpu.stack) /\ Nested(cpu.stack)
  BY <1>1 DEF PathInv, NestInv, Entering
<1>6. /\ Nested(left) /\ UnendedIn(left) = pic.isr \ {top.lvl}
      /\ top.lvl \in pic.isr
      /\ \A u \in pic.isr : top.lvl <= u
  <2>1. /\ cpu.stack # <<>> /\ Nested(cpu.stack) /\ ~Head(cpu.stack).ended
        /\ left = <<[Head(cpu.stack) EXCEPT !.ended = TRUE]>> \o Tail(cpu.stack)
    BY <1>1, <1>5
  <2>2. top = Head(cpu.stack)
    OBVIOUS
  <2> HIDE DEF top, left
  <2>3. cpu.stack \in Seq(Handler)
    BY <1>t
  <2>4. /\ Nested(left) /\ UnendedIn(left) = UnendedIn(cpu.stack) \ {Head(cpu.stack).lvl}
        /\ Head(cpu.stack).lvl \in UnendedIn(cpu.stack)
        /\ \A u \in UnendedIn(cpu.stack) : Head(cpu.stack).lvl <= u
    BY ONLY <2>1, <2>3, EndNests, Zenon
  <2> QED
    BY <2>2, <2>4, <1>5
<1>7. left \in Seq(Handler)
  <2>1. top \in Handler /\ Tail(cpu.stack) \in Seq(Handler)
    BY <1>1, <1>t
  <2>2. [top EXCEPT !.ended = TRUE] \in Handler
    BY <2>1 DEF Handler
  <2> QED
    BY <2>1, <2>2
<1> HIDE DEF top, left
<1>8. Highest(pic.isr) = top.lvl
  <2>1. pic.isr \in SUBSET Levels /\ Levels \subseteq Int
    BY <1>t, NLevelsAssumption DEF PicType, Levels
  <2>2. Highest(pic.isr) \in pic.isr /\ Highest(pic.isr) <= top.lvl
    BY <1>6, <2>1, HighestFacts
  <2>3. top.lvl <= Highest(pic.isr) /\ top.lvl \in Int /\ Highest(pic.isr) \in Int
    BY <1>6, <2>1, <2>2
  <2> QED
    BY <2>2, <2>3
<1>9. p = EndOfInterrupt(pic, top.lvl)
  BY <1>1, <1>4, <1>8 DEF BusEvent, OnBusWrite, Eoi, SpecificEoi
<1> DEFINE q == [pic EXCEPT !.isr = @ \ {top.lvl}]
<1>10. /\ q \in PicType /\ q.isr = pic.isr \ {top.lvl} /\ q.irr = pic.irr
       /\ q.edge = pic.edge /\ q.count = 0 /\ q.initialized /\ q.state = "Ready"
  BY <1>1, <1>t DEF PicType
<1> HIDE DEF q
<1>11. SameBut(q, p) /\ p.irr = q.irr
  BY <1>9, <1>10, EvaluateLeaves DEF EndOfInterrupt, q
<1>12. cpu' \in CpuType /\ cpu'.pc = "run" /\ cpu'.stack = left
  BY <1>1, <1>4, <1>7, <1>t DEF CpuType
<1>13. PhaseInv'
  BY <1>4, <1>10, <1>11, <1>12 DEF PathInv, PhaseInv, SameBut
<1>14. NestInv'
  BY <1>4, <1>6, <1>10, <1>11, <1>12 DEF NestInv, SameBut, Entering
<1> QED
  BY <1>4, <1>12, <1>13, <1>14 DEF PathInv

LEMMA IretKeeps ==
  ASSUME PathInv, Iret
  PROVE  PathInv'
<1> USE DEF Booting
<1>t. pic \in PicType /\ cpu \in CpuType /\ cpu.stack \in Seq(Handler)
  BY DEF PathInv, PicInv, CpuType
<1>1. /\ cpu.pc = "run" /\ cpu.stack # <<>>
      /\ Head(cpu.stack).ended \/ pic.autoEoi
      /\ Cycle(NoEvent, [cpu EXCEPT !.if = TRUE, !.stack = Tail(cpu.stack)])
  BY DEF Iret, Executes, Ended, InHandler
<1>2. /\ cpu' = [cpu EXCEPT !.if = TRUE, !.stack = Tail(cpu.stack)]
      /\ PicInv(pic') /\ SameBut(pic, pic')
      /\ ~pic'.edge => pic'.irr = {}
  BY <1>1, QuietFacts
<1>3. Tail(cpu.stack) \in Seq(Handler)
  BY <1>1, <1>t
<1>4. cpu' \in CpuType /\ cpu'.pc = "run" /\ cpu'.stack = Tail(cpu.stack)
  BY <1>1, <1>2, <1>3, <1>t DEF CpuType
<1>5. PhaseInv'
  BY <1>1, <1>2, <1>4 DEF PathInv, PhaseInv, SameBut
<1>6. NestInv'
  <2> SUFFICES ASSUME ~pic'.autoEoi
               PROVE  pic'.isr = UnendedIn(cpu'.stack) /\ Nested(cpu'.stack)
    BY <1>4 DEF NestInv, Entering
  <2>1. /\ pic.isr = UnendedIn(cpu.stack) /\ Nested(cpu.stack)
        /\ Head(cpu.stack).ended
    BY <1>1, <1>2 DEF PathInv, NestInv, Entering, SameBut
  <2> QED
    BY <1>1, <1>2, <1>4, <1>t, <2>1, PopNests DEF SameBut
<1> QED
  BY <1>2, <1>4, <1>5, <1>6 DEF PathInv

\* A reset forgets the handlers; the chip is initialised again.
LEMMA CpuResetKeeps ==
  ASSUME PathInv, CpuReset
  PROVE  PathInv'
<1> USE DEF Booting
<1>t. pic \in PicType /\ PicInv(pic)
  BY DEF PathInv, PicInv
<1> DEFINE next == [pc |-> "icw1", if |-> FALSE, stack |-> <<>>]
<1>1. PICK e \in {IntaRise, NoEvent} : Cycle(e, next)
  BY DEF CpuReset
<1>2. Event(e)
  BY DEF Event
<1>3. PICK now \in SUBSET Levels, p \in PicType :
        /\ p = BusEvent(pic, e, now)
        /\ PicInv(pic')
        /\ SameBut(p, pic') /\ (~p.edge /\ p.irr = {} => pic'.irr = {})
        /\ cpu' = next
  BY <1>1, <1>2, <1>t, CycleFacts
<1>4. p.edge = pic.edge /\ p.irr = pic.irr
  BY <1>3, <1>t DEF BusEvent, NoEvent, IntaRise, OnIntaRising, PicType
<1>5. cpu' \in CpuType /\ cpu'.pc = "icw1" /\ cpu'.stack = <<>>
  BY <1>3 DEF CpuType
<1> QED
  BY <1>3, <1>4, <1>5 DEF PathInv, PhaseInv, NestInv, SameBut

THEOREM PathInvariance == Spec => []PathInv
<1>1. Init => PathInv
  <2> SUFFICES ASSUME Init PROVE PathInv
    OBVIOUS
  <2>1. pic \in PicType /\ ~pic.int /\ ~pic.initialized /\ pic.irr = {} /\ pic.edge
    BY DEF Init, PowerOn, PicType
  <2>2. cpu \in CpuType /\ cpu.pc = "icw1" /\ cpu.stack = <<>>
    BY DEF Init, CpuType, Booting
  <2> QED
    BY <2>1, <2>2 DEF PathInv, PicInv, IntCurrent, PhaseInv, NestInv, Booting
<1>2. PathInv /\ [Next]_vars => PathInv'
  <2> SUFFICES ASSUME PathInv, [Next]_vars PROVE PathInv'
    OBVIOUS
  <2>1. CASE UNCHANGED vars
    BY <2>1 DEF vars, PathInv, PicInv, IntCurrent, Requests, PhaseInv, NestInv, Entering
  <2> QED
    BY <2>1, QuietKeeps, BootKeeps, FirstPulseKeeps, SecondPulseKeeps,
       ReadVectorKeeps, ReleaseKeeps, WriteEoiKeeps, IretKeeps, CpuResetKeeps
    DEF Next, Acknowledge
<1> QED
  BY <1>1, <1>2, PTL DEF Spec

\* The 8088 never reads a vector from a floating bus, whatever is masked, ended
\* or reset between its acknowledges (ic/ic_8259a.cpp, on_inta_falling()).
THEOREM VectorNeverFloats == Spec => []NoFloatingVector
<1>1. None \notin Levels
  BY NLevelsAssumption DEF None, Levels
<1>2. PathInv => NoFloatingVector
  BY <1>1 DEF PathInv, PhaseInv, NoFloatingVector
<1> QED
  BY PathInvariance, <1>2, PTL

\* The in-service register is the stack of unended handlers, for every number
\* of IR pins and every depth of nesting.
THEOREM InServiceIsTheStack == Spec => []InServiceMatchesHandlers
<1>1. PathInv => InServiceMatchesHandlers
  BY DEF PathInv, NestInv, InServiceMatchesHandlers, Unended, UnendedIn, Nested
<1> QED
  BY PathInvariance, <1>1, PTL

=============================================================================
