------------------------ MODULE ClockSystemProofs ------------------------
(***************************************************************************)
(* Proofs about ClockSystem: whatever the three threads do, in whatever    *)
(* order and under any setting of the user and of the host, no step credit *)
(* of the debugger is lost or served twice, in_pause_gate_ never shows a   *)
(* running clock thread as a parked one, and a save reads a parked machine.*)
(* If the user leaves the machine alone during a load, the load overwrites *)
(* one that has run no cycle.                                              *)
(***************************************************************************)
EXTENDS ClockSystem, PlanCache, TLAPS

\* Where the clock thread can be with a step credit it has taken and not run.
PaidPCs == {"unpark", "break", "breakPause", "breakClear", "tsc", "tscAge",
            "tscPause", "tscStore", "run"}

\* The inductive invariant: a credit is held only on the way from the
\* compare-exchange to the cycle, and the compare-exchange is only tried with
\* a positive count.
GateInv ==
  /\ GateTypeOK
  /\ StepCreditConserved
  /\ InGateMeansParked
  /\ hist.paid => pc \in PaidPCs
  /\ pc = "cas" => seen > 0

\* What the steps below use of the invariant, with the numbers typed.
GateFacts ==
  /\ GateTypeOK
  /\ dbg.steps \in 0 .. MaxSteps
  /\ dbg.steps \in Nat /\ hist.owed \in Nat /\ seen \in Nat
  /\ hist.owed = dbg.steps + (IF hist.paid THEN 1 ELSE 0)
  /\ InGateMeansParked
  /\ hist.paid => pc \in PaidPCs
  /\ pc = "cas" => seen > 0

LEMMA FactsFromInv == GateInv => GateFacts
  BY MaxStepsAssumption
  DEF GateInv, GateFacts, GateTypeOK, DbgType, StepCreditConserved

\* A step that leaves the credit variables and the clock thread's position
\* alone keeps the invariant if it keeps dbg and cpu well-typed.
LEMMA QuietStep ==
  ASSUME GateInv,
         dbg' \in DbgType, cpu' \in [instrNew : BOOLEAN, overHit : BOOLEAN],
         dbg'.steps = dbg.steps, dbg'.inGate = dbg.inGate,
         hist' \in [owed : 0 .. MaxSteps + 1, paid : BOOLEAN, lag : Nat],
         hist'.owed = hist.owed, hist'.paid = hist.paid,
         UNCHANGED <<pc, seen, ret>>
  PROVE  GateInv'
<1>1. GateTypeOK'
  BY DEF GateInv, GateTypeOK, DbgType
<1>2. StepCreditConserved' /\ InGateMeansParked'
  BY DEF GateInv, StepCreditConserved, InGateMeansParked, LoopPCs
<1> QED
  BY <1>1, <1>2 DEF GateInv, PaidPCs

LEMMA InitGateInv == Init => GateInv
  BY MaxStepsAssumption
  DEF Init, GateInit, DbgInit, CpuInit, HistInit, GateInv, GateTypeOK, DbgType, TscState, Monitor,
      StepCreditConserved, InGateMeansParked

\* A round touches no credit.
LEMMA RoundIsQuiet ==
  ASSUME hist \in [owed : 0 .. MaxSteps + 1, paid : BOOLEAN, lag : Nat]
  PROVE  /\ Round \in [owed : 0 .. MaxSteps + 1, paid : BOOLEAN, lag : Nat]
         /\ Round.owed = hist.owed /\ Round.paid = hist.paid
         /\ Round.lag = IF hist.lag > 0 THEN hist.lag - 1 ELSE 0
  BY DEF Round

\* The way from the gate to the cycle: the breakpoint and the time stamp.
WayPCs == {"break", "breakPause", "breakClear", "tsc", "tscAge", "tscPause",
           "tscStore"}

OnTheWay ==
  \/ Breakpoint \/ BreakPause \/ BreakClear
  \/ TscCheck \/ TscAge \/ TscPause \/ TscStore

WayStored ==
  \/ dbg' = dbg
  \/ dbg' = [dbg EXCEPT !.paused = TRUE]
  \/ dbg' = [dbg EXCEPT !.brk = FALSE]
  \/ dbg' = [dbg EXCEPT !.lastTsc = "recent"]

\* On that way the thread pauses, disarms the breakpoint or stamps the time,
\* and it does not enter the gate.
LEMMA WayStores ==
  ASSUME OnTheWay
  PROVE  /\ WayStored /\ UNCHANGED <<cpu, seen, ret, hist>>
         /\ pc \in WayPCs /\ pc' \in WayPCs \cup {"run"}
<1> USE DEF WayPCs, WayStored, Goto
<1>1. CASE Breakpoint
  BY <1>1 DEF Breakpoint
<1>2. CASE TscCheck \/ TscAge
  BY <1>2 DEF TscCheck, TscAge
<1>3. CASE BreakPause \/ BreakClear \/ TscPause \/ TscStore
  BY <1>3 DEF BreakPause, BreakClear, TscPause, TscStore, GateStore
<1> QED
  BY <1>1, <1>2, <1>3 DEF OnTheWay

\* The clock thread inside evaluate() and pause_gate().
LEMMA GateStepKeepsInv ==
  ASSUME GateInv, GateStepNext
  PROVE  GateInv'
<1>f. GateFacts
  BY FactsFromInv
<1> USE MaxStepsAssumption
    DEF GateFacts, GateTypeOK, TscState, Monitor, Goto, LoopPCs, PaidPCs,
        GateInv, StepCreditConserved, InGateMeansParked
<1>1. CASE EnterEvaluate
  <2>1. /\ hist' \in [owed : 0 .. MaxSteps + 1, paid : BOOLEAN, lag : Nat]
        /\ hist'.owed = hist.owed /\ hist'.paid = hist.paid
    BY <1>1, <1>f, RoundIsQuiet DEF EnterEvaluate
  <2>2. /\ UNCHANGED <<dbg, cpu, seen, ret>>
        /\ pc = "evaluate" /\ pc' \in {"gateInstr", "break"}
    BY <1>1 DEF EnterEvaluate
  <2> QED
    BY <1>f, <2>1, <2>2
<1>2. CASE GateInstr \/ GateOver
  BY <1>2, <1>f DEF GateInstr, GateOver, GateStep
<1>3. CASE ClearStepInstr \/ ClearStepOver \/ Park \/ Unpark
  <2>1. dbg' \in DbgType /\ dbg'.steps = dbg.steps
    BY ZenonT(30), <1>f, <1>3 DEF ClearStepInstr, ClearStepOver, Park, Unpark, DbgType
  <2>2. hist' = hist /\ seen' = seen /\ ret' = ret
    BY <1>3 DEF ClearStepInstr, ClearStepOver, Park, Unpark
  <2>3. cpu' \in [instrNew : BOOLEAN, overHit : BOOLEAN]
    BY <1>f, <1>3 DEF ClearStepInstr, ClearStepOver, Park, Unpark
  <2>4. InGateMeansParked'
    BY <1>f, <1>3 DEF ClearStepInstr, ClearStepOver, Park, Unpark, DbgType
  <2>5. GateTypeOK'
    BY <1>f, <2>1, <2>2, <2>3 DEF DbgType
  <2>6. (hist.paid => pc' \in PaidPCs) /\ pc' # "cas"
    BY <1>f, <1>3 DEF ClearStepInstr, ClearStepOver, Park, Unpark
  <2> QED
    BY <1>f, <2>1, <2>2, <2>4, <2>5, <2>6
<1>4. CASE LoadSteps
  <2>1. seen' \in 0 .. MaxSteps /\ (pc' = "cas" => seen' > 0)
    BY <1>f, <1>4 DEF LoadSteps
  <2>2. /\ hist' \in [owed : 0 .. MaxSteps + 1, paid : BOOLEAN, lag : Nat]
        /\ hist'.owed = hist.owed /\ hist'.paid = hist.paid
    BY <1>4, <1>f, RoundIsQuiet DEF LoadSteps
  <2>3. /\ UNCHANGED <<dbg, cpu, ret>>
        /\ pc = "load" /\ pc' \in {"cas", "ifPaused"}
    BY <1>4 DEF LoadSteps
  <2> QED
    BY <1>f, <2>1, <2>2, <2>3
<1>5. CASE CasTakes
  <2>1. pc = "cas" /\ pc' = "unpark" /\ seen > 0 /\ ~hist.paid
    BY <1>f, <1>5 DEF CasTakes
  <2>2. dbg.steps = seen /\ hist.owed = dbg.steps
    BY <1>f, <1>5, <2>1 DEF CasTakes
  <2>3. dbg' \in DbgType /\ dbg'.steps = dbg.steps - 1
    BY <1>f, <1>5, <2>1, <2>2 DEF CasTakes, DbgType
  <2>4. /\ hist' \in [owed : 0 .. MaxSteps + 1, paid : BOOLEAN, lag : Nat]
        /\ hist'.owed = hist.owed /\ hist'.paid
    BY <1>f, <1>5 DEF CasTakes
  <2>5. cpu' = cpu /\ ret' = ret /\ seen' \in 0 .. MaxSteps
    BY <1>5 DEF CasTakes
  <2>6. GateTypeOK'
    BY <1>f, <2>3, <2>4, <2>5 DEF DbgType
  <2>7. StepCreditConserved'
    BY <1>f, <2>2, <2>3, <2>4
  <2> QED
    BY <2>1, <2>6, <2>7
<1>6. CASE CasFails
  BY <1>6, <1>f DEF CasFails
<1>7. CASE IfResumed \/ IfStepInstr \/ IfStepOver
  BY <1>7, <1>f DEF IfResumed, IfStepInstr, IfStepOver, LeaveIf
<1>8. CASE Arm \/ Awake
  <2>1. dbg' \in DbgType /\ dbg'.steps = dbg.steps /\ dbg'.inGate = dbg.inGate
    BY <1>f, <1>8 DEF Arm, Awake, DbgType
  <2>2. UNCHANGED <<cpu, seen, ret, hist>>
    BY <1>8 DEF Arm, Awake
  <2>3. pc \in LoopPCs /\ pc' \in LoopPCs /\ pc' # "cas" /\ pc \notin PaidPCs
    BY <1>8 DEF Arm, Awake
  <2>4. GateTypeOK'
    BY <1>f, <2>1, <2>2 DEF DbgType
  <2> QED
    BY <1>f, <2>1, <2>2, <2>3, <2>4
<1>9. CASE OnTheWay
  <2>1. dbg' \in DbgType /\ dbg'.steps = dbg.steps /\ dbg'.inGate = dbg.inGate
    BY <1>f, <1>9, WayStores DEF WayStored, DbgType
  <2>2. UNCHANGED <<cpu, seen, ret, hist>>
    BY <1>9, WayStores
  <2>3. pc \in WayPCs /\ pc' \in WayPCs \cup {"run"}
    BY <1>9, WayStores
  <2>4. GateTypeOK'
    BY <1>f, <2>1, <2>2 DEF DbgType
  <2> QED
    BY <1>f, <2>1, <2>2, <2>3, <2>4 DEF WayPCs
<1> QED
  BY <1>1, <1>2, <1>3, <1>4, <1>5, <1>6, <1>7, <1>8, <1>9
  DEF GateStepNext, OnTheWay


\* The rest of IC_8284A::run(): no credit is touched, no gate entered.
LEMMA ClockKeepsInv ==
  ASSUME GateInv, ClockThread
  PROVE  GateInv'
<1>f. GateFacts
  BY FactsFromInv
<1>1. CASE ClockGate
  BY <1>1, GateStepKeepsInv DEF ClockGate
<1>2. CASE AwaitPower \/ SpinTop \/ StartReset \/ HoldReset \/ Release
  <2>1. UNCHANGED <<dbg, cpu, seen, hist>> /\ ret' \in {"loop", "down"}
    BY <1>2, <1>f DEF AwaitPower, SpinTop, StartReset, HoldReset, Release,
                      GateFacts, GateTypeOK
  <2>2. /\ pc \in {"await", "top", "resetting", "hold", "release"}
        /\ pc' # "cas"
    BY <1>2 DEF AwaitPower, SpinTop, StartReset, HoldReset, Release, Goto
  <2> QED
    BY <1>f, <2>1, <2>2
    DEF GateFacts, GateInv, GateTypeOK, DbgType, StepCreditConserved,
        InGateMeansParked, LoopPCs, PaidPCs
<1>3. CASE PowerOnAll
  <2>1. dbg' \in DbgType /\ dbg'.steps = dbg.steps /\ dbg'.inGate = dbg.inGate
    BY <1>3, <1>f DEF PowerOnAll, GateFacts, GateTypeOK, DbgType, TscState
  <2>2. /\ UNCHANGED <<cpu, seen, ret, hist>>
        /\ pc = "powerOn" /\ pc' # "cas"
    BY <1>3 DEF PowerOnAll, Goto
  <2> QED
    BY <1>f, <2>1, <2>2
    DEF GateFacts, GateInv, GateTypeOK, DbgType, StepCreditConserved,
        InGateMeansParked, LoopPCs, PaidPCs
<1>4. CASE RunCycle
  <2>1. pc = "run" /\ pc' \in {"top", "release"} /\ UNCHANGED <<dbg, seen, ret>>
    BY <1>4 DEF RunCycle, RunPlan, Goto
  <2>2. cpu' \in [instrNew : BOOLEAN, overHit : BOOLEAN]
    <3>1. PICK finishes \in BOOLEAN, atTarget \in BOOLEAN :
            cpu' = [cpu EXCEPT !.instrNew = @ \/ finishes, !.overHit = atTarget]
      BY <1>4, Zenon DEF RunCycle, RunPlan
    <3>2. (cpu.instrNew \/ finishes) \in BOOLEAN
      OBVIOUS
    <3> QED
      BY <3>1, <3>2, <1>f DEF GateFacts, GateTypeOK
  <2>3. /\ hist'.owed = dbg.steps /\ hist'.paid = FALSE
        /\ hist' \in [owed : 0 .. MaxSteps + 1, paid : BOOLEAN, lag : Nat]
    <3>1. (IF hist.paid THEN hist.owed - 1 ELSE hist.owed) = dbg.steps
      BY <1>f DEF GateFacts
    <3>2. hist' = [hist EXCEPT !.paid = FALSE, !.owed = dbg.steps]
      BY <1>4, <1>f, <3>1 DEF RunCycle, RunPlan, GateFacts, GateTypeOK
    <3>3. dbg.steps \in 0 .. MaxSteps + 1
      BY <1>f, MaxStepsAssumption DEF GateFacts
    <3> QED
      BY <3>2, <3>3, <1>f DEF GateFacts, GateTypeOK
  <2> QED
    BY <1>f, <2>1, <2>2, <2>3
    DEF GateFacts, GateInv, GateTypeOK, DbgType, StepCreditConserved,
        InGateMeansParked, LoopPCs
<1> QED
  BY <1>1, <1>2, <1>3, <1>4 DEF ClockThread


\* The calls of the render thread.  Only step_cycle() touches the credit, and
\* it adds to both sides of the account.
LEMMA UiKeepsInv ==
  ASSUME GateInv, UiThread
  PROVE  GateInv'
<1>f. GateFacts
  BY FactsFromInv
<1>1. CASE PressCycle
  <2>1. /\ dbg' \in DbgType /\ dbg'.steps = dbg.steps + 1
        /\ dbg'.inGate = dbg.inGate
    BY <1>f, <1>1, MaxStepsAssumption
    DEF PressCycle, StepCycle, GateFacts, GateTypeOK, DbgType
  <2>2. /\ hist' \in [owed : 0 .. MaxSteps + 1, paid : BOOLEAN, lag : Nat]
        /\ hist'.owed = hist.owed + 1 /\ hist'.paid = hist.paid
    BY <1>f, <1>1, MaxStepsAssumption
    DEF PressCycle, StepCycle, GateFacts, GateTypeOK
  <2>3. UNCHANGED <<cpu, pc, seen, ret>>
    BY <1>1 DEF PressCycle, StepCycle
  <2>4. GateTypeOK'
    BY <1>f, <2>1, <2>2, <2>3 DEF GateFacts, GateTypeOK, DbgType
  <2>5. StepCreditConserved'
    BY <1>f, <2>1, <2>2 DEF GateFacts, StepCreditConserved
  <2>6. InGateMeansParked'
    BY <1>f, <2>1, <2>3 DEF GateFacts, InGateMeansParked, LoopPCs
  <2> QED
    BY <1>f, <2>2, <2>3, <2>4, <2>5, <2>6 DEF GateFacts, GateInv, PaidPCs
<1>2. CASE \/ Frame \/ SaveDone \/ EndFrame \/ ToggleResume \/ PressReset
           \/ UiPsuReset \/ PressLoad \/ UiExit
  <2>1. UNCHANGED gateVars
    BY <1>2 DEF Frame, SaveDone, EndFrame, ToggleResume, PressReset,
                UiPsuReset, PressLoad, UiExit, UiIdle
  <2> QED
    BY <1>f, <2>1, QuietStep DEF gateVars, GateFacts, GateTypeOK
<1>3. CASE \/ TogglePause \/ UiResumeRun \/ UiResumeTsc \/ UiWake
           \/ UiFlagInstr \/ UiFlagOver \/ EnterBreak
  <2>1. dbg' \in DbgType /\ dbg'.steps = dbg.steps /\ dbg'.inGate = dbg.inGate
    <3>1. CASE UiResumeRun
      BY <1>f, <3>1 DEF UiResumeRun, ResumeRun, GateFacts, GateTypeOK, DbgType
    <3>2. CASE \/ TogglePause \/ UiResumeTsc \/ UiWake \/ UiFlagInstr
               \/ UiFlagOver \/ EnterBreak
      BY ZenonT(30), <1>f, <3>2
      DEF TogglePause, UiResumeTsc, UiWake, UiFlagInstr, UiFlagOver,
          EnterBreak, Pause, ResumeTsc, WakeStore, StepInstrFlag,
          StepOverFlag, SetBreakAddress, GateFacts, GateTypeOK, DbgType,
          TscState, Monitor
    <3> QED
      BY <1>3, <3>1, <3>2
  <2>2. UNCHANGED <<cpu, pc, seen, ret, hist>>
    BY <1>3
    DEF TogglePause, UiResumeRun, UiResumeTsc, UiWake, UiFlagInstr,
        UiFlagOver, EnterBreak, Pause, ResumeRun, ResumeTsc, WakeStore,
        StepInstrFlag, StepOverFlag, SetBreakAddress
  <2> QED
    BY <1>f, <2>1, <2>2, QuietStep DEF GateFacts, GateTypeOK
<1>4. CASE PressInstr \/ PressOver
  <2>1. cpu' \in [instrNew : BOOLEAN, overHit : BOOLEAN]
    BY <1>f, <1>4 DEF PressInstr, PressOver, StepInstrTarget, StepOverTarget,
                      GateFacts, GateTypeOK
  <2>2. UNCHANGED <<dbg, pc, seen, ret, hist>>
    BY <1>4 DEF PressInstr, PressOver, StepInstrTarget, StepOverTarget
  <2> QED
    BY <1>f, <2>1, <2>2, QuietStep DEF GateFacts, GateTypeOK
<1>5. CASE PressSave
  <2>1. dbg' \in DbgType /\ dbg'.steps = dbg.steps /\ dbg'.inGate = dbg.inGate
    BY <1>f, <1>5 DEF PressSave, GateFacts, GateTypeOK, DbgType
  <2>2. /\ hist' \in [owed : 0 .. MaxSteps + 1, paid : BOOLEAN, lag : Nat]
        /\ hist'.owed = hist.owed /\ hist'.paid = hist.paid
    BY <1>f, <1>5, SystemAssumption DEF PressSave, GateFacts, GateTypeOK
  <2>3. UNCHANGED <<cpu, pc, seen, ret>>
    BY <1>5 DEF PressSave
  <2> QED
    BY <1>f, <2>1, <2>2, <2>3, QuietStep DEF GateFacts, GateTypeOK
<1> QED
  BY <1>1, <1>2, <1>3, <1>4, <1>5 DEF UiThread

\* The main thread: its resume and pause are quiet, starting the clock thread
\* moves it between places without credit, and a rebuild starts from nothing.
LEMMA MainKeepsInv ==
  ASSUME GateInv, MainThread
  PROVE  GateInv'
<1>f. GateFacts
  BY FactsFromInv
<1>1. CASE \/ MainPsuOn \/ MainWaitParked \/ MainToLoop \/ TakeLoad
           \/ MainJoinUi \/ MainPsuOff \/ MainRequestStop
  <2>1. UNCHANGED gateVars
    BY <1>1 DEF MainPsuOn, MainWaitParked, MainToLoop, TakeLoad, MainJoinUi,
                MainPsuOff, MainRequestStop
  <2> QED
    BY <1>f, <2>1, QuietStep DEF gateVars, GateFacts, GateTypeOK
<1>2. CASE MainPause \/ MainResumeRun \/ MainResumeTsc \/ MainWake
  <2>1. dbg' \in DbgType /\ dbg'.steps = dbg.steps /\ dbg'.inGate = dbg.inGate
    <3>1. CASE MainResumeRun
      BY <1>f, <3>1 DEF MainResumeRun, ResumeRun, GateFacts, GateTypeOK, DbgType
    <3>2. CASE MainPause \/ MainResumeTsc \/ MainWake
      BY <1>f, <3>2
      DEF MainPause, MainResumeTsc, MainWake, Pause, ResumeTsc, WakeStore,
          GateFacts, GateTypeOK, DbgType, TscState, Monitor
    <3> QED
      BY <1>2, <3>1, <3>2
  <2>2. UNCHANGED <<cpu, pc, seen, ret, hist>>
    BY <1>2
    DEF MainPause, MainResumeRun, MainResumeTsc, MainWake, Pause, ResumeRun,
        ResumeTsc, WakeStore
  <2> QED
    BY <1>f, <2>1, <2>2, QuietStep DEF GateFacts, GateTypeOK
<1>3. CASE MainStartClock
  <2>1. UNCHANGED <<dbg, cpu, seen, ret, hist>> /\ pc = "none" /\ pc' = "await"
    BY <1>3 DEF MainStartClock, Goto
  <2> QED
    BY <1>f, <2>1
    DEF GateFacts, GateInv, GateTypeOK, DbgType, StepCreditConserved,
        InGateMeansParked, LoopPCs, PaidPCs
<1>4. CASE MainJoined
  <2>1. CASE main.job = "quit"
    <3>1. UNCHANGED gateVars
      BY <1>4, <2>1 DEF MainJoined
    <3> QED
      BY <1>f, <3>1, QuietStep DEF gateVars, GateFacts, GateTypeOK
  <2>2. CASE main.job = "load"
    <3>1. dbg' \in DbgType /\ dbg'.steps = 0 /\ dbg'.inGate = FALSE
      <4>1. dbg' = DbgInit
        BY <1>4, <2>2 DEF MainJoined
      <4> QED
        BY <4>1, MaxStepsAssumption DEF DbgInit, DbgType, TscState, Monitor
    <3>2. /\ hist' = [owed |-> 0, paid |-> FALSE, lag |-> 0]
          /\ seen' = 0 /\ ret' = "loop" /\ pc' = "none"
          /\ cpu' = [instrNew |-> FALSE, overHit |-> FALSE]
      BY <1>4, <2>2 DEF MainJoined, HistInit, CpuInit
    <3>3. GateTypeOK'
      BY <3>1, <3>2, MaxStepsAssumption DEF GateTypeOK, DbgType
    <3> QED
      BY <3>1, <3>2, <3>3
      DEF GateInv, StepCreditConserved, InGateMeansParked
  <2> QED
    BY <1>4, <2>1, <2>2 DEF MainJoined
<1> QED
  BY <1>1, <1>2, <1>3, <1>4 DEF MainThread

LEMMA TimeKeepsInv ==
  ASSUME GateInv, TimePasses
  PROVE  GateInv'
<1>1. dbg' \in DbgType /\ dbg'.steps = dbg.steps /\ dbg'.inGate = dbg.inGate
  BY DEF TimePasses, Elapse, GateInv, GateTypeOK, DbgType, TscState
<1>2. UNCHANGED <<cpu, pc, seen, ret, hist>>
  BY DEF TimePasses, Elapse
<1> QED
  BY <1>1, <1>2, QuietStep DEF GateInv, GateTypeOK

\* The inductive invariant holds of every behaviour.
THEOREM GateInvariance == Spec => []GateInv
<1>1. Init => GateInv
  BY InitGateInv
<1>2. GateInv /\ [Next]_vars => GateInv'
  <2> SUFFICES ASSUME GateInv, [Next]_vars PROVE GateInv'
    OBVIOUS
  <2>1. CASE Next
    BY <2>1, ClockKeepsInv, UiKeepsInv, MainKeepsInv, TimeKeepsInv DEF Next
  <2>2. CASE UNCHANGED vars
    BY <2>2, QuietStep DEF vars, gateVars, GateInv, GateTypeOK
  <2> QED
    BY <2>1, <2>2
<1> QED
  BY <1>1, <1>2, PTL DEF Spec

\* Every step_cycle() call buys exactly one CLK cycle: scheduler.h:436 adds to
\* steps_ while scheduler.h:510 takes from it.
THEOREM StepCreditsConserved == Spec => []StepCreditConserved
<1>1. GateInv => StepCreditConserved
  BY DEF GateInv
<1> QED
  BY <1>1, GateInvariance, PTL

\* in_pause_gate_ is TRUE only while the clock thread is in the loop of
\* pause_gate(): wait_until_parked() cannot return on a running machine.
THEOREM InGateIsParked == Spec => []InGateMeansParked
<1>1. GateInv => InGateMeansParked
  BY DEF GateInv
<1> QED
  BY <1>1, GateInvariance, PTL

(***************************************************************************)
(* The types of the three threads.                                         *)
(***************************************************************************)
ClkType ==
  [psu : {"None", "PowerOn", "PowerOff", "Reset"}, resetHold : 0 .. ResetHold,
   reset : {"Low", "High"}, stop : BOOLEAN, powered : BOOLEAN, ran : BOOLEAN]

UiType ==
  [pc : {"idle", "ops", "saving", "resume", "tsc", "wake", "flagInstr",
         "flagOver", "psuReset", "gone"},
   sawPaused : BOOLEAN, after : {"ops", "psuReset"}, savePending : BOOLEAN,
   wasRunning : BOOLEAN, stepping : BOOLEAN, loadReq : BOOLEAN]

MainType ==
  [pc : {"pause", "start", "psuOn", "booted", "waitParked", "overwrite", "idle",
         "stopUi", "resume", "tsc", "wake", "psuOff", "reqStop", "join", "exit"},
   job : {"boot", "load", "quit", "none"}]

ThreadTypes ==
  /\ pc \in GatePCs \cup ClockPCs
  /\ clk \in ClkType /\ ui \in UiType /\ main \in MainType

LEMMA TypeOKSplits == TypeOK <=> GateTypeOK /\ ThreadTypes
  BY DEF TypeOK, ThreadTypes, ClkType, UiType, MainType

LEMMA InitThreadTypes == Init => ThreadTypes
  BY SystemAssumption
  DEF Init, ClkInit, UiInit, ThreadTypes, ClkType, UiType, MainType, ClockPCs

LEMMA ClockKeepsTypes ==
  ASSUME ThreadTypes, GateTypeOK, ClockThread
  PROVE  ThreadTypes'
<1> USE DEF ThreadTypes, Goto, GatePCs, LoopPCs, ClockPCs
<1>1. CASE ClockGate
  <2>1. UNCHANGED <<clk, ui, main>> /\ pc' \in GatePCs
    BY <1>1
    DEF ClockGate, GateStepNext, EnterEvaluate, GateInstr, ClearStepInstr,
        GateOver, ClearStepOver, GateStep, Park, LoadSteps, CasTakes, CasFails,
        IfResumed, IfStepInstr, IfStepOver, LeaveIf, Unpark, Arm, Awake,
        Breakpoint, BreakPause, BreakClear, GateStore, TscCheck, TscAge,
        TscPause, TscStore
  <2> QED
    BY <2>1
<1>2. CASE AwaitPower \/ SpinTop
  BY <1>2 DEF AwaitPower, SpinTop
<1>3. CASE PowerOnAll
  BY <1>3 DEF PowerOnAll, ClkType
<1>4. CASE StartReset
  <2>1. ResetHold \in 0 .. ResetHold
    BY SystemAssumption
  <2> QED
    BY <1>4, <2>1 DEF StartReset, ClkType
<1>5. CASE HoldReset
  <2> DEFINE left == IF clk.resetHold > 0 THEN clk.resetHold - 1 ELSE 0
             low  == IF clk.resetHold > 0 /\ left = 0 THEN "Low" ELSE clk.reset
  <2>1. left \in 0 .. ResetHold /\ low \in {"Low", "High"}
    BY SystemAssumption DEF ClkType
  <2>2. clk' = [clk EXCEPT !.resetHold = left, !.reset = low]
    BY <1>5 DEF HoldReset
  <2>3. UNCHANGED <<ui, main>> /\ pc' = "evaluate"
    BY <1>5 DEF HoldReset
  <2> HIDE DEF left, low
  <2> QED
    BY <2>1, <2>2, <2>3 DEF ClkType
<1>6. CASE RunCycle
  <2>1. UNCHANGED <<ui, main>> /\ clk' = [clk EXCEPT !.ran = TRUE]
    BY <1>6 DEF RunCycle
  <2>2. pc' \in {"top", "release"}
    BY <1>6 DEF RunCycle, RunPlan
  <2> QED
    BY <2>1, <2>2 DEF ClkType
<1>7. CASE Release
  BY <1>7 DEF Release, ClkType
<1> QED
  BY <1>1, <1>2, <1>3, <1>4, <1>5, <1>6, <1>7 DEF ClockThread

LEMMA UiKeepsTypes ==
  ASSUME ThreadTypes, GateTypeOK, UiThread
  PROVE  ThreadTypes'
<1> USE DEF ThreadTypes
<1>f. /\ dbg.paused \in BOOLEAN /\ dbg.stepInstr \in BOOLEAN
      /\ dbg.stepOver \in BOOLEAN
  BY DEF GateTypeOK, DbgType
<1>1. CASE Frame
  BY <1>1, <1>f DEF Frame, UiIdle, gateVars, UiType
<1>2. CASE SaveDone \/ EndFrame
  BY <1>2 DEF SaveDone, EndFrame, UiIdle, gateVars, UiType
<1>3. CASE TogglePause \/ ToggleResume \/ PressReset \/ PressLoad \/ UiExit
  BY <1>3 DEF TogglePause, ToggleResume, PressReset, PressLoad, UiExit, Pause,
              UiIdle, gateVars, UiType
<1>4. CASE UiResumeRun \/ UiResumeTsc \/ UiWake
  BY <1>4 DEF UiResumeRun, UiResumeTsc, UiWake, ResumeRun, ResumeTsc, WakeStore,
              UiType
<1>5. CASE PressCycle \/ PressInstr \/ UiFlagInstr \/ PressOver \/ UiFlagOver
  BY <1>5 DEF PressCycle, PressInstr, UiFlagInstr, PressOver, UiFlagOver,
              StepCycle, StepInstrTarget, StepInstrFlag, StepOverTarget,
              StepOverFlag, UiType
<1>6. CASE EnterBreak
  BY <1>6 DEF EnterBreak, SetBreakAddress
<1>7. CASE UiPsuReset
  BY <1>7 DEF UiPsuReset, gateVars, UiType, ClkType
<1>8. CASE PressSave
  <2>1. /\ (~dbg.paused) \in BOOLEAN
        /\ StepOwed \in BOOLEAN
    BY DEF StepOwed
  <2> QED
    BY <1>8, <2>1 DEF PressSave, UiType
<1> QED
  BY <1>1, <1>2, <1>3, <1>4, <1>5, <1>6, <1>7, <1>8 DEF UiThread

LEMMA MainKeepsTypes ==
  ASSUME ThreadTypes, MainThread
  PROVE  ThreadTypes'
<1> USE DEF ThreadTypes, MainAt
<1>1. CASE MainPause \/ MainResumeRun \/ MainResumeTsc \/ MainWake
  BY <1>1 DEF MainPause, MainResumeRun, MainResumeTsc, MainWake, Pause,
              ResumeRun, ResumeTsc, WakeStore, MainType
<1>2. CASE MainStartClock
  BY <1>2 DEF MainStartClock, Goto, ClockPCs, MainType
<1>3. CASE MainPsuOn \/ MainPsuOff \/ MainRequestStop
  BY <1>3 DEF MainPsuOn, MainPsuOff, MainRequestStop, gateVars, MainType, ClkType
<1>4. CASE MainWaitParked \/ MainToLoop \/ TakeLoad \/ MainJoinUi
  BY <1>4 DEF MainWaitParked, MainToLoop, TakeLoad, MainJoinUi, gateVars, MainType
<1>5. CASE MainJoined
  <2>1. main' \in MainType
    BY <1>5 DEF MainJoined, MainType
  <2>2. \/ UNCHANGED <<pc, clk, ui>>
        \/ pc' = "none" /\ clk' = ClkInit /\ ui' = UiInit
    BY <1>5 DEF MainJoined, gateVars
  <2>3. ClkInit \in ClkType /\ UiInit \in UiType /\ "none" \in ClockPCs
    BY SystemAssumption DEF ClkInit, UiInit, ClkType, UiType, ClockPCs
  <2> QED
    BY <2>1, <2>2, <2>3
<1> QED
  BY <1>1, <1>2, <1>3, <1>4, <1>5 DEF MainThread

LEMMA StepKeepsTypes ==
  ASSUME ThreadTypes, GateTypeOK, [Next]_vars
  PROVE  ThreadTypes'
<1>1. CASE TimePasses
  BY <1>1 DEF TimePasses, Elapse, ThreadTypes
<1>2. CASE UNCHANGED vars
  BY <1>2 DEF vars, gateVars, ThreadTypes
<1> QED
  BY <1>1, <1>2, ClockKeepsTypes, UiKeepsTypes, MainKeepsTypes DEF Next


(***************************************************************************)
(* A save reads a parked machine.                                          *)
(***************************************************************************)
\* In the loop of pause_gate(), with nothing to leave it for.
QuietPCs == {"load", "ifPaused", "ifInstr", "ifOver", "arm", "asleep"}

\* Having seen paused_, on the way into the loop.
EntryPCs == {"gateInstr", "clearInstr", "gateOver", "clearOver", "park"}

LeavingPCs == {"resume", "tsc", "wake", "psuOff", "reqStop", "join", "exit"}

Saving == ui.savePending \/ ui.pc = "saving"

\* Main resumes the machine only after it has joined the render thread, and a
\* frame with a save to make does nothing else: so nobody undoes the pause, and
\* a pause the clock thread stores late changes nothing.  With no step owed the
\* thread has one round to make before it is in the loop if it has seen paused_,
\* one more if it has not, and in the loop nothing takes it out.
SaveInv ==
  /\ pc \in LoopPCs => dbg.inGate
  /\ main.pc \in LeavingPCs => ui.pc = "gone"
  /\ ui.savePending => ui.pc = "idle"
  /\ ui.pc = "saving" => hist.lag = 0
  /\ Saving => dbg.paused
  /\ Saving /\ ~ui.stepping =>
       /\ ~StepOwed
       /\ pc \notin QuietPCs \cup {"cas"} => hist.lag > 0
       /\ pc \notin QuietPCs \cup {"cas"} \cup EntryPCs => hist.lag > 1

LEMMA InitSaveInv == Init => SaveInv
  BY DEF Init, GateInit, UiInit, SaveInv, Saving, LoopPCs, LeavingPCs

LEMMA GateStepKeepsSaveInv ==
  ASSUME TypeOK, GateInv, SaveInv, ClockGate
  PROVE  SaveInv'
<1> USE DEF SaveInv, Saving, StepOwed, QuietPCs, EntryPCs, LoopPCs, Goto
<1>t. /\ dbg \in DbgType /\ dbg.steps \in Nat /\ hist.lag \in Nat
      /\ hist \in [owed : 0 .. MaxSteps + 1, paid : BOOLEAN, lag : Nat]
  BY MaxStepsAssumption DEF TypeOK, GateTypeOK, DbgType
<1>u. UNCHANGED <<ui, main>>
  BY DEF ClockGate
<1>1. CASE EnterEvaluate
  <2>1. /\ dbg' = dbg /\ pc = "evaluate"
        /\ pc' = IF dbg.paused THEN "gateInstr" ELSE "break"
    BY <1>1 DEF EnterEvaluate
  <2>2. hist'.lag = IF hist.lag > 0 THEN hist.lag - 1 ELSE 0
    BY <1>1, <1>t, RoundIsQuiet DEF EnterEvaluate
  <2> QED
    BY <2>1, <2>2, <1>u, <1>t
<1>2. CASE GateInstr \/ GateOver
  BY <1>2, <1>u DEF GateInstr, GateOver, GateStep
<1>3. CASE ClearStepInstr \/ ClearStepOver \/ Park \/ Unpark
  BY <1>3, <1>u, <1>t DEF ClearStepInstr, ClearStepOver, Park, Unpark, DbgType
<1>4. CASE LoadSteps
  <2>1. dbg' = dbg /\ pc = "load" /\ pc' \in {"cas", "ifPaused"}
    BY <1>4 DEF LoadSteps
  <2>2. hist'.lag = IF hist.lag > 0 THEN hist.lag - 1 ELSE 0
    BY <1>4, <1>t, RoundIsQuiet DEF LoadSteps
  <2> QED
    BY <2>1, <2>2, <1>u, <1>t
<1>5. CASE CasTakes
  <2>1. /\ dbg' = [dbg EXCEPT !.steps = seen - 1]
        /\ hist' = [hist EXCEPT !.paid = TRUE]
        /\ pc = "cas" /\ pc' = "unpark" /\ dbg.steps = seen
    BY <1>5 DEF CasTakes
  <2>2. UNCHANGED <<dbg.inGate, dbg.paused, dbg.stepInstr, dbg.stepOver, hist.lag>>
    BY <2>1, <1>t DEF DbgType
  <2>3. StepOwed
    BY <2>1, <1>t DEF GateInv
  <2> QED
    BY <2>1, <2>2, <2>3, <1>u
<1>6. CASE CasFails
  BY <1>6, <1>u DEF CasFails
<1>7. CASE IfResumed \/ IfStepInstr \/ IfStepOver
  BY <1>7, <1>u DEF IfResumed, IfStepInstr, IfStepOver, LeaveIf
<1>8. CASE Arm \/ Awake
  BY <1>8, <1>u, <1>t DEF Arm, Awake, DbgType
<1>9. CASE OnTheWay
  <2>1. /\ UNCHANGED <<dbg.inGate, dbg.steps, dbg.stepInstr, dbg.stepOver, hist>>
        /\ dbg.paused => dbg'.paused
    BY <1>9, <1>t, WayStores DEF WayStored, DbgType
  <2>2. pc \in WayPCs /\ pc' \in WayPCs \cup {"run"}
    BY <1>9, WayStores
  <2> QED
    BY <2>1, <2>2, <1>u DEF WayPCs
<1> QED
  BY <1>1, <1>2, <1>3, <1>4, <1>5, <1>6, <1>7, <1>8, <1>9
  DEF ClockGate, GateStepNext, OnTheWay

LEMMA ClockKeepsSaveInv ==
  ASSUME TypeOK, GateInv, SaveInv, ClockThread
  PROVE  SaveInv'
<1> USE DEF SaveInv, Saving, StepOwed, QuietPCs, EntryPCs, LoopPCs, Goto
<1>t. /\ dbg \in DbgType
      /\ hist \in [owed : 0 .. MaxSteps + 1, paid : BOOLEAN, lag : Nat]
  BY DEF TypeOK, GateTypeOK, DbgType
<1>1. CASE ClockGate
  BY <1>1, GateStepKeepsSaveInv
<1>2. CASE AwaitPower \/ SpinTop \/ StartReset \/ HoldReset \/ Release
  BY <1>2 DEF AwaitPower, SpinTop, StartReset, HoldReset, Release
<1>3. CASE PowerOnAll
  BY <1>3, <1>t DEF PowerOnAll, DbgType
<1>4. CASE RunCycle
  <2>1. /\ pc = "run" /\ pc' \in {"top", "release"}
        /\ UNCHANGED <<dbg, ui, main>>
    BY <1>4 DEF RunCycle, RunPlan
  <2>2. hist'.lag = hist.lag
    BY <1>4, <1>t DEF RunCycle, RunPlan
  <2> QED
    BY <2>1, <2>2
<1> QED
  BY <1>1, <1>2, <1>3, <1>4 DEF ClockThread

LEMMA UiKeepsSaveInv ==
  ASSUME TypeOK, SaveInv, UiThread
  PROVE  SaveInv'
<1> USE DEF SaveInv, Saving, LoopPCs, LeavingPCs
<1>t. /\ dbg \in DbgType /\ ui \in UiType
      /\ hist \in [owed : 0 .. MaxSteps + 1, paid : BOOLEAN, lag : Nat]
  BY DEF TypeOK, GateTypeOK, UiType
<1>1. CASE Frame \/ SaveDone \/ EndFrame
  <2>u. UNCHANGED <<dbg, pc, hist, main>>
    BY <1>1 DEF Frame, SaveDone, EndFrame, UiIdle, gateVars
  <2>1. CASE Frame
    <3>1. /\ ui.pc = "idle" /\ ui'.stepping = ui.stepping /\ ~ui'.savePending
          /\ ui'.pc = (IF ui.savePending THEN "saving" ELSE "ops")
          /\ ui.savePending => hist.lag = 0
      BY <2>1, <1>t DEF Frame, UiType
    <3> QED
      BY <3>1, <2>u DEF StepOwed
  <2>2. CASE SaveDone
    <3>1. /\ ui.pc = "saving" /\ ui'.stepping = ui.stepping
          /\ ui'.savePending = ui.savePending /\ ui'.pc \in {"resume", "ops"}
      BY <2>2, <1>t DEF SaveDone, UiType
    <3> QED
      BY <3>1, <2>u
  <2>3. CASE EndFrame
    <3>1. ui.pc = "ops" /\ ui'.pc = "idle" /\ ui'.savePending = ui.savePending
      BY <2>3, <1>t DEF EndFrame, UiType
    <3>2. ~ui.savePending
      BY <3>1
    <3> QED
      BY <3>1, <3>2, <2>u
  <2> QED
    BY <1>1, <2>1, <2>2, <2>3
<1>2. CASE ToggleResume \/ PressReset \/ PressLoad \/ UiExit \/ UiPsuReset
  <2>1. CASE ToggleResume
    BY <2>1, <1>t DEF ToggleResume, MayUse, UiIdle, gateVars, UiType
  <2>2. CASE PressReset
    BY <2>2, <1>t DEF PressReset, MayUse, UiIdle, gateVars, UiType
  <2>3. CASE PressLoad
    BY <2>3, <1>t DEF PressLoad, MayUse, UiIdle, gateVars, UiType
  <2>4. CASE UiExit
    BY <2>4, <1>t DEF UiExit, UiIdle, gateVars, UiType
  <2>5. CASE UiPsuReset
    BY <2>5, <1>t DEF UiPsuReset, gateVars, UiType
  <2> QED
    BY <1>2, <2>1, <2>2, <2>3, <2>4, <2>5
<1>3. CASE \/ TogglePause \/ UiResumeRun \/ UiResumeTsc \/ UiWake \/ PressCycle
           \/ PressInstr \/ UiFlagInstr \/ PressOver \/ UiFlagOver \/ EnterBreak
  <2>1. /\ ui.pc \in {"ops", "resume", "tsc", "wake", "flagInstr", "flagOver"}
        /\ ui'.pc \in {"ops", "wake", "tsc", "flagInstr", "flagOver", "psuReset"}
        /\ ui'.savePending = ui.savePending
        /\ UNCHANGED <<pc, main>>
    BY ZenonT(30), <1>3, <1>t
    DEF TogglePause, UiResumeRun, UiResumeTsc, UiWake, PressCycle, PressInstr,
        UiFlagInstr, PressOver, UiFlagOver, EnterBreak, MayUse, Pause, ResumeRun,
        ResumeTsc, WakeStore, StepCycle, StepInstrTarget, StepInstrFlag,
        StepOverTarget, StepOverFlag, SetBreakAddress, UiType
  <2>2. dbg'.inGate = dbg.inGate
    BY <1>3, <1>t
    DEF TogglePause, UiResumeRun, UiResumeTsc, UiWake, PressCycle, PressInstr,
        UiFlagInstr, PressOver, UiFlagOver, EnterBreak, Pause, ResumeRun,
        ResumeTsc, WakeStore, StepCycle, StepInstrTarget, StepInstrFlag,
        StepOverTarget, StepOverFlag, SetBreakAddress, DbgType
  <2> QED
    BY <2>1, <2>2
<1>4. CASE PressSave
  <2>1. /\ dbg'.paused /\ dbg'.inGate = dbg.inGate /\ (StepOwed' <=> StepOwed)
        /\ hist'.lag = FrameRounds /\ UNCHANGED <<pc, main>>
    BY <1>4, <1>t, SystemAssumption DEF PressSave, DbgType, StepOwed
  <2>2. /\ ui.pc = "ops" /\ ui'.pc = "idle" /\ ui'.savePending
        /\ (ui'.stepping <=> StepOwed)
    <3> DEFINE was == ~dbg.paused
    <3>1. ui' = [ui EXCEPT !.pc = "idle", !.savePending = TRUE, !.sawPaused = FALSE,
                           !.wasRunning = was, !.stepping = StepOwed]
      BY <1>4 DEF PressSave
    <3>2. StepOwed \in BOOLEAN /\ was \in BOOLEAN
      BY DEF StepOwed
    <3> HIDE DEF was
    <3>3. ui'.pc = "idle" /\ ui'.savePending /\ ui'.stepping = StepOwed
      BY <3>1, <3>2, <1>t DEF UiType
    <3> QED
      BY <3>2, <3>3, <1>4 DEF PressSave, MayUse
  <2>3. FrameRounds \in Nat /\ FrameRounds > 1
    BY SystemAssumption
  <2> QED
    BY <2>1, <2>2, <2>3
<1> QED
  BY <1>1, <1>2, <1>3, <1>4 DEF UiThread

LEMMA MainKeepsSaveInv ==
  ASSUME TypeOK, SaveInv, MainThread
  PROVE  SaveInv'
<1> USE DEF SaveInv, Saving, StepOwed, LoopPCs, LeavingPCs, MainAt
<1>t. /\ dbg \in DbgType /\ main \in MainType
  BY DEF TypeOK, GateTypeOK, MainType
<1>1. CASE \/ MainPsuOn \/ MainWaitParked \/ MainToLoop \/ TakeLoad
           \/ MainJoinUi \/ MainPsuOff \/ MainRequestStop
  BY <1>1, <1>t
  DEF MainPsuOn, MainWaitParked, MainToLoop, TakeLoad, MainJoinUi, MainPsuOff,
      MainRequestStop, gateVars, MainType
<1>2. CASE MainPause
  BY <1>2, <1>t DEF MainPause, Pause, DbgType, MainType
<1>3. CASE MainStartClock
  BY <1>3, <1>t DEF MainStartClock, Goto, MainType, QuietPCs, EntryPCs
<1>4. CASE MainResumeRun \/ MainResumeTsc \/ MainWake
  <2>1. /\ main.pc \in LeavingPCs /\ main'.pc \in LeavingPCs
        /\ UNCHANGED <<pc, ui, hist>>
    BY <1>4, <1>t DEF MainResumeRun, MainResumeTsc, MainWake, ResumeRun, ResumeTsc,
                      WakeStore, MainType
  <2>2. dbg'.inGate = dbg.inGate
    BY <1>4, <1>t DEF MainResumeRun, MainResumeTsc, MainWake, ResumeRun, ResumeTsc,
                      WakeStore, DbgType
  <2> QED
    BY <2>1, <2>2
<1>5. CASE MainJoined
  <2>1. CASE main.job = "quit"
    BY <1>5, <2>1, <1>t DEF MainJoined, gateVars, MainType
  <2>2. CASE main.job = "load"
    <3>1. /\ main'.pc = "pause" /\ ui' = UiInit /\ pc' = "none"
      BY <1>5, <2>2, <1>t DEF MainJoined, MainType
    <3> QED
      BY <3>1 DEF UiInit
  <2> QED
    BY <1>5, <2>1, <2>2 DEF MainJoined
<1> QED
  BY <1>1, <1>2, <1>3, <1>4, <1>5 DEF MainThread

LEMMA StepKeepsSaveInv ==
  ASSUME TypeOK, GateInv, SaveInv, [Next]_vars
  PROVE  SaveInv'
<1>1. CASE TimePasses
  <2>1. /\ UNCHANGED <<pc, hist, ui, main>>
        /\ UNCHANGED <<dbg.inGate, dbg.paused, dbg.steps, dbg.stepInstr, dbg.stepOver>>
    BY <1>1 DEF TimePasses, Elapse, TypeOK, GateTypeOK, DbgType
  <2> QED
    BY <2>1 DEF SaveInv, Saving, StepOwed
<1>2. CASE UNCHANGED vars
  BY <1>2 DEF vars, gateVars, SaveInv, Saving, StepOwed
<1> QED
  BY <1>1, <1>2, ClockKeepsSaveInv, UiKeepsSaveInv, MainKeepsSaveInv DEF Next

(***************************************************************************)
(* A load overwrites a machine that has not run.                           *)
(***************************************************************************)
\* The clock thread's way from power-on to the gate.
ToGatePCs == {"top", "hold", "evaluate", "gateInstr", "gateOver", "park"}

Rebuilding ==
  /\ main.job = "load"
  /\ main.pc \in {"pause", "start", "psuOn", "waitParked", "overwrite"}

\* The user leaves the machine alone, so nothing asks for a step or resumes
\* it: the new clock thread goes from power-on straight to the gate, on a way
\* without a cycle, and stays there.
RebuildInv ==
  /\ main.pc \in {"waitParked", "overwrite"} => main.job = "load"
  /\ main.pc = "overwrite" => dbg.inGate /\ pc \in QuietPCs
  /\ Rebuilding =>
       /\ ui.pc \in {"idle", "ops"} /\ ~ui.savePending
       /\ dbg.steps = 0 /\ ~dbg.stepInstr /\ ~dbg.stepOver
       /\ ~clk.stop /\ ~clk.ran /\ clk.psu \in {"None", "PowerOn"}
       /\ main.pc # "pause" => dbg.paused
       /\ main.pc \in {"pause", "start"} => pc = "none"
       /\ main.pc \notin {"pause", "start"} =>
            pc \in {"await", "powerOn"} \cup ToGatePCs \cup QuietPCs
       /\ pc \in ToGatePCs \cup QuietPCs => clk.powered

LEMMA InitRebuildInv == Init => RebuildInv
  BY DEF Init, RebuildInv, Rebuilding

LEMMA ClockKeepsRebuildInv ==
  ASSUME TypeOK, RebuildInv, ClockThread
  PROVE  RebuildInv'
<1> USE DEF RebuildInv, Rebuilding, ToGatePCs, QuietPCs, Goto
<1>t. /\ dbg \in DbgType /\ clk \in ClkType
      /\ dbg.steps \in Nat
  BY MaxStepsAssumption DEF TypeOK, GateTypeOK, DbgType, ClkType
<1>1. main' = main /\ ui' = ui
  BY DEF ClockThread, AwaitPower, PowerOnAll, SpinTop, StartReset, HoldReset,
         ClockGate, RunCycle, Release
<1>2. CASE ~Rebuilding
  BY <1>1, <1>2
<1>3. CASE Rebuilding
  <2>1. CASE AwaitPower \/ SpinTop
    BY <1>1, <1>3, <2>1, <1>t DEF AwaitPower, SpinTop
  <2>2. CASE PowerOnAll
    BY <1>1, <1>3, <2>2, <1>t DEF PowerOnAll, ClkType, DbgType
  <2>3. CASE HoldReset
    <3>1. UNCHANGED <<dbg, clk.stop, clk.ran, clk.psu, clk.powered>>
      BY <2>3, <1>t DEF HoldReset, ClkType
    <3> QED
      BY <1>1, <1>3, <2>3, <3>1 DEF HoldReset
  <2>4. CASE StartReset \/ RunCycle \/ Release
    BY <1>3, <2>4 DEF StartReset, RunCycle, RunPlan, Release
  <2>5. CASE ClockGate
    <3>1. CASE EnterEvaluate \/ GateInstr \/ GateOver \/ LoadSteps
      BY <1>1, <1>3, <2>5, <3>1, <1>t
      DEF ClockGate, EnterEvaluate, GateInstr, GateOver, GateStep, LoadSteps
    <3>2. CASE IfResumed \/ IfStepInstr \/ IfStepOver
      BY <1>1, <1>3, <2>5, <3>2
      DEF ClockGate, IfResumed, IfStepInstr, IfStepOver, LeaveIf
    <3>3. CASE Park \/ Arm \/ Awake
      <4>1. /\ UNCHANGED <<dbg.paused, dbg.steps, dbg.stepInstr, dbg.stepOver, clk>>
            /\ dbg.inGate => dbg'.inGate
        BY <2>5, <3>3, <1>t DEF ClockGate, Park, Arm, Awake, DbgType
      <4> QED
        BY <1>1, <1>3, <3>3, <4>1 DEF Park, Arm, Awake
    <3>4. CASE \/ ClearStepInstr \/ ClearStepOver \/ CasTakes \/ CasFails
               \/ Unpark \/ OnTheWay
      BY <1>3, <3>4, WayStores
      DEF ClearStepInstr, ClearStepOver, CasTakes, CasFails, Unpark, WayPCs
    <3> QED
      BY <2>5, <3>1, <3>2, <3>3, <3>4 DEF ClockGate, GateStepNext, OnTheWay
  <2> QED
    BY <2>1, <2>2, <2>3, <2>4, <2>5 DEF ClockThread
<1> QED
  BY <1>2, <1>3

LEMMA UiKeepsRebuildInv ==
  ASSUME TypeOK, RebuildInv, UiThread, UserWaitsForLoad
  PROVE  RebuildInv'
<1> USE DEF RebuildInv, Rebuilding
<1>t. ui \in UiType
  BY DEF TypeOK, UiType
<1>1. main' = main
  BY DEF UiThread, Frame, SaveDone, EndFrame, TogglePause, ToggleResume,
         UiResumeRun, UiResumeTsc, UiWake, PressCycle, PressInstr, UiFlagInstr,
         PressOver, UiFlagOver, EnterBreak, PressReset, UiPsuReset, PressSave,
         PressLoad, UiExit, UiIdle
<1>2. CASE ~Rebuilding
  BY <1>1, <1>2
<1>3. CASE Rebuilding
  <2>1. \A op : ~MayUse(op)
    BY <1>3 DEF MayUse, Loading
  <2>2. Frame \/ EndFrame
    BY <1>3, <2>1
    DEF UiThread, SaveDone, TogglePause, ToggleResume, UiResumeRun, UiResumeTsc,
        UiWake, PressCycle, PressInstr, UiFlagInstr, PressOver, UiFlagOver,
        EnterBreak, PressReset, UiPsuReset, PressSave, PressLoad, UiExit
  <2> QED
    BY ZenonT(30), <1>1, <1>3, <2>2, <1>t DEF Frame, EndFrame, UiIdle, gateVars, UiType
<1> QED
  BY <1>2, <1>3

\* MainWaitParked is where in_pause_gate_ is believed.
LEMMA MainKeepsRebuildInv ==
  ASSUME TypeOK, GateInv, RebuildInv, MainThread
  PROVE  RebuildInv'
<1> USE DEF RebuildInv, Rebuilding, MainAt, QuietPCs
<1>t. dbg \in DbgType /\ main \in MainType /\ clk \in ClkType
  BY DEF TypeOK, GateTypeOK, MainType, ClkType
<1>1. CASE MainPause
  BY <1>1, <1>t DEF MainPause, Pause, DbgType, MainType
<1>2. CASE MainStartClock
  BY <1>2, <1>t DEF MainStartClock, Goto, MainType, ToGatePCs
<1>3. CASE MainPsuOn
  BY <1>3, <1>t DEF MainPsuOn, gateVars, MainType, ClkType
<1>4. CASE MainWaitParked
  <2>1. pc \in LoopPCs
    BY <1>4 DEF MainWaitParked, GateInv, InGateMeansParked
  <2>2. Rebuilding
    BY <1>4 DEF MainWaitParked
  <2>3. pc \in QuietPCs
    BY <1>4, <2>1, <2>2 DEF MainWaitParked, LoopPCs, ToGatePCs
  <2> QED
    BY <1>4, <2>2, <2>3, <1>t DEF MainWaitParked, gateVars, MainType
<1>5. CASE MainToLoop \/ TakeLoad \/ MainJoinUi
  BY <1>5, <1>t DEF MainToLoop, TakeLoad, MainJoinUi, gateVars, MainType
<1>6. CASE MainResumeRun \/ MainResumeTsc \/ MainWake \/ MainPsuOff \/ MainRequestStop
  BY <1>6, <1>t DEF MainResumeRun, MainResumeTsc, MainWake, MainPsuOff,
                    MainRequestStop, MainType
<1>7. CASE MainJoined
  <2>1. CASE main.job = "quit"
    BY <1>7, <2>1, <1>t DEF MainJoined, gateVars, MainType
  <2>2. CASE main.job = "load"
    <3>1. /\ main'.pc = "pause" /\ ui' = UiInit /\ pc' = "none"
          /\ dbg' = DbgInit /\ clk' = ClkInit
      BY <1>7, <2>2, <1>t DEF MainJoined, MainType
    <3> QED
      BY <3>1 DEF UiInit, DbgInit, ClkInit, ToGatePCs
  <2> QED
    BY <1>7, <2>1, <2>2 DEF MainJoined
<1> QED
  BY <1>1, <1>2, <1>3, <1>4, <1>5, <1>6, <1>7 DEF MainThread

LEMMA StepKeepsRebuildInv ==
  ASSUME TypeOK, GateInv, RebuildInv, UserWaitsForLoad, [Next]_vars
  PROVE  RebuildInv'
<1>1. CASE TimePasses
  <2>1. /\ UNCHANGED <<pc, clk, ui, main>>
        /\ UNCHANGED <<dbg.inGate, dbg.paused, dbg.steps, dbg.stepInstr, dbg.stepOver>>
    BY <1>1 DEF TimePasses, Elapse, TypeOK, GateTypeOK, DbgType
  <2> QED
    BY <2>1 DEF RebuildInv, Rebuilding
<1>2. CASE UNCHANGED vars
  BY <1>2 DEF vars, gateVars, RebuildInv, Rebuilding
<1> QED
  BY <1>1, <1>2, ClockKeepsRebuildInv, UiKeepsRebuildInv, MainKeepsRebuildInv
  DEF Next

(***************************************************************************)
(* What follows                                                            *)
(***************************************************************************)
\* Every variable of the three threads keeps its type; resetHold never leaves
\* 0 .. ResetHold.
THEOREM TypeCorrect == Spec => []TypeOK
<1>1. GateInv => GateTypeOK
  BY DEF GateInv
<1>2. ThreadTypes /\ GateTypeOK /\ [Next]_vars => ThreadTypes'
  BY StepKeepsTypes
<1> QED
  BY GateInvariance, InitThreadTypes, TypeOKSplits, <1>1, <1>2, PTL DEF Spec

\* If a frame outlasts two rounds of the clock thread, wherever they bring it,
\* save_system() (display/renderer.cpp) reads a machine whose clock thread is in
\* the gate, or one with a step that was owed when Save was pressed.
THEOREM SavesReadParked == Spec => []SaveReadsQuietMachine
<1>1. TypeOK /\ GateInv /\ SaveInv /\ [Next]_vars => SaveInv'
  BY StepKeepsSaveInv
<1>2. SaveInv => SaveReadsQuietMachine
  BY DEF SaveInv, Saving, QuietPCs, LoopPCs, SaveReadsQuietMachine, Parked
<1> QED
  BY TypeCorrect, GateInvariance, InitSaveInv, <1>1, <1>2, PTL DEF Spec

\* If the user leaves the machine alone during a load, load_remaining()
\* overwrites a machine that is powered, has run no cycle and is in the gate.
THEOREM LoadsOverwriteQuiet ==
  ASSUME UserWaitsForLoad
  PROVE  Spec => []LoadOverwritesQuietMachine
<1>1. TypeOK /\ GateInv /\ RebuildInv /\ [Next]_vars => RebuildInv'
  BY StepKeepsRebuildInv
<1>2. RebuildInv => LoadOverwritesQuietMachine
  BY DEF RebuildInv, Rebuilding, ToGatePCs, QuietPCs, LoopPCs,
         LoadOverwritesQuietMachine, Parked
<1> QED
  BY TypeCorrect, GateInvariance, InitRebuildInv, <1>1, <1>2, PTL DEF Spec

(***************************************************************************)
(* The plan cache of evaluate(), which has its own specification: it       *)
(* serves every cycle the plan of its own permutation, for every set of    *)
(* permutations and every size of the table.                               *)
(***************************************************************************)
\* The map holds what solve_perm() gave for the key.
MapSolved ==
  /\ DOMAIN plans \subseteq Perms
  /\ \A p \in DOMAIN plans : plans[p] = PlanOf[p]

\* A slot that points, points at the plan of the permutation it is tagged with.
CacheTagged ==
  /\ cache \in [Slots -> [perm : Nat, flat : Nat \cup {Null}]]
  /\ \A s \in Slots : cache[s].flat # Null =>
       cache[s].flat = cache[s].perm /\ cache[s].flat \in DOMAIN plans

CacheInv == MapSolved /\ CacheTagged /\ PlanOfTheCycle

\* perm & (PERM_CACHE_SIZE - 1) is an index of the table.
LEMMA SlotInRange ==
  ASSUME Numbered, NEW perm \in Perms
  PROVE  Slot(perm) \in Slots /\ perm \in Nat
BY DEF Numbered, Slot, Slots

\* Looking a plan up, solving it when it is missing, leaves the map solved, with
\* the plan in it and no other plan gone.
LEMMA MapGrows ==
  ASSUME MapSolved, NEW perm \in Perms
  PROVE  /\ DOMAIN WithPlan(perm) = DOMAIN plans \cup {perm}
         /\ \A p \in DOMAIN plans \cup {perm} : WithPlan(perm)[p] = PlanOf[p]
BY DEF WithPlan, MapSolved

\* resolve() forgets the plans and the pointers to them together.
LEMMA ResolveKeeps == CacheInv /\ Resolve => CacheInv'
<1> SUFFICES ASSUME CacheInv, Resolve PROVE CacheInv'
  OBVIOUS
<1>1. MapSolved'
  BY DEF Resolve, MapSolved, EmptyMap
<1>2. CacheTagged'
  BY DEF Resolve, CacheTagged, EmptyCache, EmptySlot, Null
<1>3. PlanOfTheCycle'
  BY DEF CacheInv, Resolve, PlanOfTheCycle
<1> QED
  BY <1>1, <1>2, <1>3 DEF CacheInv

\* A cycle that hits runs the plan pointed at; one that misses fills the slot.
LEMMA EvaluateKeeps ==
  ASSUME Numbered, CacheInv, NEW perm \in Perms, EvaluateNoWake(perm)
  PROVE  CacheInv'
<1> DEFINE at == Slot(perm)
<1>1. at \in Slots /\ perm \in Nat
  BY SlotInRange
<1>2. CASE Hit(perm) /\ UNCHANGED <<plans, cache>>
  <2>1. MapSolved' /\ CacheTagged'
    BY <1>2 DEF CacheInv, MapSolved, CacheTagged
  <2>2. cache'[at].flat = perm /\ perm \in DOMAIN plans'
    BY <1>1, <1>2 DEF CacheInv, CacheTagged, Hit
  <2>3. plans'[cache'[at].flat] = PlanOf[perm]
    BY <2>1, <2>2 DEF MapSolved
  <2>4. PlanOfTheCycle'
    BY <2>3 DEF EvaluateNoWake, PlanOfTheCycle
  <2> QED
    BY <2>1, <2>4 DEF CacheInv
<1>3. CASE ~(Hit(perm) /\ UNCHANGED <<plans, cache>>)
  <2>1. /\ plans' = WithPlan(perm)
        /\ cache' = [cache EXCEPT ![at] = [perm |-> perm, flat |-> perm]]
    BY <1>3 DEF EvaluateNoWake
  <2>2. /\ DOMAIN plans' = DOMAIN plans \cup {perm}
        /\ \A p \in DOMAIN plans \cup {perm} : plans'[p] = PlanOf[p]
    BY <2>1, MapGrows DEF CacheInv
  <2>3. MapSolved'
    BY <2>2 DEF CacheInv, MapSolved
  <2>4. CacheTagged'
    BY <1>1, <2>1, <2>2 DEF CacheInv, CacheTagged
  <2>5. cache'[at].flat = perm
    BY <1>1, <2>1 DEF CacheInv, CacheTagged
  <2>6. PlanOfTheCycle'
    BY <2>2, <2>5 DEF EvaluateNoWake, PlanOfTheCycle
  <2> QED
    BY <2>3, <2>4, <2>6 DEF CacheInv
<1> QED
  BY <1>2, <1>3

\* Every reachable state satisfies the invariant.
LEMMA CacheAlways ==
  ASSUME Numbered
  PROVE  CacheSpec => []CacheInv
<1>1. CacheInit => CacheInv
  BY DEF CacheInit, CacheInv, MapSolved, CacheTagged, PlanOfTheCycle, EmptyMap,
         EmptyCache, EmptySlot, Null
<1>2. CacheInv /\ [CacheNext]_cacheVars => CacheInv'
  <2> SUFFICES ASSUME CacheInv, [CacheNext]_cacheVars PROVE CacheInv'
    OBVIOUS
  <2>1. CASE Resolve
    BY <2>1, ResolveKeeps
  <2>2. CASE \E perm \in Perms : EvaluateNoWake(perm)
    BY <2>2, EvaluateKeeps
  <2>3. CASE UNCHANGED cacheVars
    BY <2>3 DEF CacheInv, MapSolved, CacheTagged, PlanOfTheCycle, cacheVars
  <2> QED
    BY <2>1, <2>2, <2>3 DEF CacheNext
<1> QED
  BY <1>1, <1>2, PTL DEF CacheSpec

\* Whatever permutations follow one another and however they collide in the
\* table, each cycle is run by the plan solved for its own directions.
THEOREM PlanIsTheCycles ==
  ASSUME Numbered
  PROVE  CacheSpec => []PlanOfTheCycle
<1>1. CacheInv => PlanOfTheCycle
  BY DEF CacheInv
<1> QED
  BY <1>1, CacheAlways, PTL

\* No slot points into a map that was cleared: resolve() empties both.
THEOREM NoDanglingPlan ==
  ASSUME Numbered
  PROVE  CacheSpec => []PointersLive
<1>1. CacheInv => PointersLive
  BY DEF CacheInv, CacheTagged, PointersLive
<1> QED
  BY <1>1, CacheAlways, PTL
=============================================================================
