----------------------------- MODULE PauseGate -----------------------------
(***************************************************************************)
(* The debugger gate of core/scheduler.h: the clock thread's way through   *)
(* Scheduler::evaluate() and pause_gate(), and the calls pause(), resume(),*)
(* step_cycle(), step_instruction(), step_over() and set_break_address()   *)
(* that other threads make.  Each access to a shared field is a step of    *)
(* its own, so that the calls interleave with the gate as they do on two   *)
(* cores.                                                                  *)
(*                                                                         *)
(* Of the CPU the gate only asks whether instr_count() has left            *)
(* dbg_instr_start_ and whether IP/SP satisfy the step-over target; a      *)
(* cycle may make the first true, and may change the second either way.    *)
(* Both are followed only from the call that sets the target to the test   *)
(* that finds it reached (watchInstr, watchOver): nobody else reads them.  *)
(* The value of dbg_wake_ is never read: only the store matters, when the  *)
(* monitor armed by _umonitor sees it.  Of dbg_last_tsc_ the gate only     *)
(* tells zero, a recent value, and one older than dbg_tsc_threshold_.      *)
(***************************************************************************)
EXTENDS Naturals

CONSTANT MaxSteps    \* bound on step_cycle() calls not yet consumed

ASSUME MaxStepsAssumption == MaxSteps \in Nat \ {0}

VARIABLES
  dbg,     \* the debugger fields of Scheduler
  cpu,     \* what the gate observes of IC_8088
  pc,      \* where the clock thread is
  seen,    \* local s of pause_gate(): the last value read from steps_
  ret,     \* who called evaluate(): the spin "loop" or the power-"down" path
  hist     \* history: owed, paid (step credit), lag

gateVars == <<dbg, cpu, pc, seen, ret, hist>>

TscState == {"zero", "recent", "old"}
Monitor  == {"idle", "armed", "hit"}

\* The loop of pause_gate() between the two stores to in_pause_gate_.
LoopPCs == {"load", "cas", "ifPaused", "ifInstr", "ifOver", "arm", "asleep",
            "unpark"}
GatePCs == {"evaluate", "gateInstr", "clearInstr", "gateOver", "clearOver",
            "park", "break", "breakPause", "breakClear", "tsc", "tscAge",
            "tscPause", "tscStore", "run"} \cup LoopPCs

\* A freshly built Scheduler, an IC_8088 nobody steps, an empty history.
DbgInit ==
  [paused |-> FALSE, steps |-> 0, stepInstr |-> FALSE, stepOver |-> FALSE,
   monitor |-> "idle", inGate |-> FALSE, lastTsc |-> "zero", brk |-> FALSE]
CpuInit  == [instrNew |-> FALSE, overHit |-> FALSE]
HistInit == [owed |-> 0, paid |-> FALSE, lag |-> 0]

\* A round of the clock thread, a cycle begun or a turn of the gate's loop,
\* brings the end of a frame that is being measured nearer.
Round == [hist EXCEPT !.lag = IF @ > 0 THEN @ - 1 ELSE 0]

GateInit ==
  /\ dbg = DbgInit
  /\ cpu = CpuInit
  /\ seen = 0
  /\ ret = "loop"
  /\ hist = HistInit

(***************************************************************************)
(* The clock thread in evaluate() and pause_gate().                        *)
(***************************************************************************)
Goto(from, to) == pc = from /\ pc' = to

\* if (paused_.load()) pause_gate();
EnterEvaluate ==
  /\ Goto("evaluate", IF dbg.paused THEN "gateInstr" ELSE "break")
  /\ hist' = Round
  /\ UNCHANGED <<dbg, cpu, seen, ret>>

\* An unfinished instruction step or step-over lets the cycle through; a
\* finished one is cleared, by a store of its own, on the way to the park.
GateStep(at, pending, done, clear, next) ==
  /\ Goto(at, CASE ~pending        -> next
                [] pending /\ done -> clear
                [] OTHER           -> "break")
  /\ UNCHANGED <<dbg, cpu, seen, ret, hist>>

GateInstr ==
  GateStep("gateInstr", dbg.stepInstr, cpu.instrNew, "clearInstr", "gateOver")

GateOver ==
  GateStep("gateOver", dbg.stepOver, cpu.overHit, "clearOver", "park")

ClearStepInstr ==
  /\ Goto("clearInstr", "gateOver")
  /\ dbg' = [dbg EXCEPT !.stepInstr = FALSE]
  /\ cpu' = [cpu EXCEPT !.instrNew = FALSE]
  /\ UNCHANGED <<seen, ret, hist>>

ClearStepOver ==
  /\ Goto("clearOver", "park")
  /\ dbg' = [dbg EXCEPT !.stepOver = FALSE]
  /\ cpu' = [cpu EXCEPT !.overHit = FALSE]
  /\ UNCHANGED <<seen, ret, hist>>

Park ==
  /\ Goto("park", "load")
  /\ dbg' = [dbg EXCEPT !.inGate = TRUE]
  /\ UNCHANGED <<cpu, seen, ret, hist>>

LoadSteps ==
  /\ Goto("load", IF dbg.steps > 0 THEN "cas" ELSE "ifPaused")
  /\ seen' = dbg.steps
  /\ hist' = Round
  /\ UNCHANGED <<dbg, cpu, ret>>

\* Mutant of CasTakes: a plain store of s - 1 instead of a compare-exchange.
StoreTakes ==
  /\ Goto("cas", "unpark")
  /\ dbg' = [dbg EXCEPT !.steps = seen - 1]
  /\ hist' = [hist EXCEPT !.paid = TRUE]
  /\ seen' = 0
  /\ UNCHANGED <<cpu, ret>>

\* steps_.compare_exchange_weak(s, s - 1): takes one credit, or fails because
\* steps_ moved, or fails for no reason.
CasTakes ==
  /\ dbg.steps = seen
  /\ Goto("cas", "unpark")
  /\ dbg' = [dbg EXCEPT !.steps = seen - 1]
  /\ hist' = [hist EXCEPT !.paid = TRUE]
  /\ seen' = 0
  /\ UNCHANGED <<cpu, ret>>

CasFails ==
  /\ Goto("cas", "ifPaused")
  /\ seen' = 0
  /\ UNCHANGED <<dbg, cpu, ret, hist>>

\* One of the three tests of the loop: leave the gate, or try the next.
LeaveIf(at, reason, next) ==
  /\ Goto(at, IF reason THEN "unpark" ELSE next)
  /\ UNCHANGED <<dbg, cpu, seen, ret, hist>>

\* Mutant of IfStepInstr: the test of step_instr_ is missing from the loop.
IfStepInstrForgotten == LeaveIf("ifInstr", FALSE, "ifOver")

IfResumed   == LeaveIf("ifPaused", ~dbg.paused, "ifInstr")
IfStepInstr == LeaveIf("ifInstr", dbg.stepInstr, "ifOver")
IfStepOver  == LeaveIf("ifOver", dbg.stepOver, "arm")

Unpark ==
  /\ Goto("unpark", "break")
  /\ dbg' = [dbg EXCEPT !.inGate = FALSE]
  /\ UNCHANGED <<cpu, seen, ret, hist>>

Arm ==
  /\ Goto("arm", "asleep")
  /\ dbg' = [dbg EXCEPT !.monitor = "armed"]
  /\ UNCHANGED <<cpu, seen, ret, hist>>

\* _umwait returns on a store to the monitored line or at its deadline; the
\* deadline always comes.
WakeReason == dbg.monitor = "hit" \/ dbg.monitor = "armed"

Awake ==
  /\ WakeReason
  /\ Goto("asleep", "load")
  /\ dbg' = [dbg EXCEPT !.monitor = "idle"]
  /\ UNCHANGED <<cpu, seen, ret, hist>>

\* A store of the clock thread to the debugger fields on its way to the cycle.
GateStore(from, to, stored) ==
  /\ Goto(from, to)
  /\ dbg' = stored
  /\ UNCHANGED <<cpu, seen, ret, hist>>

\* The one-shot address breakpoint hits when CS:IP is the armed address.  What
\* another thread stores between the test and the two stores is overwritten.
Breakpoint ==
  /\ \E hit \in BOOLEAN :
       Goto("break", IF hit /\ dbg.brk THEN "breakPause" ELSE "tsc")
  /\ UNCHANGED <<dbg, cpu, seen, ret, hist>>

BreakPause ==
  GateStore("breakPause", "breakClear", [dbg EXCEPT !.paused = TRUE])

BreakClear == GateStore("breakClear", "tsc", [dbg EXCEPT !.brk = FALSE])

\* Auto-pause when the previous cycle lies more than the threshold back.  The
\* stamp is looked at twice, to see that it is not zero and to take the
\* difference: a build may read it anew for the second, and take a zero that
\* resume() stores in between for a time long past.  One that reads it once is
\* as if nobody stored in between.
TscCheck ==
  /\ Goto("tsc", IF dbg.lastTsc = "zero" THEN "tscStore" ELSE "tscAge")
  /\ UNCHANGED <<dbg, cpu, seen, ret, hist>>

TscAge ==
  /\ Goto("tscAge", IF dbg.lastTsc = "recent" THEN "tscStore" ELSE "tscPause")
  /\ UNCHANGED <<dbg, cpu, seen, ret, hist>>

TscPause == GateStore("tscPause", "tscStore", [dbg EXCEPT !.paused = TRUE])

TscStore == GateStore("tscStore", "run", [dbg EXCEPT !.lastTsc = "recent"])

\* The wave plan: every component's on_cycle().  The cycle may finish an
\* instruction, and may bring the CPU to or away from the step-over target.
RunPlan(next, watchInstr, watchOver) ==
  /\ Goto("run", next)
  /\ \E finishes, atTarget \in BOOLEAN :
       /\ finishes => watchInstr
       /\ atTarget => watchOver
       /\ cpu' = [cpu EXCEPT !.instrNew = @ \/ finishes, !.overHit = atTarget]
  /\ hist' = [hist EXCEPT !.paid = FALSE,
                          !.owed = IF hist.paid THEN @ - 1 ELSE @]
  /\ UNCHANGED <<dbg, seen, ret>>

GateStepNext ==
  \/ EnterEvaluate \/ GateInstr \/ ClearStepInstr \/ GateOver \/ ClearStepOver
  \/ Park \/ LoadSteps \/ CasTakes \/ CasFails
  \/ IfResumed \/ IfStepInstr \/ IfStepOver
  \/ Unpark \/ Arm \/ Awake
  \/ Breakpoint \/ BreakPause \/ BreakClear
  \/ TscCheck \/ TscAge \/ TscPause \/ TscStore

\* Real time: more than dbg_tsc_threshold_ elapses since the last cycle, while
\* the thread is parked or, when the host froze it, anywhere.
Elapse(freezes) ==
  /\ dbg.lastTsc = "recent"
  /\ freezes \/ pc \in LoopPCs
  /\ dbg' = [dbg EXCEPT !.lastTsc = "old"]
  /\ UNCHANGED <<cpu, pc, seen, ret, hist>>

(***************************************************************************)
(* The calls of the other threads, store by store.                         *)
(***************************************************************************)
Pause ==
  /\ dbg' = [dbg EXCEPT !.paused = TRUE]
  /\ UNCHANGED <<cpu, pc, seen, ret, hist>>

\* resume(): paused_ = false; dbg_last_tsc_ = 0; dbg_wake_ = 1.
ResumeRun ==
  /\ dbg' = [dbg EXCEPT !.paused = FALSE]
  /\ UNCHANGED <<cpu, pc, seen, ret, hist>>

ResumeTsc ==
  /\ dbg' = [dbg EXCEPT !.lastTsc = "zero"]
  /\ UNCHANGED <<cpu, pc, seen, ret, hist>>

WakeStore ==
  /\ dbg' = [dbg EXCEPT !.monitor = IF @ = "armed" THEN "hit" ELSE @]
  /\ UNCHANGED <<cpu, pc, seen, ret, hist>>

StepCycle ==
  /\ dbg.steps < MaxSteps
  /\ dbg' = [dbg EXCEPT !.steps = @ + 1]
  /\ hist' = [hist EXCEPT !.owed = @ + 1]
  /\ UNCHANGED <<cpu, pc, seen, ret>>

\* step_instruction(): dbg_instr_start_ = instr_count(); step_instr_ = true.
StepInstrTarget ==
  /\ cpu' = [cpu EXCEPT !.instrNew = FALSE]
  /\ UNCHANGED <<dbg, pc, seen, ret, hist>>

StepInstrFlag ==
  /\ dbg' = [dbg EXCEPT !.stepInstr = TRUE]
  /\ UNCHANGED <<cpu, pc, seen, ret, hist>>

\* step_over(ip + len, sp): the CPU is not at the new target yet.
StepOverTarget ==
  /\ cpu' = [cpu EXCEPT !.overHit = FALSE]
  /\ UNCHANGED <<dbg, pc, seen, ret, hist>>

StepOverFlag ==
  /\ dbg' = [dbg EXCEPT !.stepOver = TRUE]
  /\ UNCHANGED <<cpu, pc, seen, ret, hist>>

SetBreakAddress ==
  /\ dbg' = [dbg EXCEPT !.brk = TRUE]
  /\ UNCHANGED <<cpu, pc, seen, ret, hist>>

(***************************************************************************)
(* Properties of the gate.                                                 *)
(***************************************************************************)
DbgType ==
  [paused : BOOLEAN, steps : 0 .. MaxSteps, stepInstr : BOOLEAN,
   stepOver : BOOLEAN, monitor : Monitor, inGate : BOOLEAN,
   lastTsc : TscState, brk : BOOLEAN]

GateTypeOK ==
  /\ dbg \in DbgType
  /\ cpu \in [instrNew : BOOLEAN, overHit : BOOLEAN]
  /\ seen \in 0 .. MaxSteps
  /\ ret \in {"loop", "down"}
  /\ hist \in [owed : 0 .. MaxSteps + 1, paid : BOOLEAN, lag : Nat]

\* A step of some kind has been asked for and not ended.
StepOwed == dbg.steps > 0 \/ dbg.stepInstr \/ dbg.stepOver

\* The clock thread has read what makes it pause, and not yet stored the pause.
LatePause ==
  \/ pc \in {"breakPause", "tscPause"}
  \/ pc = "tscAge" /\ dbg.lastTsc # "recent"

\* No step_cycle() call is lost or served twice, whatever the other thread
\* does between the load of steps_ and its compare-exchange: the calls made
\* less the cycles run for them are the count in steps_, plus the cycle the
\* clock thread has paid for and not run yet.
StepCreditConserved ==
  hist.owed = dbg.steps + (IF hist.paid THEN 1 ELSE 0)

\* The clock thread is in the loop of pause_gate() whenever in_pause_gate_
\* says so: a thread that polls the flag never takes a running machine for a
\* parked one.
InGateMeansParked == dbg.inGate => pc \in LoopPCs

\* A parked clock thread with a reason to leave leaves, even when the store
\* meant to wake it came before its monitor was armed: a step asked for stands
\* until it is served; a resume stands until the next pause.
ParkedThreadLeaves ==
  /\ (dbg.inGate /\ StepOwed) ~> ~dbg.inGate
  /\ []<>(dbg.inGate => dbg.paused)

=============================================================================
