---------------------------- MODULE ClockSystem ----------------------------
(***************************************************************************)
(* The life of the simulator's three threads around the debugger gate.     *)
(*   clock  - IC_8284A::run(): waits for the mock PSU, powers the board on,*)
(*            spins one evaluate() per CLK cycle, takes RESET and POWER-OFF*)
(*            commands from the one-slot, unsynchronised psu_cmd_.         *)
(*   ui     - the render thread: frames that toggle pause, step, set a     *)
(*            breakpoint, press Reset, save (one frame later) and ask for a*)
(*            load.                                                        *)
(*   main   - main(): boots, polls for a load request or the end of the    *)
(*            renderer, powers off, rebuilds and boots again.              *)
(***************************************************************************)
EXTENDS PauseGate

CONSTANTS
  ResetHold,         \* cycles written to reset_hold_ (8 in the code)
  UiOps,             \* what the user may do, a subset of AllUiOps
  Freezes,           \* TRUE: the host may freeze the clock thread anywhere
  FrameRounds,       \* rounds of the clock thread that a frame outlasts
  UserWaitsForLoad   \* TRUE: the user leaves the machine alone during a load

AllUiOps == {"toggle", "cycle", "instr", "over", "break", "reset", "save",
             "load", "close"}

ASSUME SystemAssumption ==
  /\ ResetHold \in Nat \ {0}
  /\ FrameRounds \in Nat \ {0, 1}
  /\ UiOps \subseteq AllUiOps
  /\ {Freezes, UserWaitsForLoad} \subseteq BOOLEAN

VARIABLES
  clk,    \* IC_8284A: psu, resetHold, reset, stop, powered; history: ran
  ui,     \* the render thread
  main    \* the main thread

vars == <<gateVars, clk, ui, main>>

ClockPCs == {"none", "await", "powerOn", "top", "resetting", "hold",
             "release", "dead"}

ClkInit == [psu |-> "None", resetHold |-> 0, reset |-> "Low", stop |-> FALSE,
            powered |-> FALSE, ran |-> FALSE]
UiInit  == [pc |-> "idle", sawPaused |-> FALSE, after |-> "ops",
            savePending |-> FALSE, wasRunning |-> FALSE, stepping |-> FALSE,
            loadReq |-> FALSE]

Init ==
  /\ GateInit
  /\ pc = "none"
  /\ clk = ClkInit
  /\ ui = UiInit
  /\ main = [pc |-> "pause", job |-> "boot"]

(***************************************************************************)
(* The clock thread: IC_8284A::run().                                      *)
(***************************************************************************)
\* while (!stop) if (psu_cmd_ == PowerOn) ...
AwaitPower ==
  /\ pc = "await"
  /\ \/ clk.stop /\ pc' = "dead"
     \/ ~clk.stop /\ clk.psu = "PowerOn" /\ pc' = "powerOn"
  /\ UNCHANGED <<dbg, cpu, seen, ret, hist, clk, ui, main>>

\* psu_cmd_ = None; scheduler_->power_on_all(); VCC and RES High, RESET Low.
PowerOnAll ==
  /\ Goto("powerOn", IF clk.stop THEN "dead" ELSE "top")
  /\ clk' = [clk EXCEPT !.psu = "None", !.powered = TRUE, !.reset = "Low"]
  /\ dbg' = [dbg EXCEPT !.lastTsc = "zero"]
  /\ UNCHANGED <<cpu, seen, ret, hist, ui, main>>

\* Mutant of SpinTop: power_off() relies on the POWER-OFF command alone.
SpinTopNoStop ==
  /\ pc = "top"
  /\ pc' = CASE clk.psu = "PowerOff" -> "release"
             [] clk.psu = "Reset"    -> "resetting"
             [] OTHER                -> "hold"
  /\ UNCHANGED <<dbg, cpu, seen, ret, hist, clk, ui, main>>

\* The head of the spin loop: stop request, then the PSU command.
SpinTop ==
  /\ pc = "top"
  /\ pc' = CASE clk.stop \/ clk.psu = "PowerOff" -> "release"
             [] ~clk.stop /\ clk.psu = "Reset"   -> "resetting"
             [] OTHER                            -> "hold"
  /\ UNCHANGED <<dbg, cpu, seen, ret, hist, clk, ui, main>>

\* psu_cmd_ = None erases whatever was written since it was read.
StartReset ==
  /\ Goto("resetting", "hold")
  /\ clk' = [clk EXCEPT !.psu = "None", !.resetHold = ResetHold,
                        !.reset = "High"]
  /\ UNCHANGED <<dbg, cpu, seen, ret, hist, ui, main>>

\* if (reset_hold_ > 0) if (--reset_hold_ == 0) RESET Low; then evaluate().
HoldReset ==
  /\ Goto("hold", "evaluate")
  /\ LET left == IF clk.resetHold > 0 THEN clk.resetHold - 1 ELSE 0
     IN  clk' = [clk EXCEPT !.resetHold = left,
                            !.reset = IF clk.resetHold > 0 /\ left = 0
                                      THEN "Low" ELSE @]
  /\ ret' = "loop"
  /\ UNCHANGED <<dbg, cpu, seen, hist, ui, main>>

\* The cycle itself.
RunCycle ==
  /\ RunPlan(IF ret = "loop" THEN "top" ELSE "release",
             dbg.stepInstr \/ ui.pc = "flagInstr",
             dbg.stepOver \/ ui.pc = "flagOver")
  /\ clk' = [clk EXCEPT !.ran = TRUE]
  /\ UNCHANGED <<ui, main>>

\* Power-down: outputs released, one last evaluate(), power_off_all().
Release ==
  /\ pc = "release"
  /\ \/ /\ ret = "loop"
        /\ ret' = "down"
        /\ pc' = "evaluate"
        /\ clk' = clk
     \/ /\ ret = "down"
        /\ ret' = ret
        /\ pc' = "dead"
        /\ clk' = [clk EXCEPT !.powered = FALSE]
  /\ UNCHANGED <<dbg, cpu, seen, hist, ui, main>>

ClockGate ==
  /\ GateStepNext
  /\ UNCHANGED <<clk, ui, main>>

ClockThread ==
  \/ AwaitPower \/ PowerOnAll \/ SpinTop \/ StartReset \/ HoldReset
  \/ ClockGate \/ RunCycle \/ Release

TimePasses == Elapse(Freezes) /\ UNCHANGED <<clk, ui, main>>

(***************************************************************************)
(* The render thread.                                                      *)
(***************************************************************************)
Loading == main.pc \notin {"idle", "exit"} /\ main.job = "load"

UiIdle == UNCHANGED <<gateVars, clk, main>>

\* A new frame: a pending save goes first; paused is sampled once.  Real time:
\* the frame begun at the Save press has outlasted FrameRounds rounds of the
\* clock thread, wherever they brought it (hist.lag counts them down).
Frame ==
  /\ ui.pc = "idle"
  /\ ui.savePending => hist.lag = 0
  /\ ui' = [ui EXCEPT !.pc = IF ui.savePending THEN "saving" ELSE "ops",
                      !.savePending = FALSE, !.sawPaused = dbg.paused]
  /\ UiIdle

\* save_system() reads every component, then resumes if it had paused.
SaveDone ==
  /\ ui.pc = "saving"
  /\ ui' = [ui EXCEPT !.pc = IF ui.wasRunning THEN "resume" ELSE "ops",
                      !.after = "ops"]
  /\ UiIdle

EndFrame ==
  /\ ui.pc = "ops"
  /\ ui' = [ui EXCEPT !.pc = "idle", !.sawPaused = FALSE, !.after = "ops",
                      !.stepping = FALSE, !.wasRunning = ui.savePending /\ @]
  /\ UiIdle

MayUse(op) ==
  /\ ui.pc = "ops"
  /\ op \in UiOps
  /\ UserWaitsForLoad => ~Loading /\ main.job # "boot"

\* F5, the status text and the toolbar button act on the sampled flag.
TogglePause ==
  /\ MayUse("toggle") /\ ~ui.sawPaused
  /\ Pause
  /\ ui' = [ui EXCEPT !.sawPaused = TRUE]
  /\ UNCHANGED <<clk, main>>

ToggleResume ==
  /\ MayUse("toggle") /\ ui.sawPaused
  /\ ui' = [ui EXCEPT !.pc = "resume", !.after = "ops", !.sawPaused = FALSE]
  /\ UiIdle

UiResumeRun ==
  /\ ui.pc = "resume"
  /\ ResumeRun
  /\ ui' = [ui EXCEPT !.pc = "tsc"]
  /\ UNCHANGED <<clk, main>>

UiResumeTsc ==
  /\ ui.pc = "tsc"
  /\ ResumeTsc
  /\ ui' = [ui EXCEPT !.pc = "wake"]
  /\ UNCHANGED <<clk, main>>

\* The store to dbg_wake_ that ends resume() and every step call.
UiWake ==
  /\ ui.pc = "wake"
  /\ WakeStore
  /\ ui' = [ui EXCEPT !.pc = ui.after, !.after = "ops"]
  /\ UNCHANGED <<clk, main>>

PressCycle ==
  /\ MayUse("cycle") /\ ui.sawPaused
  /\ StepCycle
  /\ ui' = [ui EXCEPT !.pc = "wake", !.after = "ops"]
  /\ UNCHANGED <<clk, main>>

PressInstr ==
  /\ MayUse("instr") /\ ui.sawPaused
  /\ StepInstrTarget
  /\ ui' = [ui EXCEPT !.pc = "flagInstr"]
  /\ UNCHANGED <<clk, main>>

UiFlagInstr ==
  /\ ui.pc = "flagInstr"
  /\ StepInstrFlag
  /\ ui' = [ui EXCEPT !.pc = "wake"]
  /\ UNCHANGED <<clk, main>>

PressOver ==
  /\ MayUse("over") /\ ui.sawPaused
  /\ StepOverTarget
  /\ ui' = [ui EXCEPT !.pc = "flagOver"]
  /\ UNCHANGED <<clk, main>>

UiFlagOver ==
  /\ ui.pc = "flagOver"
  /\ StepOverFlag
  /\ ui' = [ui EXCEPT !.pc = "wake"]
  /\ UNCHANGED <<clk, main>>

EnterBreak ==
  /\ MayUse("break")
  /\ SetBreakAddress
  /\ UNCHANGED <<clk, ui, main>>

\* "Yes, Reset": resume(), then psu_reset().
PressReset ==
  /\ MayUse("reset")
  /\ ui' = [ui EXCEPT !.pc = "resume", !.after = "psuReset"]
  /\ UiIdle

UiPsuReset ==
  /\ ui.pc = "psuReset"
  /\ clk' = [clk EXCEPT !.psu = "Reset"]
  /\ ui' = [ui EXCEPT !.pc = "ops"]
  /\ UNCHANGED <<gateVars, main>>

\* Mutant of PressSave: the save is not deferred to the next frame.
PressSaveAtOnce ==
  /\ MayUse("save")
  /\ Pause
  /\ ui' = [ui EXCEPT !.pc = "saving", !.sawPaused = FALSE,
                      !.wasRunning = ~dbg.paused, !.stepping = StepOwed]
  /\ UNCHANGED <<clk, main>>

\* "Save State": pauses a running machine; the file is written next frame.
PressSave ==
  /\ MayUse("save")
  /\ dbg' = [dbg EXCEPT !.paused = TRUE]
  /\ hist' = [hist EXCEPT !.lag = FrameRounds]
  /\ ui' = [ui EXCEPT !.pc = "idle", !.savePending = TRUE, !.sawPaused = FALSE,
                      !.wasRunning = ~dbg.paused,
                      !.stepping = StepOwed]
  /\ UNCHANGED <<cpu, pc, seen, ret, clk, main>>

PressLoad ==
  /\ MayUse("load")
  /\ ui' = [ui EXCEPT !.loadReq = TRUE]
  /\ UiIdle

\* The window closes, or Renderer::stop() is waiting for the thread.
UiExit ==
  /\ ui.pc = "idle"
  /\ main.pc = "stopUi" \/ (main.pc = "idle" /\ "close" \in UiOps)
  /\ ui' = [ui EXCEPT !.pc = "gone", !.savePending = FALSE]
  /\ UiIdle

UiThread ==
  \/ Frame \/ SaveDone \/ EndFrame \/ TogglePause \/ ToggleResume
  \/ UiResumeRun \/ UiResumeTsc \/ UiWake \/ PressCycle
  \/ PressInstr \/ UiFlagInstr \/ PressOver \/ UiFlagOver \/ EnterBreak
  \/ PressReset \/ UiPsuReset \/ PressSave \/ PressLoad \/ UiExit

(***************************************************************************)
(* The main thread.                                                        *)
(***************************************************************************)
MainAt(from, to) == main.pc = from /\ main' = [main EXCEPT !.pc = to]

\* Mutant of MainPause: the rebuilt machine is started running.
MainPauseForgotten == MainAt("pause", "start") /\ UNCHANGED <<gateVars, clk, ui>>

MainPause ==
  /\ MainAt("pause", "start")
  /\ Pause
  /\ UNCHANGED <<clk, ui>>

\* clk_gen->power_on(): a new thread enters run().
MainStartClock ==
  /\ MainAt("start", "psuOn")
  /\ Goto("none", "await")
  /\ UNCHANGED <<dbg, cpu, seen, ret, hist, clk, ui>>

MainPsuOn ==
  /\ MainAt("psuOn", IF main.job = "load" THEN "waitParked" ELSE "booted")
  /\ clk' = [clk EXCEPT !.psu = "PowerOn"]
  /\ UNCHANGED <<gateVars, ui>>

\* Mutant of MainWaitParked: it trusts paused_ instead of in_pause_gate_.
MainWaitPaused ==
  /\ dbg.paused
  /\ MainAt("waitParked", "overwrite")
  /\ UNCHANGED <<gateVars, clk, ui>>

\* wait_until_parked() returns once it has seen in_pause_gate_.
MainWaitParked ==
  /\ dbg.inGate
  /\ MainAt("waitParked", "overwrite")
  /\ UNCHANGED <<gateVars, clk, ui>>

\* load_remaining() and restore_signal_pool() have run: back to the loop.
MainToLoop ==
  /\ main.pc \in {"overwrite", "booted"}
  /\ main' = [pc |-> "idle", job |-> "none"]
  /\ UNCHANGED <<gateVars, clk, ui>>

TakeLoad ==
  /\ main.pc = "idle" /\ ui.loadReq /\ ui.pc # "gone"
  /\ main' = [pc |-> "stopUi", job |-> "load"]
  /\ UNCHANGED <<gateVars, clk, ui>>

\* Renderer::stop() joins the render thread; then System::power_off().
MainJoinUi ==
  /\ ui.pc = "gone"
  /\ \/ MainAt("stopUi", "resume")
     \/ main.pc = "idle" /\ main' = [pc |-> "resume", job |-> "quit"]
  /\ UNCHANGED <<gateVars, clk, ui>>

MainResumeRun ==
  /\ MainAt("resume", "tsc")
  /\ ResumeRun
  /\ UNCHANGED <<clk, ui>>

MainResumeTsc ==
  /\ MainAt("tsc", "wake")
  /\ ResumeTsc
  /\ UNCHANGED <<clk, ui>>

MainWake ==
  /\ MainAt("wake", "psuOff")
  /\ WakeStore
  /\ UNCHANGED <<clk, ui>>

MainPsuOff ==
  /\ MainAt("psuOff", "reqStop")
  /\ clk' = [clk EXCEPT !.psu = "PowerOff"]
  /\ UNCHANGED <<gateVars, ui>>

MainRequestStop ==
  /\ MainAt("reqStop", "join")
  /\ clk' = [clk EXCEPT !.stop = TRUE]
  /\ UNCHANGED <<gateVars, ui>>

\* thread_.join() returns; a load rebuilds the system and the renderer.
MainJoined ==
  /\ pc = "dead"
  /\ \/ /\ main.job = "quit"
        /\ MainAt("join", "exit")
        /\ UNCHANGED <<gateVars, clk, ui>>
     \/ /\ main.job = "load"
        /\ MainAt("join", "pause")
        /\ dbg' = DbgInit /\ cpu' = CpuInit /\ hist' = HistInit
        /\ seen' = 0 /\ ret' = "loop" /\ pc' = "none"
        /\ clk' = ClkInit /\ ui' = UiInit

MainThread ==
  \/ MainPause \/ MainStartClock \/ MainPsuOn \/ MainWaitParked \/ MainToLoop
  \/ TakeLoad \/ MainJoinUi \/ MainResumeRun \/ MainResumeTsc \/ MainWake
  \/ MainPsuOff \/ MainRequestStop \/ MainJoined

Next == ClockThread \/ TimePasses \/ UiThread \/ MainThread

(***************************************************************************)
(* Fairness: the clock thread is a time-critical spinning thread and the   *)
(* main thread is a loop, neither waits on the other except at a join.  The*)
(* render thread finishes what it has begun and finishes its frame; what   *)
(* the user does is his affair.  The compare-exchange does not fail for    *)
(* ever.                                                                   *)
(***************************************************************************)
UiFinishes ==
  \/ SaveDone \/ EndFrame \/ UiResumeRun \/ UiResumeTsc \/ UiWake
  \/ UiFlagInstr \/ UiFlagOver \/ UiPsuReset
  \/ (main.pc = "stopUi" /\ UiExit)

Fairness ==
  /\ WF_vars(ClockThread) /\ SF_vars(ClockGate /\ CasTakes)
  /\ WF_vars(UiFinishes)
  /\ WF_vars(MainThread)

Spec == Init /\ [][Next]_vars /\ Fairness

(***************************************************************************)
(* Properties.                                                             *)
(***************************************************************************)
TypeOK ==
  /\ GateTypeOK
  /\ pc \in GatePCs \cup ClockPCs
  /\ clk \in [psu : {"None", "PowerOn", "PowerOff", "Reset"},
              resetHold : 0 .. ResetHold, reset : {"Low", "High"},
              stop : BOOLEAN, powered : BOOLEAN,
              ran : BOOLEAN]
  /\ ui \in [pc : {"idle", "ops", "saving", "resume", "tsc", "wake",
                   "flagInstr", "flagOver", "psuReset", "gone"},
             sawPaused : BOOLEAN, after : {"ops", "psuReset"},
             savePending : BOOLEAN, wasRunning : BOOLEAN,
             stepping : BOOLEAN, loadReq : BOOLEAN]
  /\ main \in [pc : {"pause", "start", "psuOn", "booted", "waitParked",
                     "overwrite", "idle", "stopUi", "resume", "tsc", "wake",
                     "psuOff", "reqStop", "join", "exit"},
               job : {"boot", "load", "quit", "none"}]

Parked == dbg.inGate /\ pc \in LoopPCs

\* While main overwrites the rebuilt machine with the saved state, the clock
\* thread has finished power_on_all(), has run no cycle, and stays in the
\* gate: the saved state is neither reset afterwards nor torn.
LoadOverwritesQuietMachine ==
  main.pc = "overwrite" => clk.powered /\ ~clk.ran /\ Parked

\* save_system() runs one frame after the pause.  Given that a frame outlasts
\* FrameRounds rounds of the clock thread, it reads a machine whose clock thread
\* is in the gate and stays there until the save is written, unless a step was
\* still owed when Save was pressed: a step runs with paused_ set, so Save then
\* pauses nothing and reads a running machine however long the frame.
SaveReadsQuietMachine ==
  ui.pc = "saving" => Parked \/ ui.stepping

\* A load that has powered the new machine on gets to overwrite it.
LoadCompletes == main.pc = "waitParked" ~> main.pc = "overwrite"

\* System::power_off() joins the clock thread: if no breakpoint is armed, the
\* machine is running when the stop is requested and the clock thread is not
\* about to store a pause, main gets past the join.  Without the last it need
\* not: a pause stored late parks the clock thread in the last evaluate().
ShutdownCompletes ==
  (main.pc = "reqStop" /\ ~dbg.brk /\ ~dbg.paused /\ ~LatePause)
     ~> main.pc \notin {"reqStop", "join"}

=============================================================================
