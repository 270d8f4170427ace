# Greenboard: a verification project

Greenboard simulates an IBM PC 5150 system board chip by chip: one clock thread
evaluates every component once per CLK cycle, a render thread draws the board
and offers a debugger, a main thread boots, saves, loads and shuts down, and an
audio thread drains the speaker. This directory holds TLA+ models of the system
from the threads down to the nets of the memory path, the TLC runs that check
them, and TLAPS proofs of the results that hold for every size. Paths below are
relative to `src/src/`, so the scheduler is `core/scheduler.h`; `assets/hostfs.c`
is in `src/assets/`.

Contents: 1 the system, 2 modules and how they correspond to the code, 3 runs,
bounds and fairness, 4 what was learnt, 5 proofs, 6 what is not modelled, 7 what
could come next.

## 1. Inventory

| Component | State | Operations | Talks to | What is hard, and what must hold |
|---|---|---|---|---|
| Debugger gate, `core/scheduler.h` | `paused_`, `steps_`, `step_instr_`, `step_over_`, `dbg_wake_`, `in_pause_gate_`, `dbg_last_tsc_`, `dbg_break_addr_` | `pause`, `resume`, `step_cycle`, `step_instruction`, `step_over`, `set_break_address`, `wait_until_parked`, `pause_gate` in `evaluate` | called by the render and main threads, runs on the clock thread, no lock | lost wakes, lost step credits, a flag that says "parked" of a moving thread, a pause stored after the resume it should precede |
| Clock and power supply, `ic/ic_8284a.cpp`, `core/threaded_component.cpp` | `psu_cmd_` (one unsynchronised slot), `reset_hold_`, pins, stop token | `power_on`, `run`, `psu_power_on`, `psu_power_off`, `psu_reset`, `power_off` (join) | scheduler, main, render | commands that overwrite each other, a join that never returns |
| Machine lifecycle, `main.cpp` | the built system, the loop | boot, load, quit | clock and render threads | power-on defaults before saved state, nothing running while it is overwritten |
| Render controls, `display/renderer.cpp` | `save_pending`, `was_running_before_save`, `load_requested_` | toolbar, function keys, save on the next frame | gate, power supply, main | the assumption that one frame is enough to park |
| Wave planner, `core/scheduler.h` | plans by permutation, 16-slot table | select, solve, flatten, evaluate | every component | producers before consumers in every permutation, a graph with a cycle ends the program, a slot with another permutation's plan |
| Signals and component kinds, `core/` | `SignalPool`, mailboxes, fibers | declare, drive, level, wake | every component | a released pin keeps its level; who is an input and who an output changes every cycle |
| 8259A, `ic/ic_8259a.cpp` | `irr_`, `isr_`, `imr_`, initialisation state, INTA count | ICW1-4, OCW1-3, EOI, INTA pulses, line sampling | devices, 8288, 8088 | INT never stale, edges never lost, no vector on the wrong pulse |
| 8088, `ic/ic_8088.cpp` | the two coroutines, registers, prefixes, `nmi_pending_`, `trap_flag_`, HLT | fetch, execute, bus cycles, interrupt and trap entry, RESET, power | 8288, 8259A, 8284A | a request between a prefix and its string, the trap one instruction late, RESET and power in mid-instruction, carries at the edge of the width |
| 8288 and bus-grant glue, `ic/ic_8288.cpp`, `board/board_wiring.h` | command outputs, `inhibited_`, `bus_hold_`, flip-flops U67, U82, U98 | status decode, strobes, transceiver control, inhibit, recovery | 8088, 8237A, 8284A READY | a command lost or repeated around a grant, two masters, READY that does not return, transceivers turned too late |
| 8237A, `ic/ic_8237a.cpp` | channels, service state, first/last flip-flop | register accesses, arbitration, transfer phases, terminal count, memory to memory, verify | 8288 glue, ISA bus | one service at a time, wrap of the count, autoinitialise, partial reset, requests in mid-cycle |
| Memory and glue, `ic/`, `board/board_wiring.h` | latches, DRAM rows and columns, delay line | combinational or latched functions of nets | the bus | each byte in its cell, whoever is the master |
| 8253, `ic/ic_8253.cpp` | three counters, latch, byte order | control word, load, read, latch, tick | IRQ0, refresh, speaker | half-written counts, odd square waves, 0 as 65536 |
| 8255A and keyboard, `ic/ic_8255a.cpp`, `test/test_keyboard.cpp` | ports; ring of scan codes; queue, delivery and reset state | port accesses, `inject_key`, `enqueue_code`, deliver, acknowledge | IRQ1, render thread | codes lost when full, delivery against acknowledge, an edge for each code |
| ISA bus, `isa/isa_bus.cpp` | request and acknowledge levels, one active channel, T/C edge | I/O and memory strobes, DMA callbacks | 8237A, cards, IRQ lines | one active channel for all cards |
| Floppy controller, `isa/isa_fdc.cpp` | DOR, phase, command bytes, seek timer | port accesses, commands, DMA callbacks | channel 2, IRQ6 | reset in mid-command, failing sectors, transfers that outlive their command |
| Test card and host files, `isa/isa_testcard.cpp`, `assets/hostfs.c` | streams by handle, the one search, the reply buffer; DOS's file table | open, read, write, seek, close, search, delete, save, load | DOS, the host's directory | shared entries, buffered writes, handles that wrap, files gone at a load |
| Speaker ring, `audio/pc_speaker.h` | `buf`, `write`, `read`, `cached_read`, `drops` | `push`, `pop` | clock thread, audio callback | lock-free, stale counter copy, 32-bit wrap |
| Board description, display, host platform, CPU test driver | parsed once or drawn | - | - | sequential, output or vendored |

The threads meet in the gate, the power-supply slot, the keyboard's ring and the
speaker's ring. Everything else runs on the clock thread, where "concurrency" is
between chips: within one `evaluate()` each component sees what those before it
in the plan have driven and what the others drove a cycle ago.

`core/save_state.cpp`, which `CMakeLists.txt` names, is not in the source tree:
saving and loading are known from their callers, and from the cards' own part
(`isa/isa_testcard.h`).

## 2. The modules

| Module | Models | Uses |
|---|---|---|
| `PauseGate` | the debugger gate, atomic access by atomic access | |
| `ClockSystem`, `ClockSystemProofs` | clock, render and main threads around the gate | `PauseGate` |
| `PIC`, `InterruptPath`, `PICProofs` | one call of `IC_8259A::on_cycle()`; devices, strobe, 8088 and a BIOS-like program around it | |
| `BusArbitration`, `BusProofs` | 8088 T-states, 8288, bus-grant gates and flip-flops, 8237A service, one CLK a step | |
| `BoardChips`, `BoardWiring` | forty-one chips: what they declare, what they do; the nets between them | |
| `WavePlan` | the planner: the order of a cycle from the directions of the blocks | `BoardChips` |
| `MemoryPath` (`MCMemoryPath`) | bytes between processor, memory, DMA controller and a card, run in the order planned for each cycle | the three above |
| `PlanCache` | the map of plans and the direct-mapped table of pointers into it; proved in `ClockSystemProofs`, whose thread runs the plans | |
| `DMA` | the 8237A's registers and service engines | |
| `Floppy`, `ISABus`, `FloppySystem`, `FloppyProofs` (`MCFloppySystem`) | the floppy controller; the bus with it and the test card; driver programs on top | `DMA` |
| `HostFiles`, `Redirector`, `RedirectorProofs` (`MCRedirector`) | the host file card; DOS's calls through the redirector, saves and loads | |
| `Timer` (`MCTimer`) | the 8253 and the program that uses it | |
| `PPI`, `Keyboard`, `KeyboardProofs` (`MCKeyboard`) | the 8255A with the switches; keyboard, host thread and program | |
| `Processor`, `ProcessorProofs` (`MCProcessor`) | the 8088's two coroutines, clock by clock | |
| `ALU`, `ALUChecks` | the arithmetic and its flags; checked against what it should be, proved in `ProcessorProofs` | |
| `SpeakerQueue`, `SpeakerRing` | what the ring promises; the lock-free ring | |
| `SoundProofs` | the theorems about the timer and the ring | `Timer`, `SpeakerRing` |

A module whose name begins with MC holds an instance for TLC: the programs,
contents and words that a `.cfg` cannot write down. Constants are bound in the
`.cfg` files. A definition marked as a mutant is the defect that the property
named beside it in `PROJECT.json` is known to catch.

How they compose: `BusArbitration` settles who owns the bus in each clock, with
the order of evaluation left as a choice between the plans that can occur.
`MemoryPath` refines that picture for the data: it takes the declared pins of
every chip on the path, solves the plan as the scheduler does and runs the chips
in that order, so nothing about the order is assumed. `FloppySystem` and
`Processor` abstract from both: a port access is whole and happens while the
processor owns the bus, which is what the two lower models establish (and where
they do not, section 4 says so).

### PauseGate and ClockSystem

`pc` is the clock thread's place in `run()`, `evaluate()` and `pause_gate()`.
`dbg` is the Scheduler's debugger fields. Each step makes one access to a field
that another thread also uses, so every interleaving of two cores is a
behaviour. Every store of `pause_gate()` is a step: `ClearStepInstr` after
`GateInstr`, `Park`, `LoadSteps` and the compare-exchange apart (`CasTakes`,
`CasFails`, which may fail spuriously as `compare_exchange_weak` does), `Arm`
and `Awake` for `_umonitor` and `_umwait`. So are the tests and stores of
`evaluate()`: the breakpoint is `Breakpoint`, `BreakPause`, `BreakClear`, the time of
the last cycle `TscCheck`, `TscAge`, `TscPause`, `TscStore`, and what another thread
stores between a test and its store is overwritten.

The callers' three stores are steps too (`UiResumeRun`, `UiResumeTsc`,
`UiWake`). The model takes all accesses in one order: it does not show what a
weaker memory order could add; the machine is x86, the stores are in program
order, and the flags are read again at the 500000-tick deadline.

Abstractions, by field: `dbg_last_tsc_` is zero, recent or older than the
threshold. Of the processor the gate reads whether the instruction counter has
moved since the step command and whether IP and SP have reached the step-over
target: a cycle may set the first and may set or clear the second. They are
followed only while a command watches them. `hist` is history: `owed` counts
step_cycle() calls not yet run, `paid` says the clock thread has taken one,
`lag` measures the frame that follows a Save press: it is set to `FrameRounds` by
the press and counts down with every round of the clock thread, a cycle begun
(`EnterEvaluate`) or a turn of the gate's loop (`LoadSteps`), wherever the thread
is brought by them.
A load rebuilds the whole system, so `MainJoined` returns every variable to its
initial value.

Constants that restrict behaviour:

| Constant | Meaning | Where |
|---|---|---|
| `MaxSteps` | step_cycle() calls pending at once (the code has no bound) | guard of `StepCycle` |
| `ResetHold` | 8 in the code; 2 in the runs | `StartReset` |
| `UiOps` | what the user may press in this run | `MayUse` |
| `FrameRounds` | rounds of the clock thread that a frame of the render thread outlasts; 2 in the runs | `PressSave`, `Frame` |
| `Freezes` | the host (a debugger) may stop the clock thread for longer than the threshold anywhere | `Elapse` |
| `UserWaitsForLoad` | no button is pressed between boot or a load request and its end | `MayUse` |

`Freezes = FALSE` and `UserWaitsForLoad = TRUE` are assumptions of the runs about
liveness and loading, and not facts of the code: a frozen clock thread pauses
itself by design, and a user who presses Resume while the machine is being
overwritten does let it run. The theorems assume neither, `LoadsOverwriteQuiet`
excepted, whose hypothesis is `UserWaitsForLoad`. A build may read `dbg_last_tsc_` once or
twice in line 294: `TscCheck` and `TscAge` are two reads, which may see one value.

`FrameRounds` is an assumption about time, which the code makes and nowhere states:
`renderer.cpp:1078` saves in the next frame whatever the clock thread does. A frame
lasts milliseconds, a cycle less than a microsecond and a turn of the gate's loop at
most its 500000 ticks: two rounds, the least for which the code is right, are well
within a frame. After one round the save
may read a machine in the middle of the cycle that was under way at the press.
Nothing is assumed of where the rounds lead: a thread that does not park spends them
in cycles, and the save goes on. The guard says no more than that the time has
passed, and the theorem holds for every bound above one.

### PIC and InterruptPath

`PIC!OnCycle(p, e, lines)` is a function of the registers `p`, one bus event `e`
and the levels of the IR pins; the 8-bit registers are sets of levels. The bus
strobes' previous values and `write_latched_` exist to turn a level held for
several evaluations into one event, so an event here is the edge. Left out: the
vector base, the 8080 encoding and what a read returns.

`InterruptPath` composes it with pins that move at will, with the strobe of the
8288 (it falls in T2 and is released in T1 of the following cycle), with the
8088 (INTR sampled between instructions, INTA cycles, RESET at any point) and
with a program that keeps the BIOS protocol: initialise after reset, one
specific or non-specific EOI per handler, then IRET. The program is external;
its actions are marked so in the map. No bus grant falls between the two INTA
pulses (section 6).

`EdgeModes = {TRUE}`: in the level mode `on_cycle()` never sets a request, it
only withdraws them, so nothing can be said of service there. The theorems cover
both modes.

### BusArbitration

The board is synchronous, so a step is one CLK and each chip is an operator from
the levels it reads to what it drives: `CpuStep`, `BcStep`, `DmaStep`, `GlueStep`
and `Ready`. What is not determined is the program (`Ops`), when a request rises
and how many transfers it wants (at most `MaxBurst`).

`Scheduler::evaluate` runs the chips once per CLK, in a topological order of the
nets driven in that cycle. A net that feeds back is registered, or is left out of
the order where it would close a cycle; whoever runs before its driver reads the
level of the cycle before. Which nets are driven depends on the level of four
sets of pins, so the order does, and it decides outcomes. There is one action per
order:

| Action | When | Order |
|---|---|---|
| `ClockIdle` | 8237A in SI, 8288 not inhibited | 8288, then the decoders and the 8237A; U52 reads the old HRQ, which is HiZ in SI |
| `ClockRequested` | BusRequested | as above, but HRQ is driven: U52, U5 and U67 see it at once |
| `ClockTransfer` | S1 to S4 | the 8237A drives the command nets: it, U64 and U101 run before the 8288 |
| `ClockRelease` | SI again, 8288 still inhibited | the 8288 has its transceivers off: the order of `ClockTransfer`, the old HRQ of `ClockIdle` |

When a read enters T3 the processor's status lines leave the order (`bus_t_` is
T2_Read), and the 8288 and U5 may run before the 8088 and decode the status of
T2. `LateWhenIdle` and `LateWhenRequested` leave the choice open where it depends
on the address. The plans were read off the scheduler, and the model was compared
with a headless build of this board clock by clock over about 70,000 clocks of
six mixes of programs and single, block and demand transfers: every clock was a
step of `Next` between the two observed states.

`RdyWaitBar` and `Holda` model flip-flops by what the C++ does, which is not what
the parts do: the 74S74 is a transparent latch while CLK is high, both outputs
go high when clear and preset are both low (U67 is preset by its own `~Q`), and
pin 11 of U98 drives `~3Q` although the wiring comment calls it 3Q.

`seen` is history of the processor's bus cycle. Left out: channel 0 (the request
never rises, as `IC_8253` suppresses OUT1), verify, memory-to-memory and
compressed transfers, wait states of cards (I/O_CH_RDY is never wired), the
pairing of INTA cycles, and, because `MemoryPath` and `DMA` have them, address,
data and registers. `Init` is the first clock
after RESET with the 8237A programmed and idle.

### WavePlan, BoardChips, BoardWiring, MemoryPath, PlanCache

`BoardChips` has one operator per kind of chip. Each gives what `install()` and
`connect()` declare to the scheduler (nets read, nets driven, blocks whose
direction is chosen anew every cycle) and what `on_cycle()` makes of the levels
it finds. `BoardWiring` has one definition per chip of the path, named as on the
board (`U12`, `U35`, ...), the order in which they register and the levels after
power-on. `WavePlan!Solve` is `solve_perm()`: the blocks' directions move nets
between what a chip reads and what it drives, who drives a net runs before who
reads it, and the chips of a wave run as they register. A step of `MemoryPath` is
one `evaluate()`: every block reports its direction from the levels of the last
cycle, the plan is solved, and the chips run one after the other on a growing
record of levels.

Address nibbles, the upper address byte and the data buses are numbers, since no
property asks whether they float; every strobe, enable and direction is a level
of three values. DRAM is modelled with its rows, columns and delay line, so a
byte that is latched for another cell lands there. Left out: chips that read the
path and drive nothing of it (U26, U27, U2, U34, U36, U63, the switches). The
processor is its T-states, the card is a floppy controller seen from the bus:
two ports, a request, a byte per acknowledge, the end at an edge of T/C.

`PlanCache` is the map `wave_plans_` and the 16-slot table of pointers in front of
it; what `solve_perm()` answers is a constant there, so the two meet in
`WavePlan!Solve`. It is small enough for a proof at every size and has no run.

### DMA, ISABus, Floppy, FloppySystem

`DMA!Cycle` is `IC_8237A::on_cycle()` without a register access: the transfer,
copy and verify engines, priorities, terminal count, autoinitialise, reset.
`ISABus` watches its strobes for edges as `ISA_Bus::on_cycle()` does, calls the
active card and carries out the wishes a card's handler leaves in `out`. `Floppy`
has the digital output register, the FIFO by phase, every command and the two DMA
callbacks. `FloppySystem` adds driver programs (sector read and write, a read
over an address wrap, format, protected read, read past the disk, programmed
I/O, memory copy and fill, verify, and a test-card transfer that is waited for or
not), the abandoning of a wait, a controller reset and a machine reset, which
reaches the 8237A and neither the bus nor the cards.

Bytes are digits of base `ByteSize` and words two of them; memory and disk hold
distinct numbers, so a byte tells where it came from. `mishap` is history: it
names what a program did that the code does not provide for (`abandoned`: a reset
in mid-transfer; `overlap`: a second request while the one active channel is
taken; `resetInCopy`). Properties about the outcome except exactly those.

### HostFiles and Redirector

`HostFiles` is the card: streams by handle, the stream's buffer, the one search,
the reply, and the host directory (an open file is neither deleted nor renamed,
as on Windows, for which the build is). `Redirector` is `assets/hostfs.c`: an
action is one DOS call with the card's commands in their order, on DOS's file
table and search areas. `Save` and `Load` may fall between any two calls: the
machine comes back, the host directory does not. `dos` is what DOS was told, and
`mishap` names the gaps the code has (section 4).

### Timer

One step is one CLK. Accesses are strobes with their edge detection and the
delayed execution of `on_cycle()`; a digit has `Digit` values, `Ten` when the
count is decimal, so that the wraps of both are reached. `seen` is the program's
view: how many ticks ago its count was taken, and the count it has frozen.

### PPI and Keyboard

`PPI` is the 8255A and the two switch multiplexers as operators. `Keyboard` is
`test_keyboard.cpp` with the ring's two ends on two threads (`HostInject`,
`HostPublish` and `TakeKeys`, `FreeKeys` are apart), the delayed delivery, the
acknowledge by the ready line or by the test card's port, the reset pulse, and a
program with an interrupt handler.

### Processor and ALU

`Processor` has the bus unit, resumed once per CLK, and the execution unit, which
it resumes with the answer of a bus cycle. An instruction is its bus cycles and
then its effect on what the properties see: CS:IP, the stack, IF, TF, CX,
prefixes. INTR, NMI, RESET, READY and the power supply move between any two
clocks. A program is free to do what it likes; its interrupt handlers, at
`HandlerCode`, stay in their code until they return and leave the stack and TF to
the processor (`HandlerAssumption`), without which nothing can be said of what
the program meets when they are done. `ALU` is every arithmetic, shift, decimal and flag operation as an
operator on numbers; `ALUChecks` states what each should be and TLC evaluates it
before the run `processor`, over all byte operands or a sample that has the
edges. The places where the code differs from a real 8088 are in the formulas, so
that the checks hold of the code and name the difference.

### SpeakerRing and SpeakerQueue

Four steps of `push()` and three of `pop()`. `Full` uses the distance of the
counters modulo `Wrap`, as 32-bit subtraction does. The drop counter is kept
modulo 2, which is enough to see that a drop happened. `SpeakerQueue` is the
abstract specification: `Push`, `Drop` only when the queue is at its capacity,
`Pop` of the oldest. The refinement maps the queue to the entries from `read` up
to `write`; `push()` takes effect at the store to `write`, `pop()` at the store
to `read`. The consumer's fairness (the audio device calls back for ever) gives
the abstract one: what is queued is heard.

## 3. Runs

| Run | Module and bounds | Shows |
|---|---|---|
| `clock_life` | `ClockSystem`; 2 pending steps, pulse of 2 | pause, cycle steps, reset, load and shut-down: no step credit lost, a load overwrites a powered machine that has run no cycle, load and shut-down end |
| `clock_step` | `ClockSystem`; instruction and over steps, breakpoint, save, load | a save reads a parked machine unless a step was owed when it was asked for; a parked thread with a reason to leave leaves |
| `interrupts` | `InterruptPath`; 2 levels, 3 cycles with edges | INT never stale, no floating vector, in-service bits match the nest of handlers, every edge is served |
| `bus_arbiter` | `BusArbitration`; all six bus cycles, 2 transfers per service | commands of two masters never meet; the recovery is shielded; no port access happens twice; only a memory write costs the next cycle its command; READY comes back; a request is granted |
| `memory_path` | `MCMemoryPath`; 8 programs, a buffer over a 256-byte border | reads return the cell, ROM or port they name; memory keeps what was written, by either master; the card is told of the end after its last byte; every cycle has a plan |
| `polled_port` | `MCMemoryPath`; status port polled during a transfer | violation: a port read in which a request rises (finding 1) |
| `floppy_dma` | `MCFloppySystem`; 2 programs, 1 reset, 9 cells, 2 drives | transfers are faithful byte by byte, the controller is served exactly in its execution phase, a service stays with its channel, every wait ends |
| `host_files` | `MCRedirector`; 2 entries, 2 searches, 6 calls, handles modulo 4 | files are what DOS wrote, entries share no stream, a search finds each file once, only a load that misses a file ends the program |
| `timer` | `MCTimer`; channel 2, base-3 digits | OUT is the wave its count stands for in every mode; a latched count is read whole |
| `keyboard` | `MCKeyboard`; ring of 2, 2 host keys, 2 queued codes | no accepted key is lost, doubled or overtaken; each queued code is read once, and all are; each comes with an edge |
| `processor` | `MCProcessor`; 7 programs, one INTR, NMI and reset at a time | interrupts, traps and divide errors leave the program undisturbed, prefixes reach their instruction, one trap per stepped instruction, requests are served |
| `speaker` | `SpeakerRing`; 4 entries, counters modulo 8 | the ring implements the queue; no torn sample |

Why the bounds are enough.

* Gate: two pending steps let the counter move between the clock thread's load
  and its compare-exchange in both ways that matter; a reset's memory is its
  countdown, and two is the least with a cycle inside the pulse. Loads repeat
  without bound.
* Interrupts: two levels give every relation of priority between two requests or a
  request and a handler, and nest a handler in another; three edge cycles let a
  level be requested again while it is served and another interrupts it.
* Bus: a burst of two gives a transfer that another follows and one that ends the
  service. The program never stops and makes its cycles in every order.
* Memory path: the programs cover both directions, single and block service, and
  the state with and without a master clear; the buffer makes the address carry
  into the upper byte in mid-service, and three bytes put a byte on each side and
  one between. The processor's free cycles address another bank of RAM, the
  buffer, the ROM and a cell to be written, in every phase against the transfer.
* Floppy: two programs give every pair in which the first leaves something behind;
  a disk of four bytes and two sectors has a sector border, an end and an offset
  beyond it, and addresses of nine cells wrap.
* Host files: six calls open, share, write, move, close and look at a file, or run
  two searches against each other; three handles are given before they wrap.
* Timer: nine counts in two digits have the odd and the even, 1, 0 as the largest,
  and the borrow; a byte is one digit, so a word still has two halves.
* Keyboard: a ring of two has room for one, so the second key meets it full.
* Processor: each program is a loop that makes one kind of ending meet every
  request at every clock.
* Speaker: the counters pass their wrap in every phase against the buffer.

Deadlock is not checked in `ClockSystem` (the program really ends), `Redirector`
(the call budget ends) and `Processor` (the power may stay off, a program may run
to CS:IP 0, where the code stops); it is in the others.

### Fairness

* Clock thread: weak. It spins at time-critical priority and waits for nobody
  except in the gate, whose sleep has a deadline. In the chip models this is weak
  fairness of the step that is one `evaluate()`.
* `CasTakes`: strong. `compare_exchange_weak` may fail spuriously, not for ever.
* Main thread: weak. It polls every 100 ms, or waits in a join or a spin, which
  are guards of its actions.
* Render thread: weak, for what it has begun (`UiFinishes`, `HostPublish`). What
  the user does is never assumed.
* Programs: weak for the next step of a driver or a handler that is due; strong
  for the keyboard handler and `SetReady`, which other accesses can disable for a
  moment. A program that keeps interrupts disabled for ever serves nothing, so
  `Sti` is fair in `InterruptPath`, and `RequestsServed` is about the programs in
  `Open`, which do not.
* READY: strong in `Processor`: the 8284A raises it again after each hold
  (`CpuRuns` in `BusArbitration` is that fact).
* `RequestGranted` assumes in its own statement that the program does not write to
  the 8237A for ever, since that holds U5 off.
* Audio callback: weak.

## 4. What was learnt

Numbered, the disagreement a run shows; then what the models had to reproduce or
to except, each at its line. They are properties of the code as it is, met while
translating it.

1. `polled_port`: `evaluate_dreq()` asks `bus_hold()` only (`ic/ic_8237a.cpp:434`),
   so HRQ may rise inside a port read, against the comment above it. The 8237A's
   data pins become outputs, U13 moves behind the slots in the plan, and the
   processor reads the byte an earlier cycle left on XD.

Bus and data path:

* A grant in T3 of a memory write swallows the processor's next cycle, and the 8288
  re-asserts the write with the new cycle's byte (`ic/ic_8288.cpp:157-159, 207-216`).
  `LostOnlyAfterWrite` bounds it; `MemoryKeepsWrites` excepts it through `lost`.
* An access to the 8237A whose T1 meets a rising request is lost, for the same test
  of `bus_hold()`.
* A transfer from memory that starts while a port cycle runs loses its first bytes:
  the 8288's late inhibition undoes the direction the 8237A gave U12 in S1.
* On every RAM read U13 and U12 both drive D, and the order of the wave decides.
* GND is driven High by U82 (`board/board_wiring.h:1225-1229`) from the first cycle
  until U82 is evaluated in the second.
* I/O_CH_RDY is never wired to the slots, so the CGA's wait states never happen,
  though `isa/isa_bus.cpp` says the board routes it to the 8284A.
* U98's `set_d_sync` has no effect (`board_wiring.h:1195`); comments on U35, ~G2B of
  the I/O decoder and `74s244.h` ("floating input treated as High") are not what
  the code does; `ic_8288.h:74-80` says a hold of 4 where the code has 3; U81's RAS,
  AEN_BRD and the 74S244's outputs are declared as inputs too, so the planner does
  not count them as drivers.

8237A, bus and cards: a reset leaves `mem2mem_write_`; a floppy reset in
mid-transfer leaves the request and the active channel (`isa/isa_fdc.cpp:185-201`),
so the next unmask is served outside execution; `ISA_Bus::on_power_on()` keeps
`dma_dack_pending_`.

Threads:

* Power-off need not join. `evaluate()` reads `dbg_last_tsc_` and stores `paused_`
  in two accesses (`core/scheduler.h:294-295`), and `resume()` stores `paused_` before
  `dbg_last_tsc_` (432-433). The clock thread of a machine that stood for long leaves
  the gate at the first store, finds the old time, and may store `paused_` at any later
  moment: after `System::power_off()` has resumed and asked for the stop
  (`main.cpp:70-72`). It parks in the `evaluate()` of the power-down path, and the join
  never returns, though line 433 says "reset so first cycle after resume doesn't
  re-trigger" and `docs/architecture.md:137` "joins thread". The same store makes a
  machine that the user has resumed stand still. `ShutdownCompletes` leaves out a
  thread that has read its reason to pause when the stop is requested (`LatePause`);
  without that conjunct TLC finds the trace. A breakpoint that hits then does the same.
* Save pauses only a machine whose `paused_` is clear (`display/renderer.cpp:2004-2005`),
  and a step runs with it set: the next frame (1078) then saves a running machine,
  however long the frame, though the comments say "clock thread now parked" (1077) and
  "after clock thread parks" (2006). `SaveReadsQuietMachine` excepts the steps owed at
  the press (`ui.stepping`); without that TLC finds the trace.

Machine: RESET is driven Low for the whole of the first run
(`ic/ic_8284a.cpp:75-77`) and `power_on()` does not call `cpu_reset()`, so the
processor starts at the constructor's F000:FFF0 and after a power cycle with stale
registers. RESET is not looked at during a bus cycle, and a processor that ran to
CS:IP 0 cannot be restarted by it. A machine is saved at whatever clock it was
paused, and a load starts new coroutines (`ic/ic_8088.cpp:72`) beside the bus cycle
and the acknowledge pulses that the 8288 and the 8259A keep. A build that reads
`dbg_last_tsc_` twice in line 294 takes the zero of a `resume()` between the reads for
a time long past. A reset is held for seven of the eight cycles the comment names
(`ic/ic_8284a.cpp:119`).

8088: NMI is masked by IF and by prefixes; interrupts starve while TF is set; a trap
between a prefix and its string loses the prefix; LOCK eats a pending prefix; a
divide error leaves `trap_flag_`; there is no shadow after MOV SS or STI; REP
strings cannot be interrupted. ADC and SBB with a source of all ones and CF lose the
carry (proved). DAA is wrong for binary sums 9Ah to 9Fh; shifts by CL = 0 change the
flags, by 32 or more are undefined in C++; IDIV accepts a quotient of -128, and
80000000h by -1 ends the program; AAM 0 pushes its own address; INT3 with a zero
vector suspends in the middle of the frame.

Keyboard: a ready-port write while nothing waits leaves the acknowledge High for
ever; two host keys taken in one cycle deliver the first only until something else
moves the queue; a reset delivered while a code waits has no clean edge;
`Pin::release()` is empty, so SW1 and the keyboard overwrite each other on port A.

Timer: in mode 2 a count written while OUT is low keeps OUT low for one period; in
modes 4 and 5 a count written during the strobe never counts; mode 3 ignores BCD.

Host files: a write to a read-only file reports success; closing one of two entries
that share a stream closes it for both; commit does nothing; two searches share the
card's one; a load makes a stream of a missing file, and asking its size ends the
program.

## 5. Proofs

All with TLAPS, for every value of the constants. Each invariant was first checked
by TLC on the runs' instances. The argument is the same
everywhere: `Init` gives the invariant, every action keeps it (one lemma per action
or per chip), and it implies the properties of the runs.

* `ClockSystemProofs`, three invariants.
  `GateInvariance`: the types of the gate's variables and what the places in the
  gate imply. A credit taken and not yet run (`paid`) exists only between the
  compare-exchange and the cycle, and the compare-exchange is only tried with a
  positive count: so `CasTakes` conserves credit. `StepCreditsConserved` and
  `InGateIsParked` follow, `TypeCorrect` extends the types to all threads.
  `SaveInv` follows a Save press through the frames. Nobody undoes the pause, and a
  pause the clock thread stores late changes nothing (`WayStores`); with no step owed,
  a thread that has seen `paused_` has one round to make before it is in the loop of
  the gate, one that has not has two, and nothing takes it out of the loop. So when
  `lag`, which began at two or more, has run out, the thread stands in the gate. `SavesReadParked` is `SaveReadsQuietMachine`. `RebuildInv` says the same of
  a load, from the join of the old thread to the overwriting of the new machine:
  `LoadsOverwriteQuiet` is `LoadOverwritesQuietMachine`, for a user who waits.
* `PICProofs`. `IntIsNeverStale` needs the types of the registers and one lemma per
  operation of the chip (`OnCycleKeeps`). `PathInvariance` ties the two sides of
  the acknowledge together: where the 8088 is in an INTA cycle fixes how many
  pulses the 8259A has counted (RESET is looked at before the pair or after it) and
  that the second has latched a level and put its
  vector on the bus, and the unended handlers on the processor's stack
  are the levels in service, each more urgent than the one below.
  `VectorNeverFloats` and `InServiceIsTheStack` follow, for every number of levels.
* `BusProofs`, for every `Ops` and `MaxBurst`. `BusInvariance`: `ServiceInv` (HRQ and
  the strobes follow the 8237A's state, and a transfer has had HOLDA for a clock),
  `PresetInv` (U67's preset is high before the grant and low while the granted
  request stands; the clock in which a request rises and U52 shows the old HRQ is
  excluded by `evaluate_dreq`'s test of HLDA), `RecoveryInv` (an inhibited 8288
  strobes nothing; B1 and B2 come after AEN_BRD), `InhibitInv` (where in a service
  the inhibition and the recovery fall). One lemma per chip, then
  `ClockKeepsBusInv` for any order of evaluation. `NeverTwoMasters`,
  `TransfersOwnTheBus`, `RecoveryIsShielded`, `GrantIsHeld` follow.
  `CycleInvariance` adds the phase of the 8088 against the grant, in four
  situations: running (~RDY/WAIT alternates with the T-states), granted (in T4 of
  its cycle or T1 of the next), served (it runs into its wait states and stays), and
  recovering (the 8288 gives its command again, the processor waits). What the 8288 remembers then is the command of the
  cycle under way, or of a memory write just ended: `AccessesAreCurrent` (no port
  access of the 8237A is repeated) and `OnlyWritesSwallow` follow.
* `RedirectorProofs`, for any directory, any finite set of patterns, and `HandleMod`
  of 2 or more (`HostFilesAssumption`, `RedirectorAssumption`). `RedirectorInv`: each
  stream that is open has a file of the host, unless a load missed it; the next
  handle is above those of all open streams until handles wrap; an undisturbed
  search has found, has in its reply and has still to list, between them, each
  match once; and the state that was saved is as sound as the present one, so a
  load re-establishes it. `HandlesNeverShared`, `SearchesFindAll` and
  `EmulatorStaysUp` follow.
* `ProcessorProofs`, for any programs, vectors, depth of handlers and bounds on the
  pulses. `ProcessorInv` has a part per thing that waits while something else runs:
  `Frames` (each handler entered has two words on the stack, the lowest pair what
  the program left), `Stands` (at depth 0 the processor is where the program left
  it, deeper it is in handler code with TF clear), `TrapLatched` and `TrapWaits` (a
  trap that is due is in `trap_flag_`; the flag lags TF by an instruction, so
  the invariant differs before and after an effect), and `PrefixWaits` (a prefix
  is a count, 2 when it was read, 1 when the next opcode is decoded).
  `ProgramStays`, `PrefixesHold` and `TrapsOnce` follow. The hypothesis is
  `HandlerAssumption`.
* `SoundProofs`, the ring: for every `Size` that divides `Wrap` (`RingAssumption`). First the
  arithmetic of the indices: numbers less than the size apart have different
  cells (`CellsDiffer`), and the cell does not see the wrap (`WrapCell`). Then what
  storing, publishing and releasing do to the queue that a buffer and two counters
  stand for (`StoreKeeps`, `PublishAppends`, `ReleasePops`). `RingInv` says that
  `cached_read` is never ahead of `read` and that `write` is at most the size ahead
  of it, less once a store is decided: without the stale copy in the invariant the
  ring could be overrun. `NoSampleTorn` and `RingIsQueue`, the step simulation of
  `SpeakerQueue`, follow.
* `SoundProofs`, the timer: for any channels, control words, data, divider and sizes
  (`TimerAssumption`). A cycle of the chip is first cut into what it does to one
  channel, at most one access and then at most one tick (`ChannelStep`), so that an
  invariant needs one lemma per access and one per tick. `LatchInv`: a channel holds
  a count exactly when the program has one frozen, it is that count, and channel and
  program agree on the next byte; `AccessInv` adds that an access is executed once,
  in the second cycle of its strobe. `LatchIsWhole` follows. `WaveInv` relates the
  count due (the one written, until a tick has taken it over) to the age the program
  gives it, mode by mode: it falls to zero and OUT stays high (`ToZero`), goes round
  with OUT low for the last tick (`Cyclic`), goes round by twos in two halves
  (`TwoHalves`), or gives one pulse and stops (`OnePulse`). The property alone says
  nothing of the count, so it is not inductive. `OutIsProgrammed` follows. Binary
  counts may have any width; for decimal ones the hypothesis `DecimalSizes` fixes the
  sizes to the code's, four digits of sixteen values counted in tens. There
  `DecimalGoesDown` shows the borrow of `decrement()` right for every word: the sum
  over the digits is a recursive function, unrolled four times, which is as far as it
  goes without induction. The run checks base three in two digits instead. That
  `Byte` is a positive number is written in `TimerAssumption` though it follows from
  the other sizes, because the prover knows powers only of literal numbers.
* `FloppyProofs`, for any registers, disks, sectors, programs and number of resets, in
  two invariants. `DmaInv`: a byte that a copy has read waits to be written only
  in the states of a copy, while HLDA is held, so no register access can clear the
  memory-to-memory bit under it; hence `OneChannel`. `BusInv`: the one active card of the
  bus, the request of the floppy controller and its phase change together, although
  they are three variables of three components and a cycle runs them one after the
  other. `ActiveWhileExecuting` alone is not inductive: a read of the FIFO or a T/C
  must find a controller that runs, so `DriverInv` adds that it stands still only
  before the access with which a driver's reset starts it, and that nobody has
  asked for the bus by then. The hypothesis is `RetriedAssumption`: a program that
  is given up and started again is not one of the two that reset the controller.
* `KeyboardProofs`, for every size of the ring, delay of the reset code and number of
  keys and codes (`KeyboardAssumption`), in two invariants. `KeyboardInv` has the
  keyboard's flags (`EdgeInv`: a delivery is due only with IRQ1 low or after a
  reset), the ring's two indices against the entries stored and not yet published
  (`RingInv`), and the stream of codes from the host to port A in the order of typing
  (`StreamInv`); the lemmas say what appending, concatenating and taking away does to
  the keys of a sequence. `KeysArrive` and the action property `EdgePerCode` follow.
  `PureInv` is the handshake, while nobody types and the program leaves port B alone
  outside its handler: five situations (resting, showing a code, taking it, handled,
  acknowledging), each of which fixes the program's place in its handler, the
  8255A's delayed write, the switches on port A, the latched request and the
  keyboard's flags. `CodesReadOnce` follows, which needs all of it: a code is read once
  because a cycle that shows the next one cannot fall before its acknowledge.
* In `ClockSystemProofs`, for every set of permutations and every size of the table
  (`Numbered`): the map holds what was solved for its key, and a slot that points,
  points at the plan of its own tag, which is in the map (`CacheInv`). So each cycle is
  run by its own permutation's plan (`PlanIsTheCycles`), and no pointer outlives
  `resolve()` (`NoDanglingPlan`).
* In `ProcessorProofs`, for every operand of 8 and 16 bits: `AddIsRight`, `SubIsRight`;
  `AdcIsRight` and `SbbIsRight` unless the source is all ones and CF is set;
  `AdcLosesCarry` and `SbbLosesBorrow`: in that case CF comes back clear though it
  should be set.

Only model-checked, and why:

* Everything under fairness, which is out of the prover's reach: `ParkedThreadLeaves`,
  `LoadCompletes`, `ShutdownCompletes`, `EveryEdgeServed`, `CpuRuns`,
  `RequestGranted`, `WaitEnds`, `CodesAllRead`, `RequestsServed` and the liveness half
  of `IsSpeakerQueue`.
* `FilesAreFaithful`: the bytes of a stream are spliced by folds, so what a sequence
  of writes leaves is induction over data, which the prover cannot do.
* `TransferIsFaithful`: what a whole program leaves in memory and on the disk is the
  sum of its transfers, byte after byte, again induction over data.
* OUT of decimal counts in sizes other than the code's: for any number of digits the
  borrow is induction over data.
* The properties of `MemoryPath`: an invariant would have to speak of forty-one chips
  and of the plan of each cycle, which is the least fixed point that `WavePlan`
  computes.

## 6. Not modelled, and why

* Drawing and the board view, CGA and MDA pictures: output only. The JSON board
  description and the continuity audit: run once, sequential. Host platform,
  vendored coroutines, CPU test driver: not the machine.
* The save archive: its source is absent.
* The pairing of INTA cycles under a bus grant: `~LOCK` is driven High for ever
  (`ic/ic_8088.cpp:210`), so a grant may fall between the two. Showing what follows
  needs the 8259A and a handler program inside `MemoryPath`, whose states TLC could
  not enumerate.
* Memory on expansion cards (RAM, CGA, MDA) and their wait states; channel 0's
  refresh, since OUT1 never reaches its line.
* In the processor: decoding, effective addresses, the register file and data; in the
  8259A: OCW3's read-back; in the clock loop: PCLK and wall-clock pacing; in the
  audio path: the resampling filter; the tables that turn host keys into codes.
* Memory orders weaker than sequential consistency.

## 7. What could come next

1. The 8237A's address and count through a service, which `TransferIsFaithful` needs
   from the controller's side.
2. INTA pairs and a bus grant, on a cut of `BusArbitration` with `PIC`.
3. The RAM card in `MemoryPath`, and the processor's instruction data.
