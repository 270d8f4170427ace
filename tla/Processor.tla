----------------------------- MODULE Processor -----------------------------
(***************************************************************************)
(* The 8088: the bus interface unit, a coroutine resumed once per CLK that *)
(* runs the T-states of a bus cycle, and the execution unit, a coroutine   *)
(* it resumes with the answer of a cycle and that runs until it asks for   *)
(* the next.  INTR, NMI and RESET move between any two clocks, READY holds *)
(* a cycle as long as it likes.                                            *)
(*                                                                         *)
(* An instruction is its bus cycles and then its effect: the operand bytes *)
(* of one are a single fetch, data and addresses are left out, CS:IP is an *)
(* index in the program and the stack holds whole words.  What arithmetic  *)
(* computes is in ALU.  The programs are not part of the repository.       *)
(***************************************************************************)
EXTENDS Integers, Sequences

CONSTANTS
  Code,       \* the programs: program -> address -> [op, arg]
  Vectors,    \* the vector table: interrupt -> address, zeros elsewhere
  Irqs,       \* the vectors the interrupt controller may answer with
  Starts,     \* the addresses a test may set as the reset vector
  FirstStart, \* the address the board constructs the processor with
  HandlerCode, \* the addresses of the handlers, the same in every program
  Open,       \* the programs that keep IF set and TF clear outside handlers
  Cut,        \* the programs RESET and loss of power are tried on
  MaxCx,      \* what CX is loaded with before a repeated string
  MaxIntr, MaxNmi, MaxReset   \* bounds on the pulses of each line

ASSUME ProcessorAssumption ==
  /\ FirstStart # 0 /\ 0 \notin Starts
  /\ \A n \in {MaxCx, MaxIntr, MaxNmi, MaxReset} : n \in Nat

\* Handlers stay among themselves until they return, and leave the stack and
\* TF to the processor; what is in the vector table leads to them.
HandlerOps ==
  {"nop", "alu", "lea", "load", "store", "in", "out", "div", "movs", "setcx",
   "rep", "seg", "sti", "cli", "hlt", "jmp", "jcc", "int", "int3", "iret"}

ASSUME HandlerAssumption ==
  /\ \A v \in DOMAIN Vectors : Vectors[v] \in HandlerCode
  /\ \A p \in DOMAIN Code, a \in HandlerCode :
       LET i == Code[p][a] IN
       /\ i.op \in HandlerOps
       /\ i.op \notin {"jmp", "iret"} => a + 1 \in HandlerCode
       /\ i.op \in {"jmp", "jcc"} => i.arg \in HandlerCode

VARIABLES
  biu,    \* biu_task_: where the bus interface unit is suspended
  bus,    \* the status on S0..S2 and the direction bus_t_ of AD0..AD7
  eu,     \* the execution unit and the registers
  lines,  \* the levels of INTR, NMI, RESET and VCC, and the pulses used up
  start,  \* start_cs_ : start_ip_
  prog,   \* the program in memory
  hist    \* history: what the program, handlers apart, should meet next

vars == <<biu, bus, eu, lines, start, prog, hist>>

(***************************************************************************)
(* The registers and the execution unit.                                   *)
(***************************************************************************)
Registers(vector) ==
  [ip |-> vector, ifl |-> FALSE, tf |-> FALSE, cx |-> 0, stack |-> <<>>,
   seg |-> 0, rep |-> 0, trap |-> FALSE, nmi |-> FALSE, prev |-> FALSE, brk |-> FALSE,
   doing |-> "begin", todo |-> <<>>, vec |-> 0]

Instruction(e) == Code[prog][e.ip]
Flags(e) == <<e.ifl, e.tf>>

Times(n, ops) == [i \in 1 .. n * Len(ops) |-> ops[1 + ((i - 1) % Len(ops))]]

\* PUSH16_ and POP16_: a word is two bus cycles.
Push == <<"MEM_WRITE", "MEM_WRITE">>
Pop  == <<"MEM_READ", "MEM_READ">>

\* One element of a string is read and one written, CX times under REP.
StringCycles(e) == Times(IF e.rep > 0 THEN e.cx ELSE 1, <<"MEM_READ", "MEM_WRITE">>)

\* The bus cycles of an instruction after its opcode.
Cycles(i, e) ==
  CASE i.op \in {"alu", "lea", "jmp", "jcc", "int"} -> <<"FETCH">>
    [] i.op \in {"load", "div"} -> <<"FETCH", "MEM_READ">>
    [] i.op = "store" -> <<"FETCH", "MEM_WRITE">>
    [] i.op = "in"    -> <<"FETCH", "IO_READ">>
    [] i.op = "out"   -> <<"FETCH", "IO_WRITE">>
    [] i.op = "call"  -> <<"FETCH">> \o Push
    [] i.op \in {"push", "pushf"} -> Push
    [] i.op \in {"popf", "ret"}   -> Pop
    [] i.op = "iret"  -> Times(3, Pop)
    [] i.op = "int3"  -> Times(4, <<"MEM_READ">>)
    [] i.op = "movs"  -> StringCycles(e)
    [] OTHER -> <<>>       \* nop, sti, cli, setcx, rep, seg, hlt

Asks(e, doing, ops) == [e EXCEPT !.doing = doing, !.todo = ops]

\* PC_INTERRUPT_: three words pushed, four bytes of the vector read.
Dispatch(e, doing, vec) ==
  [Asks(e, doing, Times(3, Push) \o Times(2, Pop)) EXCEPT !.vec = vec]

Entry(vec) == IF vec \in DOMAIN Vectors THEN Vectors[vec] ELSE 0

\* Mutant of Enter: the flags are pushed after IF and TF are cleared.
EnterCleared(e) ==
  [e EXCEPT !.stack = @ \o <<<<FALSE, FALSE>>, e.ip>>, !.ip = Entry(e.vec),
            !.ifl = FALSE, !.tf = FALSE]

\* It ends: flags, CS and IP are on the stack, TF and IF are clear.
Enter(e) ==
  [e EXCEPT !.stack = @ \o <<Flags(e), e.ip>>, !.ip = Entry(e.vec),
            !.ifl = FALSE, !.tf = FALSE]

\* The top of the loop of eu_run(): CS:IP = 0 ends it.
Begin(e) ==
  IF e.ip = 0 THEN Asks(e, "halted", <<>>) ELSE Asks(e, "fetch", <<"FETCH">>)

\* Mutant of Samples: only a segment override shields what follows it.
SamplesAfterRep(e, intr) ==
  LET open == e.ifl /\ e.seg = 0 /\ ~e.tf
  IN  CASE open /\ e.nmi -> Dispatch([e EXCEPT !.nmi = FALSE], "irq", 2)
        [] open /\ ~e.nmi /\ intr -> Asks(e, "inta", <<"INTA">>)
        [] OTHER -> Begin(e)

\* The interrupt check at the end of an instruction.
Samples(e, intr) ==
  LET open == e.ifl /\ e.seg = 0 /\ e.rep = 0 /\ ~e.tf
  IN  CASE open /\ e.nmi -> Dispatch([e EXCEPT !.nmi = FALSE], "irq", 2)
        [] open /\ ~e.nmi /\ intr -> Asks(e, "inta", <<"INTA">>)
        [] OTHER -> Begin(e)

Latched(e) == [e EXCEPT !.trap = e.tf]

\* Mutant of Finish: the trap flag is latched before it is looked at.
FinishLatchedFirst(e, error, intr) ==
  CASE error -> Dispatch(e, "divide", 0)
    [] ~error /\ e.tf -> Dispatch(e, "trap", 1)
    [] OTHER -> Samples(Latched(e), intr)

\* After the effect: divide error, trap, interrupts.  The divide error goes
\* on with the next instruction and leaves trap_flag_ as it was.
Finish(e, error, intr) ==
  CASE error -> Dispatch(e, "divide", 0)
    [] ~error /\ e.trap -> Dispatch(e, "trap", 1)
    [] OTHER -> Samples(Latched(e), intr)

\* Mutant of Counted: LEA's own use of the override is never taken back.
CountedRepOnly(e) == [e EXCEPT !.rep = IF @ > 0 THEN @ - 1 ELSE 0]

\* The prefixes count down as an opcode is decoded.
Counted(e) == [e EXCEPT !.seg = IF @ > 0 THEN @ - 1 ELSE 0,
                        !.rep = IF @ > 0 THEN @ - 1 ELSE 0]

Goto(e, target) == [e EXCEPT !.ip = target]
Next1(e) == Goto(e, e.ip + 1)
Drop(s, n) == SubSeq(s, 1, Len(s) - n)
Top(s, n) == s[Len(s) - n]

\* HLT is executed again until an interrupt that may be taken, or an NMI,
\* is there.
Wakes(e, intr) == (e.ifl /\ intr) \/ e.nmi

\* Each prefix holds for the next opcode and carries the other one over.
Prefix(e, op) ==
  IF op = "rep" THEN [e EXCEPT !.rep = 2, !.seg = IF @ > 0 THEN @ + 1 ELSE 0]
  ELSE [e EXCEPT !.seg = 2, !.rep = IF @ > 0 THEN @ + 1 ELSE 0]

\* RET, RETF and IRET.
Return(i, e) ==
  IF i.op = "iret"
  THEN Goto([e EXCEPT !.stack = Drop(@, 2), !.ifl = Top(e.stack, 1)[1],
                      !.tf = Top(e.stack, 1)[2]], Top(e.stack, 0))
  ELSE Goto([e EXCEPT !.stack = Drop(@, 1)], Top(e.stack, 0))

\* A jump, or a call with the address after it on the stack.
Jump(i, e) ==
  Goto(IF i.op = "call" THEN [e EXCEPT !.stack = Append(@, e.ip + 1)] ELSE e, i.arg)

\* The condition is free; LOOP and JCXZ are such branches.
Branch(i, e, taken) == IF taken THEN Goto(e, i.arg) ELSE Next1(e)

PopFlags(e) ==
  Next1([e EXCEPT !.stack = Drop(@, 1), !.ifl = Top(e.stack, 0)[1],
                  !.tf = Top(e.stack, 0)[2]])

PushFlags(e) == Next1([e EXCEPT !.stack = Append(@, Flags(e))])
PushReg(i, e) == Next1([e EXCEPT !.stack = Append(@, i.arg)])

\* REP runs a string to its end: no request is looked at before.
Strings1(e) == Next1([e EXCEPT !.cx = IF e.rep > 0 THEN 0 ELSE @])

\* LEA addresses with a segment of zeros: an override of its own.
Lea(e) == Next1([e EXCEPT !.seg = 1])

Halt(e, intr) == IF Wakes(e, intr) THEN Next1(e) ELSE e

FlagOps(i, e) == Next1([e EXCEPT !.ifl = i.op = "sti"])

\* The effect of an instruction.
Effect(i, e, intr, taken) ==
  CASE i.op \in {"sti", "cli"}  -> FlagOps(i, e)
    [] i.op = "setcx"           -> Next1([e EXCEPT !.cx = MaxCx])
    [] i.op \in {"rep", "seg"}  -> Next1(Prefix(e, i.op))
    [] i.op = "lea"             -> Lea(e)
    [] i.op = "movs"            -> Strings1(e)
    [] i.op = "push"            -> PushReg(i, e)
    [] i.op = "pushf"           -> PushFlags(e)
    [] i.op = "popf"            -> PopFlags(e)
    [] i.op \in {"ret", "iret"} -> Return(i, e)
    [] i.op \in {"jmp", "call"} -> Jump(i, e)
    [] i.op = "jcc"             -> Branch(i, e, taken)
    [] i.op = "hlt"             -> Halt(e, intr)
    [] OTHER -> Next1(e)     \* nop, alu, load, store, in, out, div

\* INT n and INT 3 push and jump within the instruction; INT 3 whose vector
\* is zero is the test's breakpoint.
Software(i, e) ==
  CASE i.op = "int"  -> Dispatch(Next1(e), "software", i.arg)
    [] i.op = "int3" -> [Dispatch(Next1(e), "software", 3)
                           EXCEPT !.brk = @ \/ Entry(3) = 0]

Executed(e, intr, taken) ==
  LET i == Instruction(e)
  IN  IF i.op \in {"int", "int3"} THEN Software(i, e)
      ELSE Finish(Effect(i, e, intr, taken), i.op = "div" /\ i.arg = 0, intr)

\* The opcode is there: its cycles, or its effect if it has none.
Decoded(e, intr, taken) ==
  LET d == Counted(e)
      ops == Cycles(Instruction(e), d)
  IN  IF ops = <<>> THEN Executed(d, intr, taken) ELSE Asks(d, "execute", ops)

\* What the execution unit does with the answer of its last cycle, up to its
\* next request.
Answered(e, intr, irq, taken) ==
  CASE e.doing = "begin"    -> Begin(e)
    [] e.doing = "fetch"    -> Decoded(e, intr, taken)
    [] e.doing = "execute"  -> Executed(e, intr, taken)
    [] e.doing = "software" -> Finish(Enter(e), FALSE, intr)
    [] e.doing = "divide"   -> Begin(Enter(e))
    [] e.doing = "trap"     -> Samples(Latched(Enter(e)), intr)
    [] e.doing = "inta"     -> Dispatch(e, "irq", irq)
    [] e.doing = "irq"      -> Begin(Enter(e))

\* The cycle that is answered is not the last that was asked for.
More(e) == Len(e.todo) > 1

Resumed(e, intr, irq, taken) ==
  IF More(e) THEN [e EXCEPT !.todo = Tail(@)]
  ELSE Answered(e, intr, irq, taken)

(***************************************************************************)
(* History: where the program that is interrupted stands.  An effect of    *)
(* its own moves it on, handlers must bring the processor back to it.      *)
(***************************************************************************)
Fresh(vector) == [depth |-> 0, at |-> vector, ifl |-> FALSE, tf |-> FALSE,
                  rep |-> FALSE, seg |-> FALSE, due |-> FALSE, stepped |-> FALSE]

Handling == {"software", "divide", "trap", "irq"}

\* With the last of its cycles answered, e takes effect.
Completes(e) ==
  /\ ~More(e)
  /\ e.doing = "execute" \/ (e.doing = "fetch" /\ Cycles(Instruction(e), Counted(e)) = <<>>)

Entered(e) == ~More(e) /\ e.doing \in Handling

Interrupted(h, e) ==
  [h EXCEPT !.depth = @ + 1, !.due = IF e.doing = "trap" THEN FALSE ELSE @]

Witnessed(h, e, f) ==
  LET op == Instruction(e).op
  IN  CASE Entered(e) -> Interrupted(h, e)
        [] Completes(e) /\ h.depth = 0 ->
             [h EXCEPT !.at = f.ip, !.ifl = f.ifl, !.tf = f.tf, !.due = h.tf,
                       !.rep = op = "rep" \/ (op = "seg" /\ h.rep),
                       !.seg = op = "seg" \/ (op = "rep" /\ h.seg),
                       !.stepped = @ \/ h.tf]
        [] Completes(e) /\ h.depth > 0 /\ op = "iret" -> [h EXCEPT !.depth = @ - 1]
        [] OTHER -> h

(***************************************************************************)
(* The lines: pulses bounded, any level at any clock otherwise.  The PIC   *)
(* drops INTR in the first acknowledge cycle.                              *)
(***************************************************************************)
Acknowledging == biu.at = "T1" /\ bus.status = "INTA" /\ biu.pulse = 1

Rises(was, is, used, max) == ~was /\ is => used < max

Bumped(was, is, used) == IF ~was /\ is THEN used + 1 ELSE used

Pins ==
  \E intr, nmi, reset \in BOOLEAN :
    /\ Acknowledging => ~intr
    /\ Rises(lines.intr, intr, lines.intrs, MaxIntr)
    /\ Rises(lines.nmi, nmi, lines.nmis, MaxNmi)
    /\ Rises(lines.reset, reset, lines.resets, IF prog \in Cut THEN MaxReset ELSE 0)
    /\ lines' = [lines EXCEPT !.intr = intr, !.nmi = nmi, !.reset = reset,
                   !.intrs = Bumped(lines.intr, intr, @),
                   !.nmis = Bumped(lines.nmi, nmi, @),
                   !.resets = Bumped(lines.reset, reset, @)]

\* check_nmi(): called in every clock of a running processor, and in none of
\* one that is held.
CheckNmi(e) == [e EXCEPT !.nmi = @ \/ (lines'.nmi /\ ~e.prev), !.prev = lines'.nmi]

(***************************************************************************)
(* The bus interface unit: one action per point it is resumed at.          *)
(***************************************************************************)
At(place) == [biu EXCEPT !.at = place]
Passive == [bus EXCEPT !.status = "PASSIVE"]

\* T1 of the cycle the execution unit asked for: status and, but for an
\* acknowledge, the address.
Starts1(e) ==
  /\ biu' = [at |-> "T1", pulse |-> 1]
  /\ bus' = [status |-> Head(e.todo),
             dir |-> IF Head(e.todo) = "INTA" THEN bus.dir ELSE "T1"]

\* The top of the loop of biu_run(), with the execution unit e.
Loop(e, h) ==
  \/ /\ ~lines'.vcc
     /\ biu' = At("done") /\ bus' = [status |-> "PASSIVE", dir |-> "T2_Read"]
     /\ eu' = e /\ hist' = h
  \/ /\ lines'.vcc /\ lines'.reset
     /\ biu' = At("held") /\ bus' = [status |-> "PASSIVE", dir |-> "T1"]
     /\ eu' = [Registers(start) EXCEPT !.prev = e.prev]    \* cpu_reset()
     /\ hist' = Fresh(start)
  \/ /\ lines'.vcc /\ ~lines'.reset /\ e.brk
     /\ biu' = At("break") /\ eu' = CheckNmi(e) /\ hist' = h
     /\ UNCHANGED bus
  \/ /\ lines'.vcc /\ ~lines'.reset /\ ~e.brk
     /\ \E irq \in Irqs, taken \in BOOLEAN :
          LET f == Resumed(CheckNmi(e), lines'.intr, irq, taken)
          IN  /\ eu' = f
              /\ hist' = Witnessed(h, e, f)
              /\ IF f.doing = "halted"
                 THEN biu' = At("done") /\ bus' = [status |-> "PASSIVE", dir |-> "T2_Read"]
                 ELSE Starts1(f)

\* biu_run() waits for VCC, then for RESET to fall, whatever VCC does, and
\* starts with the registers as they are.
Await ==
  /\ biu.at \in {"vcc", "reset"}
  /\ Pins
  /\ IF (lines'.vcc \/ biu.at = "reset") /\ ~lines'.reset
     THEN Loop([eu EXCEPT !.doing = "begin", !.todo = <<>>], hist)
     ELSE biu' = At(IF lines'.vcc THEN "reset" ELSE biu.at) /\ UNCHANGED <<bus, eu, hist>>

\* RESET in mid-execution: cpu_reset() is done, a new execution unit waits.
Held ==
  /\ biu.at = "held"
  /\ Pins
  /\ IF lines'.reset THEN UNCHANGED <<biu, bus, eu, hist>> ELSE Loop(eu, hist)

Broken == biu.at = "break" /\ Pins /\ Loop(eu, hist)

\* AD0..AD7 after the address.
Turned(op) == IF op \in {"MEM_WRITE", "IO_WRITE"} THEN "T2_Write" ELSE "T2_Read"

TurnBus ==
  /\ biu.at = "T1"
  /\ Pins
  /\ biu' = At("T2") /\ bus' = [bus EXCEPT !.dir = Turned(bus.status)]
  /\ eu' = CheckNmi(eu)
  /\ UNCHANGED hist

DropStatus ==
  /\ biu.at = "T2"
  /\ Pins
  /\ biu' = At("T3") /\ bus' = Passive
  /\ eu' = CheckNmi(eu)
  /\ UNCHANGED hist

WaitState ==
  /\ biu.at \in {"T3", "Tw"}
  /\ Pins
  /\ biu' = At("Tw")
  /\ eu' = CheckNmi(eu)
  /\ UNCHANGED <<bus, hist>>

\* READY is High: the data is read, or let go, and the direction is T1's.
Ready ==
  /\ biu.at \in {"T3", "Tw"}
  /\ Pins
  /\ biu' = At("T4") /\ bus' = [bus EXCEPT !.dir = "T1"]
  /\ eu' = CheckNmi(eu)
  /\ UNCHANGED hist

\* The second acknowledge cycle follows the first at once.
SecondPulse ==
  /\ biu.at = "T4" /\ Head(eu.todo) = "INTA" /\ biu.pulse = 1
  /\ Pins
  /\ biu' = [at |-> "T1", pulse |-> 2] /\ bus' = [bus EXCEPT !.status = "INTA"]
  /\ eu' = CheckNmi(eu)
  /\ UNCHANGED hist

CycleEnds ==
  /\ biu.at = "T4" /\ ~(Head(eu.todo) = "INTA" /\ biu.pulse = 1)
  /\ Pins
  /\ Loop(eu, hist)

\* on_cycle(): one resume.  Once done the coroutine is not resumed again.
Clock ==
  /\ \/ Await \/ Held \/ Broken \/ TurnBus \/ DropStatus \/ WaitState \/ Ready
     \/ SecondPulse \/ CycleEnds
  /\ UNCHANGED <<start, prog>>

(***************************************************************************)
(* The clock generator: power on and off.                                  *)
(***************************************************************************)
\* set_reset_vector() of a test, before it powers the board on.
SetResetVector ==
  /\ biu.at = "off" /\ ~lines.used
  /\ start' \in Starts
  /\ UNCHANGED <<biu, bus, eu, lines, prog, hist>>

\* power_on_all(), then VCC.
PowerOn ==
  /\ biu.at = "off" /\ ~lines.used
  /\ biu' = At("vcc")
  /\ lines' = [lines EXCEPT !.vcc = TRUE, !.used = TRUE]
  /\ UNCHANGED <<bus, eu, start, prog, hist>>

VccDrops ==
  /\ biu.at # "off" /\ lines.vcc /\ prog \in Cut
  /\ lines' = [lines EXCEPT !.vcc = FALSE]
  /\ UNCHANGED <<biu, bus, eu, start, prog, hist>>

PowerOff ==
  /\ biu.at # "off" /\ ~lines.vcc
  /\ biu' = At("off")
  /\ UNCHANGED <<bus, eu, lines, start, prog, hist>>

Init ==
  /\ biu = [at |-> "off", pulse |-> 1]
  /\ bus = [status |-> "PASSIVE", dir |-> "T1"]
  /\ eu = Registers(FirstStart)
  /\ lines = [intr |-> FALSE, nmi |-> FALSE, reset |-> FALSE, vcc |-> FALSE,
              used |-> FALSE, intrs |-> 0, nmis |-> 0, resets |-> 0]
  /\ start = FirstStart
  /\ prog \in DOMAIN Code
  /\ hist = Fresh(FirstStart)

Next == Clock \/ SetResetVector \/ PowerOn \/ VccDrops \/ PowerOff

(***************************************************************************)
(* Fairness: the clock generator runs the processor in every cycle, and    *)
(* READY comes back - the DMA and the cards hold it Low for a bounded time *)
(* (BusArbitration, CpuRuns).                                              *)
(***************************************************************************)
Spec == Init /\ [][Next]_vars /\ WF_vars(Clock) /\ SF_vars(Ready /\ UNCHANGED <<start, prog>>)

(***************************************************************************)
(* Properties.                                                             *)
(***************************************************************************)
InProgram == hist.depth = 0 /\ biu.at \notin {"off", "vcc", "reset", "held"}

\* What interrupts, traps and divide errors do to a program is nothing: when
\* the next instruction of its own is fetched, CS:IP and the flags IF and TF
\* are what its last one left - after handlers that nest, after HLT, and with
\* requests that come and go at any clock of any bus cycle.
ProgramUndisturbed ==
  InProgram /\ eu.doing = "fetch" =>
    eu.ip = hist.at /\ eu.ifl = hist.ifl /\ eu.tf = hist.tf

\* A prefix holds for the instruction it is written before, whatever the order
\* of two of them and whatever asks for an interrupt between them, and for no
\* other.  (Stepped by the trap flag it does not: the trap comes between.)
PrefixesApply ==
  (InProgram /\ eu.doing = "execute" /\ ~hist.stepped) =>
    (eu.rep > 0 <=> hist.rep) /\ (eu.seg > 0 <=> hist.seg)

\* Single step: between two instructions a program runs with TF set there is
\* one trap, and no trap comes without such an instruction - the one that sets
\* TF and a divide error that goes its own way included.
SteppedOnce ==
  /\ (InProgram /\ eu.doing = "fetch") => ~hist.due
  /\ eu.doing = "trap" => hist.due

\* A program that keeps interrupts enabled has every request answered: an edge
\* of NMI however short, and INTR if it stays High, in any state of the bus.
Interruptible == prog \in Open /\ lines.vcc /\ ~lines.reset
RequestsServed ==
  /\ (Interruptible /\ eu.nmi) ~> (~eu.nmi \/ ~Interruptible)
  /\ (Interruptible /\ lines.intr) ~> (~lines.intr \/ ~Interruptible)

=============================================================================
