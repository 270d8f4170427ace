------------------------------ MODULE Keyboard ------------------------------
(***************************************************************************)
(* The keyboard (test/test_keyboard.cpp) behind the 8255A: the host thread *)
(* that puts keys in its ring, the keyboard's own cycle on the clock       *)
(* thread, the port accesses of the program and its interrupt handler.     *)
(*                                                                         *)
(* A scan code is the number of the key among those of its source: the     *)
(* host's are 1, 2, ..., those the program queues follow, and Reset is the *)
(* code sent after a reset.  Each cycle the 8255A is evaluated first, then *)
(* the multiplexers, then the keyboard.                                    *)
(***************************************************************************)
EXTENDS PPI, Sequences

CONSTANTS
  RingSize,    \* places of the host's ring, 64 in the code
  ResetDelay,  \* cycles from a reset to its code, 100 in the code
  MaxHost,     \* bound: keys of the host
  MaxQueued,   \* bound: codes queued by the program
  MaxWrites,   \* bound: other port accesses of the program
  PortBWrites  \* what the program writes to port B outside the handler

ASSUME KeyboardAssumption ==
  /\ RingSize \in Nat \ {0} /\ ResetDelay \in Nat \ {0, 1}
  /\ {MaxHost, MaxQueued, MaxWrites} \subseteq Nat
  /\ PortBWrites \subseteq SUBSET Bits

VARIABLES
  ppi, lines,  \* the 8255A, and the levels of its port lines
  kbd,         \* the keyboard
  wire,        \* the keyboard's other lines: IRQ1, ready and acknowledge
  ring,        \* the ring between the host thread and the keyboard
  prog,        \* the program and its interrupt handler
  pc,          \* how far the clock thread is in the cycle
  hist         \* what was sent, delivered and read

vars == <<ppi, lines, kbd, wire, ring, prog, pc, hist>>

Reset == -2
HostKeys == 1..MaxHost
\* on_power_on().
KbdInit ==
  [queue |-> <<>>, armed |-> FALSE, waiting |-> FALSE, deliver |-> FALSE,
   resetPending |-> FALSE, delay |-> 0, ready |-> "Z", ack |-> "Z",
   pb6 |-> "L", pa |-> Zero]

(***************************************************************************)
(* The ring.                                                               *)
(***************************************************************************)
Following(i) == (i + 1) % RingSize

\* The keys in the ring that the keyboard has not taken.
KeysFrom(t, h) ==
  [i \in 1 .. (h - t) % RingSize |-> ring.slot[(t + i - 1) % RingSize]]

\* Mutant of Publishes: a full ring takes one more.
PublishesAlways == TRUE

\* inject_key(), up to its last store: the key is dropped if the ring is full.
Publishes == Following(ring.head) # ring.tail

HostInject ==
  /\ ring.pc = "idle" /\ hist.pressed < MaxHost
  /\ hist' = [hist EXCEPT !.pressed = @ + 1, !.pure = FALSE]
  /\ ring' = IF Publishes
             THEN [ring EXCEPT !.slot[ring.head] = hist.pressed + 1,
                               !.pc = "publish"]
             ELSE ring
  /\ UNCHANGED <<ppi, lines, kbd, wire, prog, pc>>

HostPublish ==
  /\ ring.pc = "publish"
  /\ ring' = [ring EXCEPT !.head = Following(@), !.pc = "idle"]
  /\ hist' = [hist EXCEPT !.sent = @ \cup {ring.slot[ring.head]}]
  /\ UNCHANGED <<ppi, lines, kbd, wire, prog, pc>>

(***************************************************************************)
(* The keyboard's cycle.                                                   *)
(***************************************************************************)
Rises(now, before) == now = "H" /\ before # "H"

\* deliver_next(): the next code to port A, and IRQ1 high.
Delivers(k) == k.queue # <<>>
Delivered(k) == IF Delivers(k)
                THEN [k EXCEPT !.pa = Head(k.queue), !.queue = Tail(@),
                               !.waiting = TRUE]
                ELSE k

\* The part of on_cycle() that drains the ring, up to the loads: the keys go
\* to the queue.
TakeKeys ==
  /\ pc = "kbd" /\ ring.tail # ring.head
  /\ kbd' = [kbd EXCEPT !.queue = @ \o KeysFrom(ring.tail, ring.head)]
  /\ ring' = [ring EXCEPT !.taken = ring.head]
  /\ pc' = "took"
  /\ UNCHANGED <<ppi, lines, wire, prog, hist>>

\* The rest of it: an acknowledge still missing is given up, IRQ1 is low for
\* a cycle and the next code follows.
FreeKeys ==
  /\ pc = "took"
  /\ ring' = [ring EXCEPT !.tail = ring.taken]
  /\ kbd' = [kbd EXCEPT !.waiting = FALSE, !.armed = TRUE, !.deliver = TRUE,
                        !.ready = wire.ready, !.ack = wire.ack,
                        !.pb6 = lines.pb[6]]
  /\ wire' = [wire EXCEPT !.irq = "L"]
  /\ pc' = "program"
  /\ UNCHANGED <<ppi, lines, prog, hist>>

\* The reset protocol on bit 6 of port B.
KbdReset(k) ==
  LET p == k.resetPending \/ (lines.pb[6] = "L" /\ k.pb6 = "H") IN
  IF p /\ Rises(lines.pb[6], k.pb6)
  THEN [k EXCEPT !.resetPending = FALSE, !.queue = <<Reset>> \o @,
                 !.armed = TRUE, !.delay = ResetDelay]
  ELSE [k EXCEPT !.resetPending = p]

Countdown(k) ==
  IF k.delay = 0 THEN k
  ELSE [k EXCEPT !.delay = @ - 1, !.deliver = @ \/ k.delay = 1,
                 !.armed = @ \/ k.delay = 1]

\* Armed by the ready line, the keyboard delivers at once; once armed it
\* delivers in the cycle after it was told to.
Arms(k) == ~k.armed /\ Rises(wire.ready, k.ready)
Presents(k) == (Arms(k) \/ (k.armed /\ k.deliver)) /\ Delivers(k)
Presented(k) == IF Arms(k) THEN [Delivered(k) EXCEPT !.armed = TRUE]
                ELSE IF k.armed /\ k.deliver
                     THEN [Delivered(k) EXCEPT !.deliver = FALSE]
                ELSE k

\* Mutant of Acknowledged: the next code comes at once, IRQ1 staying high.
AcknowledgedAtOnce(k) ==
  Delivered([k EXCEPT !.pa = Zero, !.waiting = FALSE, !.deliver = FALSE])

\* Mutant of Acknowledged: the next code waits for something else.
AcknowledgedOnly(k) == [k EXCEPT !.pa = Zero, !.waiting = FALSE]

\* handle_ack(): the code is taken away and the next one follows.
Acknowledged(k) ==
  [k EXCEPT !.pa = Zero, !.waiting = FALSE, !.deliver = TRUE]

KeyboardCycle ==
  /\ pc = "kbd" /\ ring.tail = ring.head
  /\ LET r == Countdown(KbdReset(kbd))
         p == Presented(r)
         c == IF r.armed /\ lines.pb[7] = "H" THEN [p EXCEPT !.pa = Zero] ELSE p
         acked == r.armed /\ Rises(wire.ack, r.ack) /\ c.waiting
         a == IF acked THEN Acknowledged(c) ELSE c
     IN /\ kbd' = [a EXCEPT !.ready = wire.ready, !.ack = wire.ack,
                            !.pb6 = lines.pb[6]]
        /\ wire' = [wire EXCEPT
                     !.irq = IF acked THEN (IF a.waiting THEN "H" ELSE "L")
                             ELSE IF Presents(r) THEN "H" ELSE @,
                     !.ack = IF acked THEN "L" ELSE @]
        /\ lines' = IF r.armed THEN [lines EXCEPT !.pa = a.pa] ELSE lines
        /\ hist' = [hist EXCEPT !.delivered =
                      IF Len(a.queue) < Len(r.queue)
                      THEN Append(@, Head(r.queue)) ELSE @]
  /\ pc' = "program"
  /\ UNCHANGED <<ppi, ring, prog>>

(***************************************************************************)
(* The program.  It sets the mode of the 8255A first; an access of the     *)
(* 8255A lasts two cycles.                                                 *)
(***************************************************************************)
\* The interrupt controller latches the edges of IRQ1.
Edge == wire.irq = "H" /\ prog.irq # "H"

\* One cycle of the 8255A and the multiplexers, with the program's access.
ChipCycle(a, rst, next) ==
  LET l == LinesStep(ppi, lines, a, rst)
      s == Switches(l, lines)
  IN /\ ppi' = PpiStep(ppi, a, rst)
     /\ lines' = s
     /\ prog' = [next EXCEPT !.irq = wire.irq,
                             !.request = @ \/ Edge,
                             !.a = a, !.read = s.data]
     /\ pc' = "kbd"
     /\ UNCHANGED <<kbd, ring>>

Wait(next) == ChipCycle(NoAccess, FALSE, next) /\ UNCHANGED <<wire, hist>>

Free == pc = "program" /\ prog.a = NoAccess
MayWrite == Free /\ prog.pc = "main" /\ hist.writes < MaxWrites

\* The second cycle of an access.
Finish == /\ pc = "program" /\ prog.a # NoAccess
          /\ \/ /\ ~prog.last
                /\ ChipCycle(prog.a, FALSE, [prog EXCEPT !.last = TRUE])
             \/ /\ prog.last
                /\ ChipCycle(NoAccess, FALSE, [prog EXCEPT !.last = FALSE])
          /\ UNCHANGED <<wire, hist>>

Access(a, next) ==
  ChipCycle(a, FALSE, [next EXCEPT !.last = FALSE]) /\ UNCHANGED wire

\* Control word 99h: ports A and C in, port B out.
SetUp == /\ Free /\ prog.pc = "start"
         /\ Access([kind |-> "write", port |-> "mode",
                    value |-> [a |-> TRUE, b |-> FALSE, cu |-> TRUE, cl |-> TRUE]],
                   [prog EXCEPT !.pc = "main"])
         /\ UNCHANGED hist

Counted == hist' = [hist EXCEPT !.writes = @ + 1, !.pure = FALSE]

\* Port B outside the handler: written, held, and written back with bit 6,
\* as a program does to read the switches or to reset the keyboard.
WritePortB == MayWrite /\ Counted /\ \E v \in PortBWrites :
  Access([kind |-> "write", port |-> "B", value |-> v],
         [prog EXCEPT !.pc = "held"])

RestorePortB ==
  /\ Free /\ prog.pc = "held"
  /\ Access([kind |-> "write", port |-> "B", value |-> {6}],
            [prog EXCEPT !.pc = "main"])
  /\ UNCHANGED hist

HoldPortB == Free /\ prog.pc = "held" /\ Wait(prog)

ReadAPort == MayWrite /\ Counted /\ \E port \in {"A", "B", "C"} :
  Access([kind |-> "read", port |-> port], prog)

\* The control word 89h of the power-on test, which makes port A an output,
\* the checkpoint it shows there, a bit of port C, and 99h again.
Others == {[kind |-> "write", port |-> "mode",
            value |-> [a |-> in, b |-> FALSE, cu |-> TRUE, cl |-> in]]
             : in \in BOOLEAN}
          \cup {[kind |-> "write", port |-> "A", value |-> 1],
                [kind |-> "write", port |-> "C", value |-> [lo |-> 1, hi |-> 0]],
                [kind |-> "write", port |-> "bit",
                 value |-> [half |-> "lo", to |-> 1]]}
WriteOther == MayWrite /\ Counted /\ \E a \in Others : Access(a, prog)

\* The RESET line reaches the 8255A only.
ResetPulse == /\ MayWrite /\ Counted
              /\ ChipCycle(NoAccess, TRUE, [prog EXCEPT !.pc = "start"])
              /\ UNCHANGED wire

\* Port FBh of the test card: a code for the queue.  The card shares the
\* clock thread with the keyboard.
Enqueue ==
  /\ Free /\ prog.pc = "main" /\ hist.queued < MaxQueued
  /\ kbd' = [kbd EXCEPT !.queue = Append(@, MaxHost + hist.queued + 1)]
  /\ hist' = [hist EXCEPT !.queued = @ + 1,
                        !.early = @ /\ wire.ready # "H"]
  /\ pc' = "kbd"
  /\ prog' = [prog EXCEPT !.irq = wire.irq, !.request = @ \/ Edge]
  /\ UNCHANGED <<ppi, lines, wire, ring>>

\* Ports FCh and FDh: the ready line, once the codes are queued, and the
\* acknowledge line.
SetReady ==
  /\ Free /\ prog.pc = "main" /\ wire.ready # "H"
  /\ ChipCycle(NoAccess, FALSE, prog)
  /\ wire' = [wire EXCEPT !.ready = "H"] /\ UNCHANGED hist

\* The handler: read port A, pulse bit 7 of port B, acknowledge.
Handler ==
  /\ Free /\ prog.pc = "main" /\ prog.request
  /\ Access([kind |-> "read", port |-> "A"],
            [prog EXCEPT !.pc = "clear", !.request = FALSE])
  /\ UNCHANGED hist

\* What was read is in the accumulator when the access is over.
ClearKey ==
  /\ Free /\ prog.pc = "clear"
  /\ Access([kind |-> "write", port |-> "B", value |-> {6, 7}],
            [prog EXCEPT !.pc = "enable"])
  /\ hist' = [hist EXCEPT !.received = Append(@, prog.read.A)]

EnableKey ==
  /\ Free /\ prog.pc = "enable"
  /\ Access([kind |-> "write", port |-> "B", value |-> {6}],
            [prog EXCEPT !.pc = IF prog.card THEN "ack" ELSE "main"])
  /\ UNCHANGED hist

AckKey ==
  /\ Free /\ prog.pc = "ack"
  /\ ChipCycle(NoAccess, FALSE, [prog EXCEPT !.pc = "main"])
  /\ wire' = [wire EXCEPT !.ack = "H"] /\ UNCHANGED hist

\* Nothing to do in this cycle.
IdleCycle == Free /\ prog.pc = "main" /\ Wait(prog)

Init ==
  /\ ppi = PpiInit /\ lines = LinesInit /\ kbd = KbdInit
  /\ wire = [irq |-> "L", ready |-> "Z", ack |-> "Z"]
  /\ ring = [slot |-> [i \in 0 .. RingSize - 1 |-> 0], head |-> 0,
             tail |-> 0, taken |-> 0, pc |-> "idle"]
  /\ \E card \in BOOLEAN :
       prog = [pc |-> "start", a |-> NoAccess, last |-> FALSE, irq |-> "L",
               request |-> FALSE, card |-> card, read |-> [A |-> Floating]]
  /\ pc = "program"
  /\ hist = [pressed |-> 0, sent |-> {}, delivered |-> <<>>,
             received |-> <<>>, queued |-> 0, writes |-> 0, pure |-> TRUE,
             early |-> TRUE]

Program ==
  \/ SetUp \/ Finish \/ WritePortB \/ RestorePortB \/ HoldPortB
  \/ ReadAPort \/ WriteOther \/ ResetPulse \/ Enqueue \/ SetReady \/ Handler \/ ClearKey \/ EnableKey \/ AckKey
  \/ IdleCycle
KeyboardThread == TakeKeys \/ FreeKeys \/ KeyboardCycle
Host == HostInject \/ HostPublish

Next == Program \/ KeyboardThread \/ Host

\* The clock thread runs for ever; a handler that is asked for runs, and goes
\* on to its end; a program that has queued its codes sets the ready line.
Fairness ==
  /\ WF_vars(Program) /\ WF_vars(KeyboardThread)
  /\ SF_vars(Handler) /\ SF_vars(SetReady) /\ WF_vars(HostPublish)

Spec == Init /\ [][Next]_vars /\ Fairness

(***************************************************************************)
(* Properties.                                                             *)
(***************************************************************************)
\* The keys in the ring that the keyboard still has to take.
InRing == KeysFrom(IF pc = "took" THEN ring.taken ELSE ring.tail, ring.head)

\* The host's keys of a sequence of codes, and that they come in the order
\* of typing, each once.
KeysOf(s) == {s[i] : i \in DOMAIN s} \cap HostKeys
InOrder(s) == \A i, j \in DOMAIN s :
  i < j /\ s[i] \in HostKeys /\ s[j] \in HostKeys => s[i] < s[j]

\* No key that the ring has accepted is lost, doubled or overtaken on its way
\* to port A, whatever the host thread, the reset code and the program's own
\* codes do meanwhile (inject_key(), the drain in on_cycle(), deliver_next()).
KeysConserved ==
  LET codes == hist.delivered \o kbd.queue \o InRing
  IN InOrder(codes) /\ KeysOf(codes) = hist.sent

\* A program that acknowledges at the test card reads each code it has queued
\* exactly once and in order, as long as nobody types and it leaves port B
\* alone outside its handler.
CodesReadOnce ==
  hist.pure /\ prog.card =>
    LET n == Len(hist.received) IN
    /\ n <= hist.queued
    /\ \A i \in 1..n : hist.received[i] = MaxHost + i

\* And it gets them all, if it has queued them before it sets the ready line:
\* the acknowledge of each brings the next.
CodesAllRead ==
  [](hist.pure /\ hist.early /\ prog.card /\ hist.queued = MaxQueued
       => <>(~hist.pure \/ ~hist.early \/ Len(hist.received) = MaxQueued))

\* Every code comes with an edge of IRQ1, but one that a reset makes due while
\* the code before it is not acknowledged: the line is low in the cycle before
\* (the early return and the delayed deliveries of on_cycle() are for this).
CleanEdge ==
  [][Len(hist'.delivered) > Len(hist.delivered)
       => wire.irq = "L" \/ kbd.delay = 1]_vars

=============================================================================
