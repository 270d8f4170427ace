-------------------------- MODULE ProcessorProofs --------------------------
(***************************************************************************)
(* The 8088 executes a program as if nothing came between: proofs for any  *)
(* programs and vectors, any number of requests and any depth of handlers. *)
(* Handlers are bound by HandlerAssumption only: what a vector leads to    *)
(* keeps to the code of handlers until it returns, and does not touch the  *)
(* words the processor pushed.                                             *)
(*                                                                         *)
(* The invariant says, for every point the execution unit may wait at,     *)
(* where the program stands (Stands), what of it is on the stack for each  *)
(* handler entered (Frames), whether a trap is due (TrapLatched between    *)
(* two instructions, TrapWaits after an effect) and how the counts of the  *)
(* prefixes stand for them (PrefixWaits: 2 as a prefix was executed, 1 as  *)
(* the next opcode has been decoded).                                      *)
(***************************************************************************)
EXTENDS Processor, ALU, TLAPS

(***************************************************************************)
(* The execution unit e against the history h of the program.              *)
(***************************************************************************)
Within == HandlerCode \cup {0}

Doings == {"begin", "halted", "fetch", "execute", "inta"} \cup Handling

EuFields == {"ip", "ifl", "tf", "cx", "stack", "seg", "rep", "trap", "nmi", "prev",
             "brk", "doing", "todo", "vec"}
EuShape(e) == e = [x \in EuFields |-> e[x]]

HistFields == {"depth", "at", "ifl", "tf", "rep", "seg", "due", "stepped"}
HistShape(h) == h = [x \in HistFields |-> h[x]]

IsStack(s) == \E S : s \in Seq(S)

Types(e, h) ==
  /\ EuShape(e) /\ HistShape(h)
  /\ e.cx \in Nat /\ e.rep \in 0 .. 2 /\ e.seg \in 0 .. 2
  /\ IsStack(e.stack) /\ h.depth \in Nat

\* Each handler the processor is in has a frame of two words on the stack, the
\* k-th of them 2 * k words from its top: the lowest holds what the program
\* left, those above it where a handler was.
Frames(e, h) ==
  LET n == Len(e.stack) IN
  /\ n >= 2 * h.depth
  /\ h.depth > 0 => /\ e.stack[n - 2 * h.depth + 1] = <<h.ifl, h.tf>>
                    /\ e.stack[n - 2 * h.depth + 2] = h.at
  /\ \A k \in 1 .. h.depth - 1 : /\ e.stack[n - 2 * k + 1][2] = FALSE
                                 /\ e.stack[n - 2 * k + 2] \in Within

\* The processor is where the program left it, or in the code of handlers.
Stands(e, h) ==
  IF h.depth = 0 THEN e.ip = h.at /\ e.ifl = h.ifl /\ e.tf = h.tf
  ELSE e.ip \in Within /\ e.tf = FALSE

\* A trap that is due waits in trap_flag_; with none due it holds the TF that
\* the next instruction of the program is to be stepped by.
TrapWaits(e, h) == (h.due <=> e.trap) /\ (h.due => h.stepped)
TrapLatched(e, h) ==
  /\ IF h.depth = 0 THEN ~h.due /\ e.trap = h.tf ELSE h.due <=> e.trap
  /\ h.due => h.stepped

\* A prefix of the program is held by a count, and no handler runs meanwhile.
PrefixWaits(e, h, count) ==
  ~h.stepped => IF h.depth = 0
                THEN (h.rep <=> e.rep = count) /\ (h.seg <=> e.seg = count)
                ELSE ~h.rep /\ ~h.seg

Low(e) == e.rep <= 1 /\ e.seg <= 1

\* Between two instructions; about to take effect; after its effect.
Between(e, h) ==
  Types(e, h) /\ Frames(e, h) /\ Stands(e, h) /\ TrapLatched(e, h) /\ PrefixWaits(e, h, 2)
Ripe(e, h) ==
  /\ Types(e, h) /\ Frames(e, h) /\ Stands(e, h) /\ TrapLatched(e, h)
  /\ PrefixWaits(e, h, 1) /\ Low(e)
After(e, h) ==
  Types(e, h) /\ Frames(e, h) /\ Stands(e, h) /\ TrapWaits(e, h) /\ PrefixWaits(e, h, 2)

\* What the execution unit waits for.
EuInv(e, h) ==
  /\ e.doing \in {"begin", "halted", "fetch"} => Between(e, h)
  /\ e.doing = "execute" => Ripe(e, h)
  /\ e.doing \in {"inta", "irq"} => Between(e, h) /\ e.rep = 0 /\ e.seg = 0 /\ ~e.tf
  /\ e.doing \in {"software", "divide"} => After(e, h) /\ Low(e)
  /\ e.doing = "trap" => After(e, h) /\ e.trap
  /\ e.doing \in {"fetch", "execute"} => e.ip # 0
  /\ e.doing \in Doings

BiuFields == {"at", "pulse"}
LineFields == {"intr", "nmi", "reset", "vcc", "used", "intrs", "nmis", "resets"}

ProcessorInv ==
  /\ EuInv(eu, hist)
  /\ prog \in DOMAIN Code
  /\ eu.doing = "halted" => biu.at \in {"off", "done"}
  /\ biu.at \in {"vcc", "reset"} \/ ~lines.used => eu.doing = "begin"
  /\ biu.at # "off" => lines.used
  /\ biu = [x \in BiuFields |-> biu[x]] /\ lines = [x \in LineFields |-> lines[x]]

(***************************************************************************)
(* Operators.                                                              *)
(***************************************************************************)
\* f is e but for what the processor waits for, the NMI latch and BRK.
Alike(f, e) ==
  /\ EuShape(f)
  /\ f.ip = e.ip /\ f.ifl = e.ifl /\ f.tf = e.tf /\ f.cx = e.cx /\ f.stack = e.stack
  /\ f.seg = e.seg /\ f.rep = e.rep /\ f.trap = e.trap

\* What is said of e in a state holds of what is like it.
LEMMA AlikeKeeps ==
  ASSUME NEW e, NEW f, NEW h, Alike(f, e)
  PROVE  /\ Between(e, h) => Between(f, h)
         /\ Ripe(e, h) => Ripe(f, h)
         /\ After(e, h) => After(f, h)
         /\ Low(e) => Low(f)
<1>1. Types(e, h) => Types(f, h)
  BY DEF Alike, Types
<1>2. Frames(e, h) => Frames(f, h)
  BY DEF Alike, Frames
<1>3. Stands(e, h) => Stands(f, h)
  BY DEF Alike, Stands
<1>4. TrapWaits(e, h) => TrapWaits(f, h)
  BY DEF Alike, TrapWaits
<1>5. TrapLatched(e, h) => TrapLatched(f, h)
  BY DEF Alike, TrapLatched
<1>6. \A n \in {1, 2} : PrefixWaits(e, h, n) => PrefixWaits(f, h, n)
  BY DEF Alike, PrefixWaits
<1>7. Low(e) => Low(f)
  BY DEF Alike, Low
<1> QED BY <1>1, <1>2, <1>3, <1>4, <1>5, <1>6, <1>7 DEF Between, Ripe, After

\* Asking for bus cycles changes nothing of the program.
LEMMA AsksFacts ==
  ASSUME NEW e, EuShape(e), NEW d, NEW ops
  PROVE  /\ Alike(Asks(e, d, ops), e)
         /\ Asks(e, d, ops).doing = d /\ Asks(e, d, ops).todo = ops
         /\ Asks(e, d, ops).vec = e.vec /\ Asks(e, d, ops).brk = e.brk
BY DEF EuShape, EuFields, Asks, Alike

\* What concatenation keeps.
LEMMA ConcatFacts ==
  ASSUME NEW S, NEW a \in Seq(S), NEW b \in Seq(S)
  PROVE  /\ a \o b \in Seq(S) /\ Len(a \o b) = Len(a) + Len(b)
         /\ \A i \in 1 .. Len(a) : (a \o b)[i] = a[i]
         /\ \A i \in 1 .. Len(b) : (a \o b)[Len(a) + i] = b[i]
  OBVIOUS

\* An interrupt's cycles are asked for, and nothing of the program changes.
LEMMA DispatchFacts ==
  ASSUME NEW e, EuShape(e), NEW d, NEW v
  PROVE  /\ Alike(Dispatch(e, d, v), e)
         /\ Dispatch(e, d, v).doing = d /\ Dispatch(e, d, v).vec = v
<1> DEFINE ops == Times(3, Push) \o Times(2, Pop)
           a == Asks(e, d, ops)
           f == Dispatch(e, d, v)
<1>2. f = [a EXCEPT !.vec = v]
  BY DEF Dispatch
<1> HIDE DEF ops
<1>1. Alike(a, e) /\ a.doing = d /\ a.todo = ops
  BY AsksFacts
<1> HIDE DEF a, f
<1>4. Alike(f, e) /\ f.doing = d /\ f.vec = v 
  BY <1>1, <1>2 DEF Alike, EuShape, EuFields
<1> QED BY <1>4 DEF f

\* Between two instructions the next one is asked for, or the end is there.
LEMMA BeginKeeps ==
  ASSUME NEW e, NEW h, Between(e, h)
  PROVE  EuInv(Begin(e), h) /\ Alike(Begin(e), e)
<1>1. EuShape(e)
  BY DEF Between, Types
<1>2. CASE e.ip = 0
  <2> DEFINE f == Asks(e, "halted", <<>>)
  <2>1. Alike(f, e) /\ f.doing = "halted"
    BY <1>1, AsksFacts
  <2>2. f = Begin(e)
    BY <1>2 DEF Begin
  <2> HIDE DEF f
  <2>3. Between(f, h)
    BY <2>1, AlikeKeeps
  <2> QED BY <2>1, <2>2, <2>3 DEF EuInv, Doings, Handling
<1>3. CASE e.ip # 0
  <2> DEFINE f == Asks(e, "fetch", <<"FETCH">>)
  <2>1. Alike(f, e) /\ f.doing = "fetch"
    BY <1>1, AsksFacts
  <2>2. f = Begin(e)
    BY <1>3 DEF Begin
  <2> HIDE DEF f
  <2>3. Between(f, h) /\ f.ip # 0
    BY <2>1, AlikeKeeps, <1>3 DEF Alike
  <2> QED BY <2>1, <2>2, <2>3 DEF EuInv, Doings, Handling
<1> QED BY <1>2, <1>3

\* So it is when interrupts are looked at first: one is taken with no prefix
\* pending and TF clear only.
LEMMA SamplesKeeps ==
  ASSUME NEW e, NEW h, NEW intr, Between(e, h)
  PROVE  EuInv(Samples(e, intr), h) /\ Alike(Samples(e, intr), e)
<1> DEFINE open == e.ifl /\ e.seg = 0 /\ e.rep = 0 /\ ~e.tf
<1>1. EuShape(e)
  BY DEF Between, Types
<1>2. CASE open /\ e.nmi
  <2> DEFINE c == [e EXCEPT !.nmi = FALSE]
             f == Dispatch(c, "irq", 2)
  <2>1. Alike(c, e)
    BY <1>1 DEF EuShape, EuFields, Alike
  <2>2. f = Samples(e, intr)
    BY <1>2 DEF Samples
  <2> HIDE DEF c
  <2>3. /\ Alike(f, c) /\ f.doing = "irq"
       
    BY <2>1, DispatchFacts DEF Alike
  <2> HIDE DEF f
  <2>4. Alike(f, e)
    BY <2>1, <2>3 DEF Alike
  <2>5. Between(f, h) /\ f.rep = 0 /\ f.seg = 0 /\ ~f.tf
    BY <2>4, <1>2, AlikeKeeps DEF Alike
  <2> QED BY <2>2, <2>3, <2>4, <2>5 DEF EuInv, Doings, Handling
<1>3. CASE open /\ ~e.nmi /\ intr
  <2> DEFINE f == Asks(e, "inta", <<"INTA">>)
  <2>1. Alike(f, e) /\ f.doing = "inta"
    BY <1>1, AsksFacts
  <2>2. f = Samples(e, intr)
    BY <1>3 DEF Samples
  <2> HIDE DEF f
  <2>3. Between(f, h) /\ f.rep = 0 /\ f.seg = 0 /\ ~f.tf
    BY <2>1, <1>3, AlikeKeeps DEF Alike
  <2> QED BY <2>1, <2>2, <2>3 DEF EuInv, Doings, Handling
<1>4. CASE ~(open /\ e.nmi) /\ ~(open /\ ~e.nmi /\ intr)
  <2>1. Samples(e, intr) = Begin(e)
    BY <1>4 DEF Samples
  <2> QED BY <2>1, BeginKeeps
<1> QED BY <1>2, <1>3, <1>4

\* TF is latched for the next instruction once no trap is due.
LEMMA LatchedKeeps ==
  ASSUME NEW e, NEW h,
         Types(e, h), Frames(e, h), Stands(e, h), PrefixWaits(e, h, 2), ~h.due
  PROVE  /\ Between(Latched(e), h)
         /\ Latched(e).ip = e.ip /\ Latched(e).ifl = e.ifl /\ Latched(e).tf = e.tf
<1> DEFINE f == Latched(e)
<1>1. EuShape(e)
  BY DEF Types
<1>2. /\ EuShape(f) /\ f.trap = f.tf
      /\ f.ip = e.ip /\ f.ifl = e.ifl /\ f.tf = e.tf /\ f.cx = e.cx
      /\ f.stack = e.stack /\ f.seg = e.seg /\ f.rep = e.rep
  BY <1>1 DEF EuShape, EuFields, Latched
<1> HIDE DEF f
<1>3. Types(f, h) /\ Frames(f, h)
  BY <1>2 DEF Types, Frames
<1>4. Stands(f, h) /\ PrefixWaits(f, h, 2)
  BY <1>2 DEF Stands, PrefixWaits
<1>5. TrapLatched(f, h)
  BY <1>2 DEF Stands, TrapLatched
<1> QED BY <1>2, <1>3, <1>4, <1>5 DEF Between, f

\* What follows the effect of an instruction.
LEMMA FinishKeeps ==
  ASSUME NEW e, NEW h, NEW error \in BOOLEAN, NEW intr, After(e, h), error => Low(e)
  PROVE  /\ EuInv(Finish(e, error, intr), h)
         /\ Finish(e, error, intr).ip = e.ip
         /\ Finish(e, error, intr).ifl = e.ifl /\ Finish(e, error, intr).tf = e.tf
<1>1. EuShape(e)
  BY DEF After, Types
<1>2. CASE error
  <2> DEFINE f == Dispatch(e, "divide", 0)
  <2>1. Alike(f, e) /\ f.doing = "divide"
    BY <1>1, DispatchFacts
  <2>2. f = Finish(e, error, intr)
    BY <1>2 DEF Finish
  <2> HIDE DEF f
  <2>3. After(f, h) /\ Low(f)
    BY <2>1, <1>2, AlikeKeeps
  <2>4. EuInv(f, h)
    BY <2>1, <2>3 DEF EuInv, Doings, Handling
  <2> QED BY <2>1, <2>2, <2>4 DEF Alike
<1>3. CASE ~error /\ e.trap
  <2> DEFINE f == Dispatch(e, "trap", 1)
  <2>1. Alike(f, e) /\ f.doing = "trap"
    BY <1>1, DispatchFacts
  <2>2. f = Finish(e, error, intr)
    BY <1>3 DEF Finish
  <2> HIDE DEF f
  <2>3. After(f, h) /\ f.trap
    BY <2>1, <1>3, AlikeKeeps DEF Alike
  <2>4. EuInv(f, h)
    BY <2>1, <2>3 DEF EuInv, Doings, Handling
  <2> QED BY <2>1, <2>2, <2>4 DEF Alike
<1>4. CASE ~error /\ ~e.trap
  <2> DEFINE l == Latched(e)
  <2>1. Finish(e, error, intr) = Samples(l, intr)
    BY <1>4 DEF Finish
  <2>2. Between(l, h) /\ l.ip = e.ip /\ l.ifl = e.ifl /\ l.tf = e.tf
    BY <1>4, LatchedKeeps DEF After, TrapWaits
  <2> HIDE DEF l
  <2>3. EuInv(Samples(l, intr), h) /\ Alike(Samples(l, intr), l)
    BY <2>2, SamplesKeeps
  <2> QED BY <2>1, <2>2, <2>3 DEF Alike
<1> QED BY <1>2, <1>3, <1>4

\* Two words are pushed; n words are dropped.
LEMMA PushedFacts ==
  ASSUME NEW s, IsStack(s), NEW a, NEW b, NEW t, t = s \o <<a, b>>
  PROVE  /\ IsStack(t) /\ Len(s) \in Nat /\ Len(t) = Len(s) + 2
         /\ \A i \in 1 .. Len(s) : t[i] = s[i]
         /\ t[Len(s) + 1] = a /\ t[Len(s) + 2] = b
<1>1. PICK S : s \in Seq(S)
  BY DEF IsStack
<1> DEFINE U == S \cup {a, b}
           p == <<a, b>>
<1>2. s \in Seq(U)
  BY <1>1
<1>3. p \in Seq(U) /\ Len(p) = 2 /\ p[1] = a /\ p[2] = b
  OBVIOUS
<1> HIDE DEF U, p
<1>4. s \o p \in Seq(U)
  BY <1>2, <1>3, ConcatFacts
<1>6. Len(s \o p) = Len(s) + Len(p)
  BY <1>2, <1>3, ConcatFacts
<1>7. \A i \in 1 .. Len(s) : (s \o p)[i] = s[i]
  BY <1>2, <1>3, ConcatFacts
<1>8. (s \o p)[Len(s) + 1] = p[1] /\ (s \o p)[Len(s) + 2] = p[2]
  <2>1. \A v, w \in Seq(U) : \A i \in 1 .. Len(w) : (v \o w)[Len(v) + i] = w[i]
    BY ConcatFacts
  <2>2. 1 \in 1 .. Len(p) /\ 2 \in 1 .. Len(p)
    BY <1>3
  <2> QED BY <1>2, <1>3, <2>1, <2>2
<1>5. Len(s) \in Nat
  BY <1>2
<1> QED BY <1>3, <1>4, <1>5, <1>6, <1>7, <1>8 DEF IsStack, p

\* A word more is still a stack.
LEMMA AppendedFacts ==
  ASSUME NEW s, IsStack(s), NEW a
  PROVE  IsStack(Append(s, a))
<1>1. PICK S : s \in Seq(S)
  BY DEF IsStack
<1>2. Append(s, a) \in Seq(S \cup {a})
  BY <1>1
<1> QED BY <1>2 DEF IsStack

\* Words are dropped from the top.
LEMMA DroppedFacts ==
  ASSUME NEW s, IsStack(s), NEW n \in 1 .. 2
  PROVE  /\ IsStack(Drop(s, n)) /\ Len(s) \in Nat
         /\ Len(s) >= n => /\ Len(Drop(s, n)) = Len(s) - n
                           /\ \A i \in 1 .. Len(s) - n : Drop(s, n)[i] = s[i]
<1>1. PICK S : s \in Seq(S)
  BY DEF IsStack
<1>2. Len(s) \in Nat
  BY <1>1
<1>3. Drop(s, n) \in Seq(S)
  BY <1>1, <1>2 DEF Drop
<1>4. Len(s) >= n => /\ Len(Drop(s, n)) = Len(s) - n
                     /\ \A i \in 1 .. Len(s) - n : Drop(s, n)[i] = s[i]
  BY <1>1, <1>2 DEF Drop
<1> QED BY <1>2, <1>3, <1>4 DEF IsStack

\* Going elsewhere changes nothing else.
LEMMA GotoFacts ==
  ASSUME NEW e, EuShape(e), NEW a
  PROVE  LET f == Goto(e, a) IN
         /\ EuShape(f) /\ f.ip = a
         /\ f.ifl = e.ifl /\ f.tf = e.tf /\ f.cx = e.cx /\ f.stack = e.stack
         /\ f.seg = e.seg /\ f.rep = e.rep /\ f.trap = e.trap
  BY DEF EuShape, EuFields, Goto

\* What the effect f of instruction i does to e.
Does(i, e, f) ==
  /\ EuShape(f) /\ f.trap = e.trap /\ f.cx \in Nat /\ IsStack(f.stack)
  /\ CASE i.op = "rep" -> f.rep = 2 /\ f.seg = (IF e.seg > 0 THEN e.seg + 1 ELSE 0)
       [] i.op = "seg" -> f.seg = 2 /\ f.rep = (IF e.rep > 0 THEN e.rep + 1 ELSE 0)
       [] OTHER -> f.rep = e.rep /\ f.seg \in {1, e.seg}
  /\ i.op \in HandlerOps \ {"iret"} =>
       /\ f.tf = e.tf /\ f.stack = e.stack
       /\ IF i.op = "jmp" THEN f.ip = i.arg
          ELSE f.ip \in {e.ip, e.ip + 1} \/ (i.op = "jcc" /\ f.ip = i.arg)
  /\ i.op = "iret" => /\ f.stack = Drop(e.stack, 2) /\ f.ip = Top(e.stack, 0)
                      /\ f.ifl = Top(e.stack, 1)[1] /\ f.tf = Top(e.stack, 1)[2]

\* Every effect is of one of these kinds.
LEMMA EffectDoes ==
  ASSUME NEW e, EuShape(e), IsStack(e.stack), e.cx \in Nat, e.rep \in 0 .. 2, e.seg \in 0 .. 2,
         NEW i, NEW intr, NEW taken
  PROVE  Does(i, e, Effect(i, e, intr, taken))
<1> DEFINE f == Effect(i, e, intr, taken)
<1> USE GotoFacts DEF Does, Next1
<1>1. CASE i.op \in {"sti", "cli"}
  <2>1. f = FlagOps(i, e)
    BY <1>1 DEF Effect
  <2>2. ASSUME NEW x, x = [e EXCEPT !.ifl = i.op = "sti"] 
        PROVE  /\ EuShape(x) /\ x.ip = e.ip /\ x.tf = e.tf /\ x.cx = e.cx
               /\ x.stack = e.stack /\ x.seg = e.seg /\ x.rep = e.rep /\ x.trap = e.trap
    BY <2>2 DEF EuShape, EuFields
  <2>3. QED BY <1>1, <2>1, <2>2 DEF FlagOps, HandlerOps
<1>2. CASE i.op = "setcx"
  <2>1. f = Next1([e EXCEPT !.cx = MaxCx])
    BY <1>2 DEF Effect
  <2>2. ASSUME NEW x, x = [e EXCEPT !.cx = MaxCx] 
        PROVE  /\ EuShape(x) /\ x.ip = e.ip /\ x.tf = e.tf /\ x.cx = MaxCx
               /\ x.stack = e.stack /\ x.seg = e.seg /\ x.rep = e.rep /\ x.trap = e.trap
    BY <2>2 DEF EuShape, EuFields
  <2>3. QED BY <1>2, <2>1, <2>2, ProcessorAssumption DEF HandlerOps

<1>3. CASE i.op \in {"rep", "seg"}
  <2>1. f = Next1(Prefix(e, i.op))
    BY <1>3 DEF Effect
  <2>2. ASSUME NEW x, x = Prefix(e, "rep")
        PROVE  /\ EuShape(x) /\ x.ip = e.ip /\ x.tf = e.tf /\ x.cx = e.cx
               /\ x.stack = e.stack /\ x.trap = e.trap
               /\ x.rep = 2 /\ x.seg = (IF e.seg > 0 THEN e.seg + 1 ELSE 0)
    BY <2>2 DEF EuShape, EuFields, Prefix
  <2>3. ASSUME NEW x, x = Prefix(e, "seg")
        PROVE  /\ EuShape(x) /\ x.ip = e.ip /\ x.tf = e.tf /\ x.cx = e.cx
               /\ x.stack = e.stack /\ x.trap = e.trap
               /\ x.seg = 2 /\ x.rep = (IF e.rep > 0 THEN e.rep + 1 ELSE 0)
    BY <2>3 DEF EuShape, EuFields, Prefix
  <2>4. QED BY <1>3, <2>1, <2>2, <2>3 DEF HandlerOps
<1>4. CASE i.op = "lea"
  <2>1. f = Next1([e EXCEPT !.seg = 1])
    BY <1>4 DEF Effect, Lea
  <2>2. ASSUME NEW x, x = [e EXCEPT !.seg = 1]
        PROVE  /\ EuShape(x) /\ x.ip = e.ip /\ x.tf = e.tf /\ x.cx = e.cx
               /\ x.stack = e.stack /\ x.seg = 1 /\ x.rep = e.rep /\ x.trap = e.trap
    BY <2>2 DEF EuShape, EuFields
  <2>3. QED BY <1>4, <2>1, <2>2 DEF HandlerOps
<1>5. CASE i.op = "movs"
  <2>1. f = Next1([e EXCEPT !.cx = IF e.rep > 0 THEN 0 ELSE @])
    BY <1>5 DEF Effect, Strings1
  <2>2. ASSUME NEW x, x = [e EXCEPT !.cx = IF e.rep > 0 THEN 0 ELSE @]
        PROVE  /\ EuShape(x) /\ x.ip = e.ip /\ x.tf = e.tf /\ x.cx \in {0, e.cx}
               /\ x.stack = e.stack /\ x.seg = e.seg /\ x.rep = e.rep /\ x.trap = e.trap
    BY <2>2 DEF EuShape, EuFields
  <2>3. QED BY <1>5, <2>1, <2>2 DEF HandlerOps
<1>6. CASE i.op \in {"push", "pushf"}
  <2> DEFINE v == IF i.op = "push" THEN i.arg ELSE Flags(e)
             s == Append(e.stack, v)
             y == [e EXCEPT !.stack = s]
  <2>1. f = Goto(y, y.ip + 1)
    <3>1. CASE i.op = "push"
      BY <3>1 DEF Effect, PushReg
    <3>2. CASE i.op = "pushf"
      BY <3>2 DEF Effect, PushFlags
    <3> QED BY <1>6, <3>1, <3>2
  <2>2. IsStack(s)
    BY AppendedFacts
  <2> HIDE DEF s
  <2>3. /\ EuShape(y) /\ y.cx = e.cx
        /\ y.stack = s /\ y.seg = e.seg /\ y.rep = e.rep /\ y.trap = e.trap
    BY DEF EuShape, EuFields
  <2> HIDE DEF y
  <2> QED BY <1>6, <2>1, <2>2, <2>3 DEF HandlerOps
<1>7. CASE i.op = "popf"
  <2> DEFINE d == Drop(e.stack, 1)
             a == Top(e.stack, 0)[1]
             b == Top(e.stack, 0)[2]
             y == [e EXCEPT !.stack = d, !.ifl = a, !.tf = b]
  <2>1. f = Goto(y, y.ip + 1)
    BY <1>7 DEF Effect, PopFlags
  <2>2. IsStack(d)
    BY DroppedFacts
  <2> HIDE DEF a, b, d
  <2>3. /\ EuShape(y) /\ y.cx = e.cx
        /\ y.stack = d /\ y.seg = e.seg /\ y.rep = e.rep /\ y.trap = e.trap
    BY DEF EuShape, EuFields
  <2> HIDE DEF y
  <2> QED BY <1>7, <2>1, <2>2, <2>3 DEF HandlerOps
<1>8. CASE i.op = "ret"
  <2>1. f = Goto([e EXCEPT !.stack = Drop(@, 1)], Top(e.stack, 0))
    BY <1>8 DEF Effect, Return
  <2>2. ASSUME NEW s, IsStack(s), NEW x, x = [e EXCEPT !.stack = s]
        PROVE  /\ EuShape(x) /\ x.cx = e.cx
               /\ IsStack(x.stack) /\ x.seg = e.seg /\ x.rep = e.rep /\ x.trap = e.trap
    BY <2>2 DEF EuShape, EuFields
  <2>3. IsStack(Drop(e.stack, 1))
    BY DroppedFacts
  <2>4. QED BY <1>8, <2>1, <2>2, <2>3 DEF HandlerOps
<1>9. CASE i.op = "iret"
  <2> DEFINE d == Drop(e.stack, 2)
             a == Top(e.stack, 1)[1]
             b == Top(e.stack, 1)[2]
             c == Top(e.stack, 0)
  <2>1. f = Goto([e EXCEPT !.stack = d, !.ifl = a, !.tf = b], c)
    BY <1>9 DEF Effect, Return
  <2>3. IsStack(d)
    BY DroppedFacts
  <2> HIDE DEF a, b, c, d
  <2>2. ASSUME NEW x, x = [e EXCEPT !.stack = d, !.ifl = a, !.tf = b]
        PROVE  /\ EuShape(x) /\ x.cx = e.cx /\ x.ifl = a /\ x.tf = b
               /\ x.stack = d /\ x.seg = e.seg /\ x.rep = e.rep /\ x.trap = e.trap
    BY <2>2 DEF EuShape, EuFields
  <2>4. /\ EuShape(f) /\ f.cx = e.cx /\ f.ifl = a /\ f.tf = b /\ f.ip = c
        /\ f.stack = d /\ f.seg = e.seg /\ f.rep = e.rep /\ f.trap = e.trap
    BY <2>1, <2>2
  <2>5. QED BY <1>9, <2>3, <2>4 DEF a, b, c, d
<1>10. CASE i.op = "jmp"
  <2>1. f = Goto(e, i.arg)
    BY <1>10 DEF Effect, Jump
  <2> QED BY <1>10, <2>1
<1>11. CASE i.op = "call"
  <2> DEFINE s == Append(e.stack, e.ip + 1)
  <2>1. f = Goto([e EXCEPT !.stack = s], i.arg)
    BY <1>11 DEF Effect, Jump
  <2>2. IsStack(s)
    BY AppendedFacts
  <2> HIDE DEF s
  <2>3. ASSUME NEW x, x = [e EXCEPT !.stack = s]
        PROVE  /\ EuShape(x) /\ x.cx = e.cx
               /\ x.stack = s /\ x.seg = e.seg /\ x.rep = e.rep /\ x.trap = e.trap
    BY <2>3 DEF EuShape, EuFields
  <2> QED BY <1>11, <2>1, <2>2, <2>3 DEF HandlerOps
<1>12. CASE i.op = "jcc"
  <2>1. f = IF taken THEN Goto(e, i.arg) ELSE Next1(e)
    BY <1>12 DEF Effect, Branch
  <2> QED BY <1>12, <2>1
<1>13. CASE i.op = "hlt"
  <2>1. f = e \/ f = Next1(e)
    BY <1>13 DEF Effect, Halt
  <2> QED BY <1>13, <2>1
<1>14. CASE i.op \notin {"sti", "cli", "setcx", "rep", "seg", "lea", "movs", "push",
                         "pushf", "popf", "ret", "iret", "jmp", "call", "jcc", "hlt"}
  <2>1. f = Next1(e)
    BY <1>14 DEF Effect
  <2> QED BY <1>14, <2>1
<1> QED BY <1>1, <1>2, <1>3, <1>4, <1>5, <1>6, <1>7, <1>8, <1>9, <1>10, <1>11, <1>12,
           <1>13, <1>14

\* The flags and CS:IP are pushed, the vector is read and IF and TF are clear.
LEMMA EnterFacts ==
  ASSUME NEW e, EuShape(e), IsStack(e.stack)
  PROVE  LET f == Enter(e)
             n == Len(e.stack) IN
         /\ EuShape(f) /\ f.ip \in Within /\ f.ifl = FALSE /\ f.tf = FALSE /\ f.cx = e.cx
         /\ f.seg = e.seg /\ f.rep = e.rep /\ f.trap = e.trap
         /\ IsStack(f.stack) /\ n \in Nat /\ Len(f.stack) = n + 2
         /\ \A i \in 1 .. n : f.stack[i] = e.stack[i]
         /\ f.stack[n + 1] = <<e.ifl, e.tf>> /\ f.stack[n + 2] = e.ip
<1> DEFINE s == e.stack \o <<Flags(e), e.ip>>
           f == Enter(e)
<1>1. Entry(e.vec) \in Within
  BY HandlerAssumption DEF Entry, Within
<1>2. /\ EuShape(f) /\ f.ip = Entry(e.vec) /\ f.ifl = FALSE /\ f.tf = FALSE /\ f.cx = e.cx
      /\ f.seg = e.seg /\ f.rep = e.rep /\ f.trap = e.trap /\ f.stack = s
  BY DEF Enter, EuShape, EuFields
<1> HIDE DEF f, s
<1>3. /\ IsStack(s) /\ Len(e.stack) \in Nat /\ Len(s) = Len(e.stack) + 2
      /\ \A i \in 1 .. Len(e.stack) : s[i] = e.stack[i]
      /\ s[Len(e.stack) + 1] = Flags(e) /\ s[Len(e.stack) + 2] = e.ip
  <2>1. s = e.stack \o <<Flags(e), e.ip>>
    BY DEF s
  <2>2. IsStack(s)
    BY <2>1, PushedFacts
  <2>3. Len(e.stack) \in Nat /\ Len(s) = Len(e.stack) + 2
    BY <2>1, PushedFacts
  <2>4. \A i \in 1 .. Len(e.stack) : s[i] = e.stack[i]
    BY <2>1, PushedFacts
  <2>5. s[Len(e.stack) + 1] = Flags(e)
    BY <2>1, PushedFacts
  <2>6. s[Len(e.stack) + 2] = e.ip
    BY <2>1, PushedFacts
  <2> QED BY <2>2, <2>3, <2>4, <2>5, <2>6
<1> QED BY <1>1, <1>2, <1>3 DEF f, Flags

\* The place of a frame above which another is pushed.
LEMMA FramePlaces ==
  ASSUME NEW n \in Nat, NEW d \in Nat
  PROVE  /\ (n + 2) - 2 * (d + 1) + 1 = n - 2 * d + 1
         /\ (n + 2) - 2 * (d + 1) + 2 = n - 2 * d + 2
         /\ n >= 2 * d => n + 2 >= 2 * (d + 1)
         /\ n >= 2 * d /\ d > 0 => n - 2 * d + 1 \in 1 .. n /\ n - 2 * d + 2 \in 1 .. n
  OBVIOUS

\* The handler stands on a frame of its own, above those of the others.
LEMMA EnterKeeps ==
  ASSUME NEW e, NEW h, Types(e, h), Frames(e, h), Stands(e, h), PrefixWaits(e, h, 2),
         h.stepped \/ Low(e),
         NEW g, HistShape(g), g.depth = h.depth + 1, g.at = h.at, g.ifl = h.ifl,
         g.tf = h.tf, g.rep = h.rep, g.seg = h.seg, g.stepped = h.stepped
  PROVE  /\ Types(Enter(e), g) /\ Frames(Enter(e), g) /\ Stands(Enter(e), g)
         /\ PrefixWaits(Enter(e), g, 2) /\ Enter(e).trap = e.trap
<1> DEFINE f == Enter(e)
           n == Len(e.stack)
<1>1. /\ EuShape(f) /\ f.ip \in Within /\ f.ifl = FALSE /\ f.tf = FALSE /\ f.cx = e.cx
      /\ f.seg = e.seg /\ f.rep = e.rep /\ f.trap = e.trap
      /\ IsStack(f.stack) /\ n \in Nat /\ Len(f.stack) = n + 2
      /\ \A i \in 1 .. n : f.stack[i] = e.stack[i]
      /\ f.stack[n + 1] = <<e.ifl, e.tf>> /\ f.stack[n + 2] = e.ip
  BY EnterFacts DEF Types
<1>2. h.depth \in Nat
  BY DEF Types
<1>n. n \in Nat /\ Len(f.stack) = n + 2
  BY <1>1
<1>s. \A i \in 1 .. n : f.stack[i] = e.stack[i]
  BY <1>1
<1> HIDE DEF f, n
<1>3. Types(f, g)
  BY <1>1 DEF Types
<1>4. Stands(f, g)
  BY <1>1, <1>2 DEF Stands
<1>5. PrefixWaits(f, g, 2)
  BY <1>1, <1>2 DEF PrefixWaits, Low, Types
<1>6. Frames(f, g)
  <2>1. n >= 2 * h.depth
    BY DEF Frames, n
  <2>2. CASE h.depth = 0
    <3>1. e.ifl = h.ifl /\ e.tf = h.tf /\ e.ip = h.at
      BY <2>2 DEF Stands
    <3> QED BY <3>1, <2>2, <1>1 DEF Frames
  <2>3. CASE h.depth > 0
    <3>1. /\ e.stack[n - 2 * h.depth + 1] = <<h.ifl, h.tf>>
          /\ e.stack[n - 2 * h.depth + 2] = h.at
          /\ \A k \in 1 .. h.depth - 1 : /\ e.stack[n - 2 * k + 1][2] = FALSE
                                         /\ e.stack[n - 2 * k + 2] \in Within
      BY <2>3 DEF Frames, n
    <3>2. e.ip \in Within /\ e.tf = FALSE
      BY <2>3 DEF Stands
    <3>3. /\ f.stack[(n + 2) - 2 * (h.depth + 1) + 1] = <<h.ifl, h.tf>>
          /\ f.stack[(n + 2) - 2 * (h.depth + 1) + 2] = h.at
      BY <1>1, <1>2, <1>n, <2>1, <2>3, <3>1, FramePlaces
    <3>4. \A k \in 1 .. h.depth : /\ f.stack[(n + 2) - 2 * k + 1][2] = FALSE
                                  /\ f.stack[(n + 2) - 2 * k + 2] \in Within
      <4> SUFFICES ASSUME NEW k \in 1 .. h.depth
                   PROVE  /\ f.stack[(n + 2) - 2 * k + 1][2] = FALSE
                          /\ f.stack[(n + 2) - 2 * k + 2] \in Within
        OBVIOUS
      <4>1. CASE k = 1
        BY <4>1, <1>1, <3>2
      <4>2. CASE k > 1
        <5>1. k - 1 \in 1 .. h.depth - 1
          BY <4>2, <1>2
        <5>2. /\ e.stack[n - 2 * (k - 1) + 1][2] = FALSE
              /\ e.stack[n - 2 * (k - 1) + 2] \in Within
          BY <5>1, <3>1
        <5>3. k - 1 \in Nat /\ k - 1 > 0 /\ n >= 2 * (k - 1) /\ (k - 1) + 1 = k
          BY <1>n, <1>2, <2>1, <4>2
        <5>4. /\ (n + 2) - 2 * k + 1 = n - 2 * (k - 1) + 1
              /\ (n + 2) - 2 * k + 2 = n - 2 * (k - 1) + 2
              /\ n - 2 * (k - 1) + 1 \in 1 .. n /\ n - 2 * (k - 1) + 2 \in 1 .. n
          <6> DEFINE d == k - 1
          <6>1. d \in Nat /\ d > 0 /\ n >= 2 * d /\ d + 1 = k
            BY <5>3
          <6> HIDE DEF d
          <6>2. /\ (n + 2) - 2 * (d + 1) + 1 = n - 2 * d + 1
                /\ (n + 2) - 2 * (d + 1) + 2 = n - 2 * d + 2
                /\ n - 2 * d + 1 \in 1 .. n /\ n - 2 * d + 2 \in 1 .. n
            BY ONLY <1>n, <6>1, FramePlaces
          <6> QED BY <6>1, <6>2 DEF d
        <5>5. /\ f.stack[n - 2 * (k - 1) + 1] = e.stack[n - 2 * (k - 1) + 1]
              /\ f.stack[n - 2 * (k - 1) + 2] = e.stack[n - 2 * (k - 1) + 2]
          BY ONLY <1>s, <5>4
        <5> QED BY <1>n, <1>2, <5>2, <5>4, <5>5
      <4>3. k = 1 \/ k > 1
        BY <1>2
      <4> QED BY <4>1, <4>2, <4>3
    <3>5. Len(f.stack) >= 2 * g.depth
      BY <1>n, <1>2, <2>1, FramePlaces
    <3>6. g.depth - 1 = h.depth /\ g.depth > 0
      BY <1>2
    <3> QED BY <1>n, <3>3, <3>4, <3>5, <3>6 DEF Frames
  <2> QED BY <1>2, <2>2, <2>3
<1> QED BY <1>1, <1>3, <1>4, <1>5, <1>6 DEF f

\* Where the program stands once an effect of its own is there, or one of a
\* handler's.
Moved(h, op, f) ==
  IF h.depth = 0
  THEN [h EXCEPT !.at = f.ip, !.ifl = f.ifl, !.tf = f.tf, !.due = h.tf,
                 !.rep = op = "rep" \/ (op = "seg" /\ h.rep),
                 !.seg = op = "seg" \/ (op = "rep" /\ h.seg),
                 !.stepped = @ \/ h.tf]
  ELSE IF op = "iret" THEN [h EXCEPT !.depth = @ - 1] ELSE h

\* The fields of the history after it.
LEMMA MovedFacts ==
  ASSUME NEW h, HistShape(h), NEW op, NEW f
  PROVE  LET g == Moved(h, op, f) IN
         /\ h.depth = 0 =>
              /\ HistShape(g) /\ g.depth = 0 /\ g.at = f.ip /\ g.ifl = f.ifl /\ g.tf = f.tf
              /\ g.due = h.tf
              /\ g.rep <=> (op = "rep" \/ (op = "seg" /\ h.rep))
              /\ g.seg <=> (op = "seg" \/ (op = "rep" /\ h.seg))
              /\ g.stepped <=> h.stepped \/ h.tf
         /\ h.depth # 0 /\ op = "iret" =>
              /\ HistShape(g) /\ g.depth = h.depth - 1 /\ g.at = h.at /\ g.ifl = h.ifl
              /\ g.tf = h.tf /\ g.due = h.due /\ g.rep = h.rep /\ g.seg = h.seg
              /\ g.stepped = h.stepped
         /\ h.depth # 0 /\ op # "iret" => g = h
<1> DEFINE r == op = "rep" \/ (op = "seg" /\ h.rep)
           s == op = "seg" \/ (op = "rep" /\ h.seg)
           t == h.stepped \/ h.tf
           m == Moved(h, op, f)
<1>2. h.depth = 0 => m = [h EXCEPT !.at = f.ip, !.ifl = f.ifl, !.tf = f.tf, !.due = h.tf,
                                   !.rep = r, !.seg = s, !.stepped = t]
  BY DEF Moved
<1> HIDE DEF r, s, t, m
<1>4. h.depth = 0 =>
        /\ HistShape(m) /\ m.depth = 0 /\ m.at = f.ip /\ m.ifl = f.ifl /\ m.tf = f.tf
        /\ m.due = h.tf /\ m.rep = r /\ m.seg = s /\ m.stepped = t
  BY <1>2 DEF HistShape, HistFields
<1>3. ASSUME NEW g, g = [h EXCEPT !.depth = @ - 1]
      PROVE  /\ HistShape(g) /\ g.depth = h.depth - 1 /\ g.at = h.at /\ g.ifl = h.ifl
             /\ g.tf = h.tf /\ g.due = h.due /\ g.rep = h.rep /\ g.seg = h.seg
             /\ g.stepped = h.stepped
  BY <1>3 DEF HistShape, HistFields
<1>5. h.depth # 0 /\ op = "iret" => m = [h EXCEPT !.depth = @ - 1]
  BY DEF Moved, m
<1>6. h.depth # 0 /\ op # "iret" => m = h
  BY DEF Moved, m
<1> QED BY <1>3, <1>4, <1>5, <1>6 DEF m, r, s, t

\* What an instruction does to the history it is seen with: the program moves
\* on, a handler stays one, and IRET goes back to what was interrupted.
LEMMA EffectKeeps ==
  ASSUME NEW e, NEW h, Ripe(e, h), e.ip # 0, prog \in DOMAIN Code,
         NEW intr, NEW taken
  PROVE  LET i == Instruction(e)
             f == Effect(i, e, intr, taken)
         IN  /\ After(f, Moved(h, i.op, f))
             /\ i.op \notin {"rep", "seg"} => Low(f)
<1> DEFINE i == Instruction(e)
           f == Effect(i, e, intr, taken)
           g == Moved(h, i.op, f)
           n == Len(e.stack)
<1>1. /\ EuShape(e) /\ HistShape(h) /\ e.cx \in Nat /\ e.rep \in 0 .. 2 /\ e.seg \in 0 .. 2
      /\ IsStack(e.stack) /\ h.depth \in Nat /\ e.rep <= 1 /\ e.seg <= 1
  BY DEF Ripe, Types, Low
<1>2. Does(i, e, f)
  BY <1>1, EffectDoes
<1>3. /\ h.depth > 0 => e.ip \in HandlerCode /\ i.op \in HandlerOps
      /\ h.depth > 0 /\ i.op \notin {"jmp", "iret"} => e.ip + 1 \in HandlerCode
      /\ h.depth > 0 /\ i.op \in {"jmp", "jcc"} => i.arg \in HandlerCode
  <2>1. h.depth > 0 => e.ip \in HandlerCode
    BY <1>1 DEF Ripe, Stands, Within
  <2> QED BY <2>1, HandlerAssumption DEF Instruction
<1>4. /\ h.depth = 0 =>
           /\ HistShape(g) /\ g.depth = 0 /\ g.at = f.ip /\ g.ifl = f.ifl /\ g.tf = f.tf
           /\ g.due = h.tf
           /\ g.rep <=> (i.op = "rep" \/ (i.op = "seg" /\ h.rep))
           /\ g.seg <=> (i.op = "seg" \/ (i.op = "rep" /\ h.seg))
           /\ g.stepped <=> h.stepped \/ h.tf
      /\ h.depth # 0 /\ i.op = "iret" =>
           /\ HistShape(g) /\ g.depth = h.depth - 1 /\ g.at = h.at /\ g.ifl = h.ifl
           /\ g.tf = h.tf /\ g.due = h.due /\ g.rep = h.rep /\ g.seg = h.seg
           /\ g.stepped = h.stepped
      /\ h.depth # 0 /\ i.op # "iret" => g = h
  BY <1>1, MovedFacts
<1>5. n \in Nat
  BY <1>1 DEF IsStack
<1> HIDE DEF i, f, g, n
<1>6. /\ EuShape(f) /\ f.trap = e.trap /\ f.cx \in Nat /\ IsStack(f.stack)
      /\ f.rep \in 0 .. 2 /\ f.seg \in 0 .. 2
      /\ i.op \notin {"rep", "seg"} => f.rep = e.rep /\ f.seg \in 0 .. 1 /\ (f.seg = 1 \/ f.seg = e.seg)
  BY <1>1, <1>2 DEF Does
<1>7. i.op \notin {"rep", "seg"} => Low(f)
  BY <1>1, <1>6 DEF Low
<1>8. CASE h.depth = 0
  <2>1. Types(f, g)
    BY <1>4, <1>6, <1>8 DEF Types
  <2>2. Frames(f, g)
    <3>1. Len(f.stack) \in Nat
      BY <1>6 DEF IsStack
    <3> QED BY <3>1, <1>4, <1>8 DEF Frames
  <2>3. Stands(f, g)
    BY <1>4, <1>8 DEF Stands
  <2>4. TrapWaits(f, g)
    BY <1>4, <1>6, <1>8 DEF TrapWaits, Ripe, TrapLatched
  <2>5. PrefixWaits(f, g, 2)
    <3> SUFFICES ASSUME ~g.stepped
                 PROVE  (g.rep <=> f.rep = 2) /\ (g.seg <=> f.seg = 2)
      BY <1>4, <1>8 DEF PrefixWaits
    <3>1. (h.rep <=> e.rep = 1) /\ (h.seg <=> e.seg = 1)
      BY <1>4, <1>8 DEF Ripe, PrefixWaits
    <3>2. CASE i.op = "rep"
      BY <1>1, <1>2, <1>4, <1>8, <3>1, <3>2 DEF Does
    <3>3. CASE i.op = "seg"
      BY <1>1, <1>2, <1>4, <1>8, <3>1, <3>3 DEF Does
    <3>4. CASE i.op \notin {"rep", "seg"}
      BY <1>1, <1>6, <1>4, <1>8, <3>4
    <3> QED BY <3>2, <3>3, <3>4
  <2> QED BY <1>7, <2>1, <2>2, <2>3, <2>4, <2>5 DEF After, i, f, g
<1>9. CASE h.depth > 0 /\ i.op # "iret"
  <2>1. g = h
    BY <1>1, <1>4, <1>9
  <2>2. /\ f.tf = e.tf /\ f.stack = e.stack
        /\ IF i.op = "jmp" THEN f.ip = i.arg
           ELSE f.ip \in {e.ip, e.ip + 1} \/ (i.op = "jcc" /\ f.ip = i.arg)
    BY <1>2, <1>3, <1>9 DEF Does
  <2>3. f.ip \in HandlerCode
    BY <1>3, <1>9, <2>2
  <2>4. Types(f, h)
    BY <1>1, <1>6 DEF Types
  <2>5. Frames(f, h)
    BY <2>2 DEF Frames, Ripe
  <2>6. Stands(f, h)
    BY <1>9, <2>2, <2>3 DEF Stands, Ripe, Within
  <2>7. TrapWaits(f, h)
    BY <1>6, <1>9 DEF TrapWaits, Ripe, TrapLatched
  <2>8. PrefixWaits(f, h, 2)
    BY <1>9 DEF PrefixWaits, Ripe
  <2> QED BY <1>7, <2>1, <2>4, <2>5, <2>6, <2>7, <2>8 DEF After, i, f, g
<1>10. CASE h.depth > 0 /\ i.op = "iret"
  <2>1. /\ HistShape(g) /\ g.depth = h.depth - 1 /\ g.at = h.at /\ g.ifl = h.ifl
        /\ g.tf = h.tf /\ g.due = h.due /\ g.rep = h.rep /\ g.seg = h.seg
        /\ g.stepped = h.stepped
    BY <1>1, <1>4, <1>10
  <2>2. /\ f.stack = Drop(e.stack, 2) /\ f.ip = e.stack[n]
        /\ f.ifl = e.stack[n - 1][1] /\ f.tf = e.stack[n - 1][2]
    BY <1>2, <1>5, <1>10 DEF Does, Top, n
  <2>3. /\ n >= 2 * h.depth
        /\ e.stack[n - 2 * h.depth + 1] = <<h.ifl, h.tf>>
        /\ e.stack[n - 2 * h.depth + 2] = h.at
        /\ \A k \in 1 .. h.depth - 1 : /\ e.stack[n - 2 * k + 1][2] = FALSE
                                       /\ e.stack[n - 2 * k + 2] \in Within
    BY <1>10 DEF Ripe, Frames, n
  <2>4. Len(f.stack) = n - 2 /\ \A j \in 1 .. n - 2 : f.stack[j] = e.stack[j]
    <3>1. Len(e.stack) >= 2
      BY <1>1, <1>5, <1>10, <2>3 DEF n
    <3>2. /\ Len(Drop(e.stack, 2)) = Len(e.stack) - 2
          /\ \A j \in 1 .. Len(e.stack) - 2 : Drop(e.stack, 2)[j] = e.stack[j]
      BY <1>1, <3>1, DroppedFacts
    <3> QED BY <2>2, <3>2 DEF n
  <2>5. Types(f, g)
    BY <1>1, <1>6, <1>10, <2>1 DEF Types
  <2>6. ~h.stepped => ~h.rep /\ ~h.seg
    BY <1>10 DEF Ripe, PrefixWaits
  <2>7. TrapWaits(f, g)
    BY <1>6, <1>10, <2>1 DEF TrapWaits, Ripe, TrapLatched
  <2>8. PrefixWaits(f, g, 2)
    BY <1>1, <1>6, <1>10, <2>1, <2>6 DEF PrefixWaits
  <2>9. CASE h.depth = 1
    <3>1. f.ip = h.at /\ f.ifl = h.ifl /\ f.tf = h.tf
      <4>1. n - 2 * h.depth + 1 = n - 1 /\ n - 2 * h.depth + 2 = n
        BY <1>5, <2>9
      <4>2. e.stack[n - 1] = <<h.ifl, h.tf>> /\ e.stack[n] = h.at
        BY <2>3, <4>1
      <4> QED BY <2>2, <4>2
    <3>2. Stands(f, g) /\ Frames(f, g)
      BY <1>5, <2>1, <2>3, <2>4, <2>9, <3>1 DEF Stands, Frames
    <3> QED BY <1>7, <2>5, <2>7, <2>8, <3>2 DEF After, i, f, g
  <2>10. CASE h.depth > 1
    <3> DEFINE d == h.depth - 1
    <3>d. d \in Nat /\ d > 0 /\ h.depth = d + 1 /\ g.depth = d /\ n >= 2 * (d + 1)
      BY <1>1, <2>1, <2>3, <2>10
    <3> HIDE DEF d
    <3>1. f.ip \in Within /\ f.tf = FALSE
      <4>1. 1 \in 1 .. h.depth - 1
        BY <1>1, <2>10
      <4>2. /\ e.stack[n - 2 * 1 + 1][2] = FALSE
            /\ e.stack[n - 2 * 1 + 2] \in Within
        BY <2>3, <4>1
      <4> QED BY <1>5, <2>2, <4>2
    <3>2. Stands(f, g)
      BY <3>d, <3>1 DEF Stands
    <3>3. ASSUME NEW k \in 1 .. d
          PROVE  /\ f.stack[(n - 2) - 2 * k + 1] = e.stack[n - 2 * (k + 1) + 1]
                 /\ f.stack[(n - 2) - 2 * k + 2] = e.stack[n - 2 * (k + 1) + 2]
      <4>1. /\ (n - 2) - 2 * k + 1 = n - 2 * (k + 1) + 1
            /\ (n - 2) - 2 * k + 2 = n - 2 * (k + 1) + 2
            /\ (n - 2) - 2 * k + 1 \in 1 .. n - 2 /\ (n - 2) - 2 * k + 2 \in 1 .. n - 2
        BY <1>5, <3>d
      <4> QED BY <2>4, <4>1
    <3>4. /\ f.stack[(n - 2) - 2 * d + 1] = <<h.ifl, h.tf>>
          /\ f.stack[(n - 2) - 2 * d + 2] = h.at
      <4>1. d \in 1 .. d
        BY <3>d
      <4> QED BY <2>3, <3>d, <3>3, <4>1
    <3>5. \A k \in 1 .. d - 1 : /\ f.stack[(n - 2) - 2 * k + 1][2] = FALSE
                                /\ f.stack[(n - 2) - 2 * k + 2] \in Within
      <4> SUFFICES ASSUME NEW k \in 1 .. d - 1
                   PROVE  /\ f.stack[(n - 2) - 2 * k + 1][2] = FALSE
                          /\ f.stack[(n - 2) - 2 * k + 2] \in Within
        OBVIOUS
      <4>1. k + 1 \in 1 .. h.depth - 1 /\ k \in 1 .. d
        BY <3>d
      <4>2. /\ e.stack[n - 2 * (k + 1) + 1][2] = FALSE
            /\ e.stack[n - 2 * (k + 1) + 2] \in Within
        BY <2>3, <4>1
      <4> QED BY <3>3, <4>1, <4>2
    <3>6. Len(f.stack) >= 2 * d
      BY <1>5, <2>4, <3>d
    <3>7. Frames(f, g)
      BY <2>1, <2>4, <3>d, <3>4, <3>5, <3>6 DEF Frames
    <3> QED BY <1>7, <2>5, <2>7, <2>8, <3>2, <3>7 DEF After, i, f, g
  <2>11. h.depth = 1 \/ h.depth > 1
    BY <1>1, <1>10
  <2> QED BY <2>9, <2>10, <2>11
<1>11. h.depth = 0 \/ h.depth > 0
  BY <1>1
<1> QED BY <1>8, <1>9, <1>10, <1>11

\* The history follows CS:IP, IF and TF only.
LEMMA MovedAlike ==
  ASSUME NEW h, NEW op, NEW f, NEW x, f.ip = x.ip, f.ifl = x.ifl, f.tf = x.tf
  PROVE  Moved(h, op, f) = Moved(h, op, x)
  BY DEF Moved

\* An instruction takes effect, and what may follow it is asked for.
LEMMA ExecutedKeeps ==
  ASSUME NEW e, NEW h, Ripe(e, h), e.ip # 0, prog \in DOMAIN Code,
         NEW intr, NEW taken
  PROVE  EuInv(Executed(e, intr, taken),
               Moved(h, Instruction(e).op, Executed(e, intr, taken)))
<1> DEFINE i == Instruction(e)
           x == Effect(i, e, intr, taken)
           f == Executed(e, intr, taken)
<1>1. After(x, Moved(h, i.op, x)) /\ (i.op \notin {"rep", "seg"} => Low(x))
  BY EffectKeeps
<1>2. EuShape(e) /\ EuShape(x)
  BY <1>1 DEF Ripe, After, Types
<1> HIDE DEF x
<1>3. CASE i.op \in {"int", "int3"}
  <2>1. x = Next1(e)
    BY <1>3 DEF x, Effect
  <2>2. f = Software(i, e)
    BY <1>3 DEF Executed
  <2> HIDE DEF i, f
  <2>3. /\ Alike(f, x) /\ f.doing = "software"
    <3>1. CASE i.op = "int"
      <4>1. f = Dispatch(x, "software", i.arg)
        BY <2>1, <2>2, <3>1 DEF Software
      <4> QED BY <4>1, <1>2, DispatchFacts
    <3>2. CASE i.op = "int3"
      <4> DEFINE d == Dispatch(x, "software", 3)
                 b == d.brk \/ Entry(3) = 0
      <4>1. f = [d EXCEPT !.brk = b]
        BY <2>1, <2>2, <3>2 DEF Software
      <4>2. /\ Alike(d, x) /\ d.doing = "software"
        BY <1>2, DispatchFacts
      <4> HIDE DEF d, b
      <4>3. Alike(f, x) /\ f.doing = d.doing
        BY <4>1, <4>2 DEF Alike, EuShape, EuFields
      <4> QED BY <4>2, <4>3
    <3> QED BY <1>3, <3>1, <3>2
  <2>4. Moved(h, i.op, f) = Moved(h, i.op, x)
    BY <2>3, MovedAlike DEF Alike
  <2>5. After(f, Moved(h, i.op, f)) /\ Low(f)
    BY <1>1, <1>3, <2>3, <2>4, AlikeKeeps
  <2>6. EuInv(f, Moved(h, i.op, f))
    BY <2>3, <2>5 DEF EuInv, Doings, Handling
  <2> QED BY <2>6 DEF i, f
<1>4. CASE i.op \notin {"int", "int3"}
  <2> DEFINE error == i.op = "div" /\ i.arg = 0
  <2>1. f = Finish(x, error, intr)
    BY <1>4 DEF Executed, x
  <2>2. error \in BOOLEAN /\ (error => Low(x))
    BY <1>1
  <2> HIDE DEF error, i, f
  <2>3. /\ EuInv(f, Moved(h, i.op, x))
        /\ f.ip = x.ip /\ f.ifl = x.ifl /\ f.tf = x.tf
    BY <1>1, <2>1, <2>2, FinishKeeps
  <2>4. Moved(h, i.op, f) = Moved(h, i.op, x)
    BY <2>3, MovedAlike
  <2> QED BY <2>3, <2>4 DEF i, f
<1> QED BY <1>3, <1>4

\* The prefixes count down: what was 2 is 1, and nothing is more.
LEMMA CountedKeeps ==
  ASSUME NEW e, NEW h, Between(e, h)
  PROVE  Ripe(Counted(e), h) /\ Counted(e).ip = e.ip
<1> DEFINE f == Counted(e)
<1>1. EuShape(e) /\ e.rep \in 0 .. 2 /\ e.seg \in 0 .. 2
  BY DEF Between, Types
<1>2. /\ EuShape(f) /\ f.ip = e.ip /\ f.ifl = e.ifl /\ f.tf = e.tf /\ f.cx = e.cx
      /\ f.stack = e.stack /\ f.trap = e.trap
      /\ f.seg = (IF e.seg > 0 THEN e.seg - 1 ELSE 0)
      /\ f.rep = (IF e.rep > 0 THEN e.rep - 1 ELSE 0)
  BY <1>1 DEF Counted, EuShape, EuFields
<1> HIDE DEF f
<1>3. /\ f.rep \in 0 .. 1 /\ f.seg \in 0 .. 1
      /\ f.rep = 1 <=> e.rep = 2
      /\ f.seg = 1 <=> e.seg = 2
  BY <1>1, <1>2
<1>4. Types(f, h) /\ Low(f)
  BY <1>2, <1>3 DEF Between, Types, Low
<1>5. Frames(f, h) /\ Stands(f, h) /\ TrapLatched(f, h)
  BY <1>2 DEF Between, Frames, Stands, TrapLatched
<1>6. PrefixWaits(f, h, 1)
  BY <1>3 DEF Between, PrefixWaits
<1> QED BY <1>2, <1>4, <1>5, <1>6 DEF Ripe, f

\* What is witnessed of an instruction, of a handler entered, of the rest.
LEMMA WitnessedFacts ==
  ASSUME NEW h, h.depth \in Nat, NEW e, NEW f
  PROVE  /\ Completes(e) => Witnessed(h, e, f) = Moved(h, Instruction(e).op, f)
         /\ ~Completes(e) /\ ~Entered(e) => Witnessed(h, e, f) = h
         /\ Entered(e) => Witnessed(h, e, f) = Interrupted(h, e)
<1>1. Completes(e) => ~Entered(e)
  BY DEF Completes, Entered, Handling
<1>2. Completes(e) => Witnessed(h, e, f) = Moved(h, Instruction(e).op, f)
  <2>1. CASE Completes(e) /\ h.depth = 0
    BY <1>1, <2>1 DEF Witnessed, Moved
  <2>2. CASE Completes(e) /\ h.depth > 0 /\ Instruction(e).op = "iret"
    BY <1>1, <2>2 DEF Witnessed, Moved
  <2>3. CASE Completes(e) /\ h.depth > 0 /\ Instruction(e).op # "iret"
    BY <1>1, <2>3 DEF Witnessed, Moved
  <2>4. h.depth = 0 \/ h.depth > 0
    OBVIOUS
  <2> QED BY <2>1, <2>2, <2>3, <2>4
<1>3. ~Completes(e) /\ ~Entered(e) => Witnessed(h, e, f) = h
  BY DEF Witnessed
<1>4. Entered(e) => Witnessed(h, e, f) = Interrupted(h, e)
  BY <1>1 DEF Witnessed
<1> QED BY <1>2, <1>3, <1>4

\* The history as a handler is entered.
LEMMA EnteredFacts ==
  ASSUME NEW h, HistShape(h), NEW e
  PROVE  LET g == Interrupted(h, e) IN
         /\ HistShape(g) /\ g.depth = h.depth + 1 /\ g.at = h.at
         /\ g.ifl = h.ifl /\ g.tf = h.tf /\ g.rep = h.rep /\ g.seg = h.seg
         /\ g.stepped = h.stepped
         /\ e.doing = "trap" => ~g.due
         /\ e.doing # "trap" => g.due = h.due
<1> DEFINE g == Interrupted(h, e)
<1>1. CASE e.doing = "trap"
  <2>1. g = [h EXCEPT !.depth = @ + 1, !.due = FALSE]
    BY <1>1 DEF Interrupted
  <2> HIDE DEF g
  <2> QED BY <1>1, <2>1 DEF g, HistShape, HistFields
<1>2. CASE e.doing # "trap"
  <2>1. g = [h EXCEPT !.depth = @ + 1]
    BY <1>2 DEF Interrupted, HistShape, HistFields
  <2> HIDE DEF g
  <2> QED BY <1>2, <2>1 DEF g, HistShape, HistFields
<1> QED BY <1>1, <1>2

\* A handler is entered: by a program, a handler, a divide error or a trap.
LEMMA HandledKeeps ==
  ASSUME NEW e, NEW h, EuInv(e, h), e.doing \in Handling, Entered(e), NEW intr,
         NEW irq, NEW taken
  PROVE  EuInv(Answered(e, intr, irq, taken), Interrupted(h, e))
<1> DEFINE x == Enter(e)
           g == Interrupted(h, e)
<1>1. CASE e.doing \in {"software", "divide"}
  <2>1. After(e, h) /\ Low(e)
    BY <1>1 DEF EuInv
  <2>2. /\ HistShape(g) /\ g.depth = h.depth + 1 /\ g.at = h.at
        /\ g.ifl = h.ifl /\ g.tf = h.tf /\ g.rep = h.rep /\ g.seg = h.seg
        /\ g.stepped = h.stepped /\ g.due = h.due
    BY <1>1, <2>1, EnteredFacts DEF After, Types
  <2> HIDE DEF x, g
  <2>3. /\ Types(x, g) /\ Frames(x, g) /\ Stands(x, g)
        /\ PrefixWaits(x, g, 2) /\ x.trap = e.trap
    BY <2>1, <2>2, EnterKeeps DEF After, x
  <2>4. TrapWaits(x, g)
    BY <2>1, <2>2, <2>3 DEF After, TrapWaits
  <2>5. CASE e.doing = "software"
    <3>1. After(x, g)
      BY <2>3, <2>4 DEF After
    <3>2. EuInv(Finish(x, FALSE, intr), g)
      BY <3>1, FinishKeeps
    <3> QED BY <2>5, <3>2 DEF Answered, x, g
  <2>6. CASE e.doing = "divide"
    <3>1. TrapLatched(x, g)
      BY <2>1, <2>2, <2>4 DEF After, Types, TrapLatched, TrapWaits
    <3>2. Between(x, g)
      BY <2>3, <3>1 DEF Between
    <3>3. EuInv(Begin(x), g)
      BY <3>2, BeginKeeps
    <3> QED BY <2>6, <3>3 DEF Answered, x, g
  <2> QED BY <1>1, <2>5, <2>6
<1>2. CASE e.doing = "trap"
  <2>1. After(e, h) /\ e.trap
    BY <1>2 DEF EuInv
  <2>2. /\ HistShape(g) /\ g.depth = h.depth + 1 /\ g.at = h.at
        /\ g.ifl = h.ifl /\ g.tf = h.tf /\ g.rep = h.rep /\ g.seg = h.seg
        /\ g.stepped = h.stepped /\ ~g.due
    BY <1>2, <2>1, EnteredFacts DEF After, Types
  <2>3. h.stepped
    BY <2>1 DEF After, TrapWaits
  <2> HIDE DEF x, g
  <2>4. Types(x, g) /\ Frames(x, g) /\ Stands(x, g) /\ PrefixWaits(x, g, 2)
    BY <2>1, <2>2, <2>3, EnterKeeps DEF After, x
  <2>5. Between(Latched(x), g)
    BY <2>2, <2>4, LatchedKeeps
  <2>6. EuInv(Samples(Latched(x), intr), g)
    BY <2>5, SamplesKeeps
  <2> QED BY <1>2, <2>6 DEF Answered, x, g
<1>3. CASE e.doing = "irq"
  <2>1. Between(e, h) /\ e.rep = 0 /\ e.seg = 0 /\ ~e.tf
    BY <1>3 DEF EuInv
  <2>2. /\ HistShape(g) /\ g.depth = h.depth + 1 /\ g.at = h.at
        /\ g.ifl = h.ifl /\ g.tf = h.tf /\ g.rep = h.rep /\ g.seg = h.seg
        /\ g.stepped = h.stepped /\ g.due = h.due
    BY <1>3, <2>1, EnteredFacts DEF Between, Types
  <2> HIDE DEF x, g
  <2>3. Low(e)
    BY <2>1 DEF Low
  <2>4. /\ Types(x, g) /\ Frames(x, g) /\ Stands(x, g)
        /\ PrefixWaits(x, g, 2) /\ x.trap = e.trap
    BY <2>1, <2>2, <2>3, EnterKeeps DEF Between, x
  <2>5. TrapLatched(x, g)
    BY <2>1, <2>2, <2>4 DEF Between, Types, TrapLatched, Stands
  <2>6. Between(x, g)
    BY <2>4, <2>5 DEF Between
  <2>7. EuInv(Begin(x), g)
    BY <2>6, BeginKeeps
  <2> QED BY <1>3, <2>7 DEF Answered, x, g
<1> QED BY <1>1, <1>2, <1>3 DEF Handling

\* The execution unit, resumed with the answer of a cycle.
LEMMA ResumedKeeps ==
  ASSUME NEW e, NEW h, EuInv(e, h), e.doing # "halted", prog \in DOMAIN Code,
         NEW intr, NEW irq, NEW taken
  PROVE  EuInv(Resumed(e, intr, irq, taken),
               Witnessed(h, e, Resumed(e, intr, irq, taken)))
<1> DEFINE f == Resumed(e, intr, irq, taken)
<1>1. h.depth \in Nat /\ EuShape(e)
  BY DEF EuInv, Doings, Handling, Between, Ripe, After, Types
<1>2. CASE More(e)
  <2> DEFINE t == Tail(e.todo)
  <2>1. f = [e EXCEPT !.todo = t]
    BY <1>2 DEF Resumed
  <2>2. Witnessed(h, e, f) = h
    <3>1. ~Completes(e) /\ ~Entered(e)
      BY <1>2 DEF Completes, Entered
    <3> QED BY <1>1, <3>1, WitnessedFacts
  <2> HIDE DEF f, t
  <2>4. Alike(f, e) /\ f.doing = e.doing /\ f.todo = t
    BY <1>1, <2>1 DEF Alike, EuShape, EuFields
  <2>5. EuInv(f, h)
    BY <2>4, AlikeKeeps DEF EuInv, Alike
  <2> QED BY <2>2, <2>5 DEF f
<1>3. CASE ~More(e)
  <2>1. f = Answered(e, intr, irq, taken)
    BY <1>3 DEF Resumed
  <2>2. CASE e.doing \in {"begin", "inta"}
    <3>1. ~Completes(e) /\ ~Entered(e)
      BY <2>2 DEF Completes, Entered, Handling
    <3>2. Witnessed(h, e, f) = h
      BY <1>1, <3>1, WitnessedFacts
    <3>3. CASE e.doing = "begin"
      BY <2>1, <3>2, <3>3, BeginKeeps DEF Answered, EuInv
    <3>4. CASE e.doing = "inta"
      <4>1. f = Dispatch(e, "irq", irq)
        BY <2>1, <3>4 DEF Answered
      <4> HIDE DEF f
      <4>2. /\ Alike(f, e) /\ f.doing = "irq"
        BY <1>1, <4>1, DispatchFacts
      <4>3. Between(e, h) /\ e.rep = 0 /\ e.seg = 0 /\ ~e.tf
        BY <3>4 DEF EuInv
      <4>4. Between(f, h) /\ f.rep = 0 /\ f.seg = 0 /\ ~f.tf
        BY <4>2, <4>3, AlikeKeeps DEF Alike
      <4>5. EuInv(f, h)
        BY <4>2, <4>4 DEF EuInv, Doings, Handling
      <4> QED BY <3>2, <4>5 DEF f
    <3> QED BY <2>2, <3>3, <3>4
  <2>3. CASE e.doing = "fetch"
    <3> DEFINE d == Counted(e)
               ops == Cycles(Instruction(e), d)
    <3>1. Between(e, h) /\ e.ip # 0
      BY <2>3 DEF EuInv
    <3>2. Ripe(d, h) /\ d.ip = e.ip
      BY <3>1, CountedKeeps
    <3>3. Instruction(d) = Instruction(e)
      BY <3>2 DEF Instruction
    <3>4. CASE ops = <<>>
      <4>1. f = Executed(d, intr, taken)
        BY <2>1, <2>3, <3>3, <3>4 DEF Answered, Decoded
      <4>2. Completes(e)
        BY <1>1, <1>3, <2>3, <3>4 DEF Completes
      <4> QED BY <1>1, <3>1, <3>2, <3>3, <4>1, <4>2, WitnessedFacts, ExecutedKeeps
    <3>5. CASE ops # <<>>
      <4>1. f = Asks(d, "execute", ops)
        BY <2>1, <2>3, <3>5 DEF Answered, Decoded
      <4>2. Witnessed(h, e, f) = h
        <5>1. ~Completes(e) /\ ~Entered(e)
          BY <2>3, <3>5 DEF Completes, Entered, Handling
        <5> QED BY <1>1, <5>1, WitnessedFacts
      <4>3. EuShape(d)
        BY <3>2 DEF Ripe, Types
      <4> HIDE DEF d, ops, f
      <4>4. Alike(f, d) /\ f.doing = "execute"
        BY <4>1, <4>3, AsksFacts
      <4>5. Ripe(f, h) /\ f.ip # 0
        BY <3>1, <3>2, <4>4, AlikeKeeps DEF Alike
      <4>6. EuInv(f, h)
        BY <4>4, <4>5 DEF EuInv, Doings, Handling
      <4> QED BY <4>2, <4>6 DEF f
    <3> QED BY <3>4, <3>5
  <2>4. CASE e.doing = "execute"
    <3>1. Ripe(e, h) /\ e.ip # 0
      BY <2>4 DEF EuInv
    <3>2. f = Executed(e, intr, taken)
      BY <2>1, <2>4 DEF Answered
    <3>3. Completes(e)
      BY <1>3, <2>4 DEF Completes
    <3> QED BY <1>1, <3>1, <3>2, <3>3, WitnessedFacts, ExecutedKeeps
  <2>5. CASE e.doing \in Handling
    <3>1. Entered(e)
      BY <1>3, <2>5 DEF Entered
    <3>2. EuInv(f, Interrupted(h, e))
      BY <2>1, <2>5, <3>1, HandledKeeps
    <3> QED BY <1>1, <3>1, <3>2, WitnessedFacts
  <2> QED BY <2>2, <2>3, <2>4, <2>5 DEF EuInv, Doings
<1> QED BY <1>2, <1>3

\* The latch of NMI is set in every clock; nothing else is.
LEMMA CheckNmiFacts ==
  ASSUME NEW e, EuShape(e)
  PROVE  /\ Alike(CheckNmi(e), e)
         /\ CheckNmi(e).doing = e.doing /\ CheckNmi(e).todo = e.todo
<1> DEFINE a == e.nmi \/ (lines'.nmi /\ ~e.prev)
           b == lines'.nmi
           f == CheckNmi(e)
<1>1. f = [e EXCEPT !.nmi = a, !.prev = b]
  BY DEF CheckNmi
<1> HIDE DEF a, b, f
<1>2. Alike(f, e) /\ f.doing = e.doing /\ f.todo = e.todo
  BY <1>1 DEF Alike, EuShape, EuFields
<1> QED BY <1>2 DEF f

\* So the execution unit stays what it is.
LEMMA CheckNmiKeeps ==
  ASSUME NEW e, NEW h, EuInv(e, h)
  PROVE  EuInv(CheckNmi(e), h) /\ CheckNmi(e).doing = e.doing
<1> DEFINE f == CheckNmi(e)
<1>1. EuShape(e)
  BY DEF EuInv, Doings, Handling, Between, Ripe, After, Types
<1>2. Alike(f, e) /\ f.doing = e.doing
  BY <1>1, CheckNmiFacts
<1> HIDE DEF f
<1>3. EuInv(f, h)
  BY <1>2, AlikeKeeps DEF EuInv, Alike
<1> QED BY <1>2, <1>3 DEF f

\* Nor does the history see it.
LEMMA WitnessedAlike ==
  ASSUME NEW h, NEW e, NEW c, NEW f, EuShape(e), Alike(c, e),
         c.doing = e.doing, c.todo = e.todo
  PROVE  Witnessed(h, e, f) = Witnessed(h, c, f)
<1>1. Instruction(c) = Instruction(e)
  BY DEF Instruction, Alike
<1>2. /\ Counted(e).rep = (IF e.rep > 0 THEN e.rep - 1 ELSE 0) /\ Counted(e).cx = e.cx
      /\ Counted(c).rep = (IF c.rep > 0 THEN c.rep - 1 ELSE 0) /\ Counted(c).cx = c.cx
  BY DEF Counted, Alike, EuShape, EuFields
<1>3. Counted(c).rep = Counted(e).rep /\ Counted(c).cx = Counted(e).cx
  BY <1>2 DEF Alike
<1>4. StringCycles(Counted(c)) = StringCycles(Counted(e))
  BY <1>3 DEF StringCycles
<1>5. Cycles(Instruction(c), Counted(c)) = Cycles(Instruction(e), Counted(e))
  BY <1>1, <1>4 DEF Cycles
<1>6. More(c) <=> More(e)
  BY DEF More
<1>7. (Completes(c) <=> Completes(e)) /\ (Entered(c) <=> Entered(e))
  BY <1>5, <1>6 DEF Completes, Entered
<1>8. Interrupted(h, c) = Interrupted(h, e)
  BY DEF Interrupted
<1> QED BY <1>1, <1>7, <1>8 DEF Witnessed

\* RESET starts the program again, with nothing on the stack.
LEMMA FreshInv ==
  ASSUME NEW v, NEW e, EuShape(e), e.ip = v, e.ifl = FALSE, e.tf = FALSE, e.cx = 0,
         e.stack = <<>>, e.seg = 0, e.rep = 0, e.trap = FALSE, e.doing = "begin"
  PROVE  EuInv(e, Fresh(v))
<1> DEFINE h == Fresh(v)
<1>1. /\ HistShape(h) /\ h.depth = 0 /\ h.at = v /\ h.ifl = FALSE /\ h.tf = FALSE
      /\ h.rep = FALSE /\ h.seg = FALSE /\ h.due = FALSE /\ h.stepped = FALSE
  BY DEF Fresh, HistShape, HistFields
<1> HIDE DEF h
<1>2. IsStack(e.stack) /\ Len(e.stack) = 0
  <2>1. <<>> \in Seq({})
    OBVIOUS
  <2> QED BY <2>1 DEF IsStack
<1>3. Types(e, h)
  BY <1>1, <1>2 DEF Types
<1>4. Frames(e, h)
  BY <1>1, <1>2 DEF Frames
<1>5. Stands(e, h) /\ TrapLatched(e, h)
  BY <1>1 DEF Stands, TrapLatched
<1>6. PrefixWaits(e, h, 2)
  BY <1>1 DEF PrefixWaits
<1>7. Between(e, h)
  BY <1>3, <1>4, <1>5, <1>6 DEF Between
<1> QED BY <1>7 DEF EuInv, Doings, Handling, h

\* The top of the loop of the bus interface unit.
LEMMA LoopKeeps ==
  ASSUME NEW e, NEW h, EuInv(e, h), e.doing # "halted", prog \in DOMAIN Code,
         biu = [x \in BiuFields |-> biu[x]], Loop(e, h)
  PROVE  /\ EuInv(eu', hist')
         /\ eu'.doing = "halted" => biu'.at = "done"
         /\ biu'.at \in {"done", "held", "break", "T1"}
         /\ biu' = [x \in BiuFields |-> biu'[x]]
<1>1. EuShape(e)
  BY DEF EuInv, Doings, Handling, Between, Ripe, After, Types
<1>2. \A place : At(place).at = place /\ At(place) = [x \in BiuFields |-> At(place)[x]]
  BY DEF At, BiuFields
<1>3. CASE ~lines'.vcc /\ biu' = At("done") /\ eu' = e /\ hist' = h
  BY <1>2, <1>3
<1>4. CASE /\ biu' = At("held") /\ hist' = Fresh(start)
           /\ eu' = [Registers(start) EXCEPT !.prev = e.prev]
  <2>1. /\ EuShape(eu') /\ eu'.ip = start /\ eu'.ifl = FALSE /\ eu'.tf = FALSE /\ eu'.cx = 0
        /\ eu'.stack = <<>> /\ eu'.seg = 0 /\ eu'.rep = 0 /\ eu'.trap = FALSE
        /\ eu'.doing = "begin"
    BY <1>4 DEF Registers, EuShape, EuFields
  <2>2. EuInv(eu', hist')
    BY <1>4, <2>1, FreshInv
  <2> QED BY <1>2, <1>4, <2>1, <2>2
<1>5. CASE biu' = At("break") /\ eu' = CheckNmi(e) /\ hist' = h
  BY <1>2, <1>5, CheckNmiKeeps
<1>6. ASSUME NEW irq \in Irqs, NEW taken \in BOOLEAN,
             NEW f, f = Resumed(CheckNmi(e), lines'.intr, irq, taken),
             eu' = f, hist' = Witnessed(h, e, f),
             IF f.doing = "halted"
             THEN biu' = At("done") /\ bus' = [status |-> "PASSIVE", dir |-> "T2_Read"]
             ELSE Starts1(f)
      PROVE  /\ EuInv(eu', hist')
             /\ eu'.doing = "halted" => biu'.at = "done"
             /\ biu'.at \in {"done", "held", "break", "T1"}
             /\ biu' = [x \in BiuFields |-> biu'[x]]
  <2> DEFINE c == CheckNmi(e)
  <2>1. EuInv(c, h) /\ c.doing # "halted"
    BY CheckNmiKeeps
  <2>2. Witnessed(h, e, f) = Witnessed(h, c, f)
    BY <1>1, CheckNmiFacts, WitnessedAlike
  <2> HIDE DEF c
  <2>3. EuInv(f, Witnessed(h, c, f))
    BY <1>6, <2>1, ResumedKeeps DEF c
  <2>4. f.doing # "halted" => biu' = [at |-> "T1", pulse |-> 1]
    BY <1>6 DEF Starts1
  <2> QED BY <1>2, <1>6, <2>2, <2>3, <2>4 DEF BiuFields
<1> QED BY <1>3, <1>4, <1>5, <1>6 DEF Loop

(***************************************************************************)
(* The invariant.                                                          *)
(***************************************************************************)
\* The board's processor stands at its reset vector.
LEMMA InitInv == Init => ProcessorInv
<1> SUFFICES ASSUME Init
             PROVE  ProcessorInv
  OBVIOUS
<1>1. /\ EuShape(eu) /\ eu.ip = FirstStart /\ eu.ifl = FALSE /\ eu.tf = FALSE /\ eu.cx = 0
      /\ eu.stack = <<>> /\ eu.seg = 0 /\ eu.rep = 0 /\ eu.trap = FALSE
      /\ eu.doing = "begin"
  BY DEF Init, Registers, EuShape, EuFields
<1>2. EuInv(eu, hist)
  BY <1>1, FreshInv DEF Init
<1> QED BY <1>1, <1>2 DEF Init, ProcessorInv, BiuFields, LineFields

\* The lines move, power and use do not.
LEMMA PinsFacts ==
  ASSUME Pins, lines = [x \in LineFields |-> lines[x]]
  PROVE  /\ lines'.used = lines.used /\ lines' = [x \in LineFields |-> lines'[x]]
<1>1. PICK a, b, c \in BOOLEAN :
        lines' = [lines EXCEPT !.intr = a, !.nmi = b, !.reset = c,
                    !.intrs = Bumped(lines.intr, a, @), !.nmis = Bumped(lines.nmi, b, @),
                    !.resets = Bumped(lines.reset, c, @)]
  BY DEF Pins
<1> DEFINE i == Bumped(lines.intr, a, lines.intrs)
           j == Bumped(lines.nmi, b, lines.nmis)
           k == Bumped(lines.reset, c, lines.resets)
<1>2. lines' = [lines EXCEPT !.intr = a, !.nmi = b, !.reset = c,
                  !.intrs = i, !.nmis = j, !.resets = k]
  BY <1>1
<1> HIDE DEF i, j, k
<1> QED BY <1>2 DEF LineFields

\* Within a bus cycle only the latch of NMI moves.
LEMMA WithinCycle ==
  ASSUME ProcessorInv, prog' = prog, lines' = [x \in LineFields |-> lines'[x]],
         lines'.used = lines.used, biu.at \notin {"off", "vcc", "reset", "done"},
         biu'.at \notin {"off", "vcc", "reset", "done"},
         biu' = [x \in BiuFields |-> biu'[x]], eu' = CheckNmi(eu), hist' = hist
  PROVE  ProcessorInv'
<1>1. EuInv(eu', hist') /\ eu'.doing = eu.doing
  BY CheckNmiKeeps DEF ProcessorInv
<1> QED BY <1>1 DEF ProcessorInv

\* Every resumption of the bus interface unit keeps the invariant.
LEMMA ClockKeeps ==
  ASSUME ProcessorInv, Clock
  PROVE  ProcessorInv'
<1>1. prog' = prog /\ lines'.used = lines.used /\ lines' = [x \in LineFields |-> lines'[x]]
  <2>1. Pins
    BY DEF Clock, Await, Held, Broken, TurnBus, DropStatus, WaitState, Ready,
           SecondPulse, CycleEnds
  <2> QED BY <2>1, PinsFacts DEF Clock, ProcessorInv
<1>2. \A place : At(place).at = place /\ At(place) = [x \in BiuFields |-> At(place)[x]]
  BY DEF ProcessorInv, At, BiuFields
<1>3. biu.at # "off" => lines.used
  BY DEF ProcessorInv
<1>4. ASSUME NEW e, EuInv(e, hist), e.doing # "halted", Loop(e, hist), biu.at # "off"
      PROVE  ProcessorInv'
  <2>1. /\ EuInv(eu', hist')
        /\ eu'.doing = "halted" => biu'.at = "done"
        /\ biu'.at \in {"done", "held", "break", "T1"}
        /\ biu' = [x \in BiuFields |-> biu'[x]]
    BY <1>4, LoopKeeps DEF ProcessorInv
  <2> QED BY <1>1, <1>3, <1>4, <2>1 DEF ProcessorInv
<1>5. ASSUME Loop(eu, hist), biu.at \notin {"off", "done"}
      PROVE  ProcessorInv'
  <2>1. EuInv(eu, hist) /\ eu.doing # "halted"
    BY <1>5 DEF ProcessorInv
  <2> QED BY <1>4, <1>5, <2>1
<1>6. CASE Await
  <2> DEFINE e == [eu EXCEPT !.doing = "begin", !.todo = <<>>]
  <2>1. eu.doing = "begin" /\ EuInv(eu, hist) /\ Between(eu, hist)
    BY <1>6 DEF Await, ProcessorInv, EuInv
  <2>2. Alike(e, eu) /\ e.doing = "begin"
    BY <2>1 DEF Between, Types, Alike, EuShape, EuFields
  <2>3. Loop(e, hist) \/ (biu' \in {At("reset"), At("vcc")} /\ eu' = eu /\ hist' = hist)
    BY <1>6 DEF Await
  <2>4. biu.at \in {"vcc", "reset"}
    BY <1>6 DEF Await
  <2> HIDE DEF e
  <2>5. EuInv(e, hist)
    BY <2>1, <2>2, AlikeKeeps DEF EuInv, Doings, Handling
  <2>6. CASE Loop(e, hist)
    BY <1>4, <2>2, <2>4, <2>5, <2>6
  <2>7. CASE biu' \in {At("reset"), At("vcc")} /\ eu' = eu /\ hist' = hist
    BY <1>1, <1>2, <1>3, <2>1, <2>4, <2>7 DEF ProcessorInv
  <2> QED BY <2>3, <2>6, <2>7
<1>7. CASE Held
  <2>1. CASE Loop(eu, hist)
    BY <1>5, <1>7, <2>1 DEF Held
  <2>2. CASE UNCHANGED <<biu, bus, eu, hist>>
    BY <1>1, <2>2 DEF ProcessorInv
  <2> QED BY <1>7, <2>1, <2>2 DEF Held
<1>8. CASE Broken
  BY <1>5, <1>8 DEF Broken
<1>9. CASE TurnBus \/ DropStatus \/ WaitState \/ Ready
  <2>1. /\ biu.at \in {"T1", "T2", "T3", "Tw"} /\ eu' = CheckNmi(eu) /\ hist' = hist
        /\ biu' \in {At("T2"), At("T3"), At("Tw"), At("T4")}
    BY <1>9 DEF TurnBus, DropStatus, WaitState, Ready
  <2> QED BY <1>1, <1>2, <2>1, WithinCycle
<1>10. CASE SecondPulse
  <2>1. /\ biu.at = "T4" /\ eu' = CheckNmi(eu) /\ hist' = hist
        /\ biu' = [at |-> "T1", pulse |-> 2]
    BY <1>10 DEF SecondPulse
  <2>2. biu' = [x \in BiuFields |-> biu'[x]] /\ biu'.at = "T1"
    BY <2>1 DEF BiuFields
  <2> QED BY <1>1, <2>1, <2>2, WithinCycle
<1>11. CASE CycleEnds
  BY <1>5, <1>11 DEF CycleEnds
<1> QED BY <1>6, <1>7, <1>8, <1>9, <1>10, <1>11 DEF Clock

\* So does every step.
LEMMA NextKeeps ==
  ASSUME ProcessorInv, [Next]_vars
  PROVE  ProcessorInv'
<1>1. CASE Clock
  BY <1>1, ClockKeeps
<1>2. CASE SetResetVector
  BY <1>2 DEF SetResetVector, ProcessorInv
<1>3. CASE PowerOn
  BY <1>3 DEF PowerOn, ProcessorInv, At, BiuFields, LineFields
<1>4. CASE VccDrops
  BY <1>4 DEF VccDrops, ProcessorInv, LineFields
<1>5. CASE PowerOff
  BY <1>5 DEF PowerOff, ProcessorInv, At, BiuFields
<1>6. CASE UNCHANGED vars
  BY <1>6 DEF vars, ProcessorInv
<1> QED BY <1>1, <1>2, <1>3, <1>4, <1>5, <1>6 DEF Next

\* In every reachable state the history and the stack say where the program
\* and its handlers stand.
THEOREM ProcessorInvariance == Spec => []ProcessorInv
<1>1. ProcessorInv /\ [Next]_vars => ProcessorInv'
  BY NextKeeps
<1> QED BY InitInv, <1>1, PTL DEF Spec

\* Whatever interrupts, traps and divide errors come between, the program's next
\* instruction finds the CS:IP, IF and TF that its last one left: with any
\* programs, any depth of handlers, and lines that move at any clock.
THEOREM ProgramStays == Spec => []ProgramUndisturbed
<1>1. ProcessorInv => ProgramUndisturbed
  BY DEF ProcessorInv, ProgramUndisturbed, InProgram, EuInv, Between, Stands
<1> QED BY <1>1, ProcessorInvariance, PTL

\* Each prefix holds for the one instruction it is written before.
THEOREM PrefixesHold == Spec => []PrefixesApply
<1>1. ProcessorInv => PrefixesApply
  <2> SUFFICES ASSUME ProcessorInv, hist.depth = 0, eu.doing = "execute", ~hist.stepped
               PROVE  (eu.rep > 0 <=> hist.rep) /\ (eu.seg > 0 <=> hist.seg)
    BY DEF PrefixesApply, InProgram
  <2>1. Ripe(eu, hist)
    BY DEF ProcessorInv, EuInv
  <2>2. /\ eu.rep \in 0 .. 2 /\ eu.rep <= 1 /\ eu.seg \in 0 .. 2 /\ eu.seg <= 1
        /\ hist.rep <=> eu.rep = 1
        /\ hist.seg <=> eu.seg = 1
    BY <2>1 DEF Ripe, Types, Low, PrefixWaits
  <2> QED BY <2>2
<1> QED BY <1>1, ProcessorInvariance, PTL

\* A trap comes once after each instruction that TF was set for, and never else.
THEOREM TrapsOnce == Spec => []SteppedOnce
<1>1. ProcessorInv => SteppedOnce
  BY DEF ProcessorInv, SteppedOnce, InProgram, EuInv, Between, TrapLatched, After, TrapWaits
<1> QED BY <1>1, ProcessorInvariance, PTL

(***************************************************************************)
(* Arithmetic.  For all operands of both widths: addition and subtraction, *)
(* with and without carry, leave the value and the flags they should - but *)
(* for the one case in which ADC and SBB lose the carry.                   *)
(***************************************************************************)
\* The exclusive or of the bits of two numbers and their sum is the carry
\* into that bit: here bit 4.
LEMMA CarryIntoBit4 ==
  ASSUME NEW d \in Nat, NEW s \in Nat, NEW c \in {0, 1}
  PROVE  (((Bit(d, 16) + Bit(s, 16) + Bit(d + s + c, 16)) % 2) = 1)
           <=> ((d % 16) + (s % 16) + c >= 16)
<1>1. /\ d = 16 * (d \div 16) + (d % 16) /\ d \div 16 \in Int /\ d % 16 \in 0 .. 15
      /\ s = 16 * (s \div 16) + (s % 16) /\ s \div 16 \in Int /\ s % 16 \in 0 .. 15
  OBVIOUS
<1>2. (d + s + c) \div 16 =
        (d \div 16) + (s \div 16) + (IF (d % 16) + (s % 16) + c >= 16 THEN 1 ELSE 0)
  BY <1>1, Z3
<1> QED  BY <1>1, <1>2, Z3 DEF Bit

LEMMA BorrowFromBit4 ==
  ASSUME NEW d \in Nat, NEW s \in Nat, NEW c \in {0, 1}
  PROVE  (((Bit(d, 16) + Bit(s, 16) + Bit(d - s - c, 16)) % 2) = 1)
           <=> (d % 16 < (s % 16) + c)
<1>1. /\ d = 16 * (d \div 16) + (d % 16) /\ d \div 16 \in Int /\ d % 16 \in 0 .. 15
      /\ s = 16 * (s \div 16) + (s % 16) /\ s \div 16 \in Int /\ s % 16 \in 0 .. 15
  OBVIOUS
<1>2. (d - s - c) \div 16 =
        (d \div 16) - (s \div 16) - (IF d % 16 < (s % 16) + c THEN 1 ELSE 0)
  BY <1>1, Z3
<1> QED  BY <1>1, <1>2, Z3 DEF Bit

(***************************************************************************)
(* The sign bits, and what is left of a sum or a difference after its      *)
(* width.                                                                  *)
(***************************************************************************)
LEMMA HalfIsWhole ==
  ASSUME NEW M \in Words
  PROVE  M \in Nat /\ M \div 2 \in Nat /\ M = 2 * (M \div 2) /\ M \div 2 > 0
BY DEF Words

LEMMA SignBit ==
  ASSUME NEW M \in Words, NEW x \in Int, -M <= x, x < 2 * M
  PROVE  Bit(x, M \div 2) =
           IF x < -(M \div 2) \/ (0 <= x /\ x < M \div 2) \/ (M <= x /\ x < M + M \div 2)
           THEN 0 ELSE 1
<1>1. CASE M = 256
  BY <1>1, Z3 DEF Bit
<1>2. CASE M = 65536
  BY <1>2, Z3 DEF Bit
<1> QED  BY <1>1, <1>2 DEF Words

LEMMA Truncation ==
  ASSUME NEW M \in Words, NEW x \in Int, -M <= x, x < 2 * M
  PROVE  x % M = IF x < 0 THEN x + M ELSE IF x < M THEN x ELSE x - M
<1>1. CASE M = 256
  BY <1>1, Z3
<1>2. CASE M = 65536
  BY <1>2, Z3
<1> QED  BY <1>1, <1>2 DEF Words

\* The flags of an addition from its carry, if that is right.
LEMMA AdditionFlags ==
  ASSUME NEW M \in Words, NEW d \in 0 .. M - 1, NEW s \in 0 .. M - 1,
         NEW c \in {0, 1}
  PROVE  Adds(M, d, s, c, Arith(M, d, s, d + s + c, Flag(d + s + c >= M)))
<1> DEFINE f == Arith(M, d, s, d + s + c, Flag(d + s + c >= M))
           H == M \div 2
           x == Bit(d, H) + Bit(s, H) + Bit(d + s + c, H)
<1>1. M \in Nat /\ H \in Nat /\ M = 2 * H /\ H > 0
  BY HalfIsWhole
<1>2. f.val = (d + s + c) % M
  BY DEF Arith
<1>3. f.cf = 1 <=> d + s + c >= M
  BY DEF Arith, Flag
<1>4. f.af = 1 <=> (d % 16) + (s % 16) + c >= 16
  <2>1. f.af = (Bit(d, 16) + Bit(s, 16) + Bit(d + s + c, 16)) % 2
    BY DEF Arith
  <2>2. d \in Nat /\ s \in Nat
    BY <1>1
  <2> QED
    BY <2>1, <2>2, CarryIntoBit4
<1>5. f.of = 1 <=> Overflows(M, Signed(M, d) + Signed(M, s) + c)
  <2>1. Bit(d, H) = IF d < H THEN 0 ELSE 1
    BY <1>1, SignBit, d < 2 * M, -M <= d
  <2>2. Bit(s, H) = IF s < H THEN 0 ELSE 1
    BY <1>1, SignBit, s < 2 * M, -M <= s
  <2>3. Bit(d + s + c, H) =
          IF d + s + c < H \/ (M <= d + s + c /\ d + s + c < M + H) THEN 0 ELSE 1
    BY <1>1, SignBit, d + s + c < 2 * M, -M <= d + s + c
  <2>4. f.of = IF d + s + c = d THEN 0 ELSE (Flag(d + s + c >= M) + (x % 2)) % 2
    BY DEF Arith
  <2>5. x \in 0 .. 3 /\ x % 2 = IF x \in {1, 3} THEN 1 ELSE 0
    BY <2>1, <2>2, <2>3
  <2> HIDE DEF x, f, H
  <2>6. x = Bit(d, H) + Bit(s, H) + Bit(d + s + c, H)
    BY DEF x
  <2>7. Overflows(M, Signed(M, d) + Signed(M, s) + c) <=>
          \/ d < H /\ s < H /\ d + s + c >= H
          \/ d >= H /\ s >= H /\ d + s + c < M + H
    BY <1>1 DEF Overflows, Signed, H
  <2>8. f.of = 1 <=>
          \/ d < H /\ s < H /\ d + s + c >= H
          \/ d >= H /\ s >= H /\ d + s + c < M + H
    BY <1>1, <2>1, <2>2, <2>3, <2>4, <2>5, <2>6, Z3 DEF Flag
  <2> QED
    BY <2>7, <2>8
<1> QED
  BY <1>2, <1>3, <1>4, <1>5 DEF Adds

\* The flags of a subtraction from its borrow, if that is right.
LEMMA SubtractionFlags ==
  ASSUME NEW M \in Words, NEW d \in 0 .. M - 1, NEW s \in 0 .. M - 1,
         NEW c \in {0, 1}
  PROVE  Subtracts(M, d, s, c, Arith(M, d, s, d - s - c, Flag(d < s + c)))
<1> DEFINE f == Arith(M, d, s, d - s - c, Flag(d < s + c))
           H == M \div 2
           x == Bit(d, H) + Bit(s, H) + Bit(d - s - c, H)
<1>1. M \in Nat /\ H \in Nat /\ M = 2 * H /\ H > 0
  BY HalfIsWhole
<1>2. f.val = (d - s - c) % M
  BY DEF Arith
<1>3. f.cf = 1 <=> d < s + c
  BY DEF Arith, Flag
<1>4. f.af = 1 <=> d % 16 < (s % 16) + c
  <2>1. f.af = (Bit(d, 16) + Bit(s, 16) + Bit(d - s - c, 16)) % 2
    BY DEF Arith
  <2>2. d \in Nat /\ s \in Nat
    BY <1>1
  <2> QED
    BY <2>1, <2>2, BorrowFromBit4
<1>5. f.of = 1 <=> Overflows(M, Signed(M, d) - Signed(M, s) - c)
  <2>1. Bit(d, H) = IF d < H THEN 0 ELSE 1
    BY <1>1, SignBit, d < 2 * M, -M <= d
  <2>2. Bit(s, H) = IF s < H THEN 0 ELSE 1
    BY <1>1, SignBit, s < 2 * M, -M <= s
  <2>3. Bit(d - s - c, H) =
          IF d - s - c < -H \/ (0 <= d - s - c /\ d - s - c < H) THEN 0 ELSE 1
    BY <1>1, SignBit, d - s - c < 2 * M, -M <= d - s - c
  <2>4. f.of = IF d - s - c = d THEN 0 ELSE (Flag(d < s + c) + (x % 2)) % 2
    BY DEF Arith
  <2>5. x \in 0 .. 3 /\ x % 2 = IF x \in {1, 3} THEN 1 ELSE 0
    BY <2>1, <2>2, <2>3
  <2> HIDE DEF x, f, H
  <2>6. x = Bit(d, H) + Bit(s, H) + Bit(d - s - c, H)
    BY DEF x
  <2>7. Overflows(M, Signed(M, d) - Signed(M, s) - c) <=>
          \/ d < H /\ s >= H /\ d - s - c >= -H
          \/ d >= H /\ s < H /\ d - s - c < H
    BY <1>1 DEF Overflows, Signed, H
  <2>8. f.of = 1 <=>
          \/ d < H /\ s >= H /\ d - s - c >= -H
          \/ d >= H /\ s < H /\ d - s - c < H
    BY <1>1, <2>1, <2>2, <2>3, <2>4, <2>5, <2>6, Z3 DEF Flag
  <2> QED
    BY <2>7, <2>8
<1> QED
  BY <1>2, <1>3, <1>4, <1>5 DEF Subtracts

(***************************************************************************)
(* The instructions.                                                       *)
(***************************************************************************)
\* ADD leaves the sum, and in CF, AF and OF whether it left the width, the
\* low digit and the signed range.
THEOREM AddIsRight ==
  ASSUME NEW M \in Words, NEW d \in 0 .. M - 1, NEW s \in 0 .. M - 1
  PROVE  Adds(M, d, s, 0, Add(M, d, s))
<1>1. M \in Nat /\ M > 0
  BY HalfIsWhole
<1>2. (d + s) % M < d <=> d + s + 0 >= M
  BY <1>1, Truncation, -M <= d + s, d + s < 2 * M
<1>3. Add(M, d, s) = Arith(M, d, s, d + s + 0, Flag(d + s + 0 >= M))
  BY <1>1, <1>2 DEF Add, Flag
<1> QED
  BY <1>3, AdditionFlags

\* So does ADC, unless all ones are added with a carry.
THEOREM AdcIsRight ==
  ASSUME NEW M \in Words, NEW d \in 0 .. M - 1, NEW s \in 0 .. M - 1,
         NEW c \in {0, 1}, ~(s = M - 1 /\ c = 1)
  PROVE  Adds(M, d, s, c, Adc(M, d, s, c))
<1>1. M \in Nat /\ M > 0
  BY HalfIsWhole
<1>2. ((c = 1 /\ d + s + c = d) \/ (d + s + c) % M < d) <=> d + s + c >= M
  BY <1>1, Truncation, -M <= d + s + c, d + s + c < 2 * M
<1>3. Adc(M, d, s, c) = Arith(M, d, s, d + s + c, Flag(d + s + c >= M))
  BY <1>2 DEF Adc, Flag
<1> QED
  BY <1>3, AdditionFlags

\* Then it has no carry where there always is one: a sum of several words
\* that passes through FFFFh with a carry loses it.
THEOREM AdcLosesCarry ==
  ASSUME NEW M \in Words, NEW d \in 0 .. M - 1
  PROVE  Adc(M, d, M - 1, 1).cf = 0 /\ ~Adds(M, d, M - 1, 1, Adc(M, d, M - 1, 1))
<1>1. M \in Nat /\ M > 0
  BY HalfIsWhole
<1>2. d + (M - 1) + 1 # d /\ ~((d + (M - 1) + 1) % M < d)
  BY <1>1, Truncation, -M <= d + (M - 1) + 1, d + (M - 1) + 1 < 2 * M
<1>3. Adc(M, d, M - 1, 1).cf = 0
  BY <1>2 DEF Adc, Arith, Flag
<1>4. d + (M - 1) + 1 >= M
  BY <1>1
<1> QED
  BY <1>3, <1>4 DEF Adds

\* SUB and CMP leave the difference, and whether it borrowed.
THEOREM SubIsRight ==
  ASSUME NEW M \in Words, NEW d \in 0 .. M - 1, NEW s \in 0 .. M - 1
  PROVE  Subtracts(M, d, s, 0, Sub(M, d, s))
<1>1. M \in Nat /\ M > 0
  BY HalfIsWhole
<1>2. d - s = d - s - 0 /\ s = s + 0
  BY <1>1
<1>3. Sub(M, d, s) = Arith(M, d, s, d - s - 0, Flag(d < s + 0))
  BY <1>2 DEF Sub
<1> QED
  BY <1>3, SubtractionFlags

\* SBB as well, unless all ones are subtracted with a borrow.
THEOREM SbbIsRight ==
  ASSUME NEW M \in Words, NEW d \in 0 .. M - 1, NEW s \in 0 .. M - 1,
         NEW c \in {0, 1}, ~(s = M - 1 /\ c = 1)
  PROVE  Subtracts(M, d, s, c, Sbb(M, d, s, c))
<1>1. M \in Nat /\ M > 0
  BY HalfIsWhole
<1>2. (s + c) % M = s + c
  BY <1>1, Truncation, -M <= s + c, s + c < M
<1>3. ((c = 1 /\ d - s - c = d) \/ d < (s + c) % M) <=> d < s + c
  BY <1>1, <1>2
<1>4. Sbb(M, d, s, c) = Arith(M, d, s, d - s - c, Flag(d < s + c))
  BY <1>3 DEF Sbb, Flag
<1> QED
  BY <1>4, SubtractionFlags

\* Then it has no borrow where there always is one.
THEOREM SbbLosesBorrow ==
  ASSUME NEW M \in Words, NEW d \in 0 .. M - 1
  PROVE  Sbb(M, d, M - 1, 1).cf = 0 /\ ~Subtracts(M, d, M - 1, 1, Sbb(M, d, M - 1, 1))
<1>1. M \in Nat /\ M > 0
  BY HalfIsWhole
<1>2. ((M - 1) + 1) % M = 0
  BY <1>1, Truncation, (M - 1) + 1 = M
<1>3. Sbb(M, d, M - 1, 1).cf = 0
  BY <1>1, <1>2 DEF Sbb, Arith, Flag
<1>4. d < (M - 1) + 1
  BY <1>1
<1> QED
  BY <1>3, <1>4 DEF Subtracts
=============================================================================
