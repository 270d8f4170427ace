---------------------------- MODULE MCProcessor ----------------------------
(***************************************************************************)
(* Programs for the processor, in memory from address 1 on; the handlers   *)
(* are the same for all.                                                   *)
(***************************************************************************)
EXTENDS Processor, ALUChecks, TLC

I(op) == [op |-> op, arg |-> 0]
J(op, arg) == [op |-> op, arg |-> arg]

\* From 11: trap; 12: an interrupt's, which enables interrupts; 15: NMI's;
\* 17: divide error's; 18: a software interrupt's.
Handlers ==
  11 :> I("iret") @@ 12 :> I("sti") @@ 13 :> I("nop") @@ 14 :> I("iret") @@
  15 :> I("load") @@ 16 :> I("iret") @@ 17 :> I("iret") @@ 18 :> I("iret") @@
  19 :> I("nop") @@ 20 :> J("jmp", 1) @@ 21 :> J("jmp", 0)

MCVectors == 0 :> 17 @@ 1 :> 11 @@ 2 :> 15 @@ 4 :> 18 @@ 8 :> 12

Strings == <<I("sti"), I("setcx"), I("rep"), I("seg"), I("movs"), J("jmp", 2)>>
Overrides == <<I("sti"), I("setcx"), I("seg"), I("rep"), I("movs"), I("lea"), I("store"), J("jmp", 2)>>
Halts == <<I("sti"), I("hlt"), I("in"), J("jcc", 2), I("out"), J("jmp", 2)>>
Shut == <<I("hlt"), I("cli"), I("pushf"), I("popf"), J("jmp", 1)>>
Steps == <<J("push", <<TRUE, TRUE>>), I("popf"), I("nop"), J("div", 0), J("int", 4),
           I("hlt"), J("push", <<TRUE, FALSE>>), I("popf"), J("jmp", 1)>>
Calls == <<I("sti"), J("call", 5), J("div", 0), J("jmp", 2), I("alu"), I("ret")>>
Breaks == <<J("jcc", 21), I("int3"), I("nop")>>

MCCode ==
  "strings" :> (Strings @@ Handlers) @@ "overrides" :> (Overrides @@ Handlers) @@
  "halts" :> (Halts @@ Handlers) @@ "shut" :> (Shut @@ Handlers) @@
  "steps" :> (Steps @@ Handlers) @@ "calls" :> (Calls @@ Handlers) @@
  "breaks" :> (Breaks @@ Handlers)

MCCut == {"breaks", "strings"}

MCOpen == {"strings", "overrides", "halts", "calls"}

=============================================================================
