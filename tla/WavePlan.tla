------------------------------ MODULE WavePlan ------------------------------
(***************************************************************************)
(* Scheduler::solve_perm(): the order in which the chips of the board run  *)
(* in one cycle.  A chip is [in, out, blocks]; a permutation gives every   *)
(* block of every chip its direction for the cycle.  Whoever drives a net  *)
(* runs before whoever reads it; chips of one wave run as registered.      *)
(***************************************************************************)
EXTENDS BoardChips

CONSTANTS
  Order,    \* the chips' names, as they register
  Parts,    \* name -> chip
  Rails     \* the power rails, which order nobody

Indices == [i \in DOMAIN Order |-> i]

Switched(chip) ==
  UNION {chip.blocks[i].drives \cup chip.blocks[i].reads :
           i \in DOMAIN chip.blocks}

\* What a block adds to the nets driven and to the nets read.
Drives(block, dir) ==
  CASE dir = Out -> block.drives [] dir = In -> block.reads [] OTHER -> {}

Reads(block, dir) ==
  CASE dir = Out -> block.reads [] dir = In -> block.drives [] OTHER -> {}

EffOut(chip, dirs) ==
  ((chip.out \ Switched(chip))
     \cup UNION {Drives(chip.blocks[i], dirs[i]) : i \in DOMAIN dirs}) \ Rails

EffIn(chip, dirs) ==
  ((chip.in \ Switched(chip))
     \cup UNION {Reads(chip.blocks[i], dirs[i]) : i \in DOMAIN dirs}) \ Rails

\* The same function; TLC evaluates its entries once.
Table(f) == f @@ <<>>

\* perm[i] holds the directions of the i-th chip's blocks.
Depends(perm) ==
  LET out == Table([i \in DOMAIN Order |-> EffOut(Parts[Order[i]], perm[i])])
      in == Table([i \in DOMAIN Order |-> EffIn(Parts[Order[i]], perm[i])])
  IN Table([v \in DOMAIN Order |->
              {u \in DOMAIN Order \ {v} : out[u] \cap in[v] # {}}])

\* Wave k takes the chips whose drivers have all run; a wave that takes
\* nobody leaves a cycle, and the program exits.
Solve(perm) ==
  LET deps == Depends(perm)
      Waves[k \in 0 .. Len(Order)] ==
        IF k = 0 THEN <<>>
        ELSE LET plan == Waves[k - 1]
                 done == {plan[i] : i \in DOMAIN plan}
                 Ready(v) == v \notin done /\ deps[v] \subseteq done
             IN plan \o SelectSeq(Indices, Ready)
      plan == Waves[Len(Order)]
  IN [i \in DOMAIN plan |-> Order[plan[i]]]

Acyclic(perm) == Len(Solve(perm)) = Len(Order)
=============================================================================
