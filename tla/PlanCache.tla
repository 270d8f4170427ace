----------------------------- MODULE PlanCache -----------------------------
(***************************************************************************)
(* How the scheduler finds the order of a cycle (core/scheduler.h).  The   *)
(* directions of the bidirectional blocks number a permutation; the plan   *)
(* of each is solved once (WavePlan!Solve) and kept in a map, and a small  *)
(* direct-mapped table, indexed by the low digits of the number, keeps     *)
(* pointers to plans in the map.                                           *)
(***************************************************************************)
EXTENDS Integers, Sequences

CONSTANTS
  Perms,        \* the numbers of the permutations the board can be in
  CacheSize,    \* PERM_CACHE_SIZE, 16 in the code
  PlanOf        \* permutation -> what solve_perm() gives for it

\* What the theorems ask of the constants.
Numbered == Perms \subseteq Nat /\ CacheSize \in Nat \ {0}

VARIABLES
  plans,    \* wave_plans_
  cache,    \* perm_cache_: slot -> permutation, pointer (a key of the map)
  ran       \* the permutation of the last cycle and the plan it was run by

cacheVars == <<plans, cache, ran>>

Null == -1
Slots == 0 .. CacheSize - 1
EmptySlot == [perm |-> 0, flat |-> Null]
EmptyCache == [s \in Slots |-> EmptySlot]
EmptyMap == <<>>
Slot(perm) == perm % CacheSize

CacheInit == plans = EmptyMap /\ cache = EmptyCache /\ ran = <<>>

\* resolve(), when the board is built: no plan, no pointer.
Resolve ==
  /\ plans' = EmptyMap
  /\ cache' = EmptyCache
  /\ UNCHANGED ran

\* find(), and emplace() when it is not there.
WithPlan(perm) ==
  [p \in DOMAIN plans \cup {perm} |->
     IF p \in DOMAIN plans THEN plans[p] ELSE PlanOf[p]]

Hit(perm) == cache[Slot(perm)].flat # Null /\ cache[Slot(perm)].perm = perm

\* A cycle whose blocks stand as in perm.
EvaluateNoWake(perm) ==
  /\ \/ Hit(perm) /\ UNCHANGED <<plans, cache>>
     \/ /\ ~Hit(perm)
        /\ plans' = WithPlan(perm)
        /\ cache' = [cache EXCEPT ![Slot(perm)] =
                       [perm |-> perm, flat |-> perm]]
  /\ ran' = <<perm, plans'[cache'[Slot(perm)].flat]>>

CacheNext == Resolve \/ \E perm \in Perms : EvaluateNoWake(perm)

CacheSpec == CacheInit /\ [][CacheNext]_cacheVars

(***************************************************************************)
(* Properties                                                              *)
(***************************************************************************)

\* A slot that points, points at a plan that is in the map: none dangles when
\* the map is cleared or grows.
PointersLive ==
  \A s \in Slots : cache[s].flat # Null => cache[s].flat \in DOMAIN plans

\* Every cycle is run by the plan of the directions its own blocks have, however
\* permutations collide in the table.
PlanOfTheCycle == ran # <<>> => ran[2] = PlanOf[ran[1]]
=============================================================================
