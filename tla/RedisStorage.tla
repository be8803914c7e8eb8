----------------------------- MODULE RedisStorage -----------------------------
(***************************************************************************)
(* What Redis keeps about its keys, side by side: the tracking table,      *)
(* whose names are those of its module, and the integer sets. They share   *)
(* no state; a module that checks or proves something of them extends this *)
(* one.                                                                    *)
(***************************************************************************)
EXTENDS Tracking

CONSTANTS IntsetValues, IntsetHalf

VARIABLES iIs, iMembers

In == INSTANCE Intset WITH
  Values <- IntsetValues, Half <- IntsetHalf, is <- iIs, members <- iMembers

(* An integer that fits fits in more cells, zero fits in one, and every    *)
(* integer fits in the most (int16_t, int32_t and int64_t in the code).    *)
ASSUME IntsetAssumption ==
  /\ IntsetHalf \in [In!Widths -> Nat \ {0}]
  /\ IntsetHalf[1] <= IntsetHalf[2] /\ IntsetHalf[2] <= IntsetHalf[4]
  /\ IntsetValues \subseteq In!Fits(4)

(* The array of an intset holds its members: see Intset. *)
HoldsMembers == In!HoldsMembers

=============================================================================
