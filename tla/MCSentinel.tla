------------------------------ MODULE MCSentinel ------------------------------
(* Sentinels that start a failover each while one of them has its epoch    *)
(* raised by a failover of another master it watches.                      *)
EXTENDS Sentinel, TLC

CONSTANTS s1, s2, s3, r1, r2

TwoCandidates ==
  {[down |-> TRUE, starts |-> (s1 :> 1 @@ s2 :> 1 @@ s3 :> 0),
    budget |-> [forced |-> 0, elsewhere |-> 1, restart |-> 0, recover |-> 0, drop |-> 0, fix |-> 0,
                epochs |-> 2]]}

Sym == Permutations({r1, r2})

=============================================================================
