---------------------------- MODULE MCNosanaPools ----------------------------
(* Small instances of NosanaPools for TLC. *)
EXTENDS NosanaPools, TLC

CONSTANTS u1, u2, p1, p2, rewards

\* One user funds the pools.
mcFunds == [u \in {u1, u2} |-> IF u = u1 THEN 4 ELSE 0]

Symmetric == Permutations(Pools)
=============================================================================
