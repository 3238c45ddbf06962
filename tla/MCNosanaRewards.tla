-------------------------- MODULE MCNosanaRewards --------------------------
(* Small instances of NosanaRewards for TLC. *)
EXTENDS NosanaRewards, TLC

CONSTANTS o1, o2, t1, f1, s1

\* Two stakers; f1 pays the fees.
mcFunds == [w \in {o1, o2, t1, f1} |-> IF w = t1 THEN 0 ELSE IF w = o2 THEN 1 ELSE 2]
=============================================================================
