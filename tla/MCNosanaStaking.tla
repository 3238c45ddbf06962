-------------------------- MODULE MCNosanaStaking --------------------------
(* Small instances of NosanaStaking for TLC. *)
EXTENDS NosanaStaking, TLC

CONSTANTS o1, t1, t2, s1, s2

\* The owner has four tokens; the second treasury has one to deposit.
mcFunds == [w \in {o1, t1, t2} |-> IF w = o1 THEN 4
                                   ELSE IF w = t2 THEN 1 ELSE 0]
=============================================================================
