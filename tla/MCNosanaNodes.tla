---------------------------- MODULE MCNosanaNodes ----------------------------
(* Small instances of NosanaNodes for TLC. *)
EXTENDS NosanaNodes

CONSTANTS a1, a2, a3, auditor
=============================================================================
