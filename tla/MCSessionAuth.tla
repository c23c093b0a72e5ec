--------------------------- MODULE MCSessionAuth ---------------------------
(* Small instances of SessionAuth for TLC.                                 *)
EXTENDS SessionAuth, TLC

CONSTANTS r1, r2, r3, u1, u2

Symmetry == Permutations(Requests) \cup Permutations(Users)
=============================================================================
