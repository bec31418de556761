------------------------------ MODULE MCConsole ------------------------------
(***************************************************************************)
(* Small instances of Console.                                             *)
(***************************************************************************)
EXTENDS Console, TLC

CONSTANTS t1, t2, o1, o2, p1, c1, c2

MCSymmetry == Permutations(Tab) \cup Permutations(Org) \cup Permutations(Call)
=============================================================================
