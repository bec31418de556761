---------------------------- MODULE MCWebSession ----------------------------
(***************************************************************************)
(* Small instances of WebSession.                                          *)
(***************************************************************************)
EXTENDS WebSession, TLC

CONSTANTS b1, b2, r1, r2, r3, r4, t1, t2, t3, t4, c1, c2, c3

MCOneBrowser == [r \in Request |-> b1]

\* The second browser sends one request, the first the others.
MCTwoBrowsers == [r \in Request |-> IF r = r1 THEN b2 ELSE b1]

MCTokenSymmetry == Permutations(Token) \cup Permutations(Call)

MCSymmetry == Permutations(Request) \cup Permutations(Token) \cup Permutations(Call)
=============================================================================
