----------------------------- MODULE MCSessions -----------------------------
(***************************************************************************)
(* Small instances of Sessions.                                            *)
(***************************************************************************)
EXTENDS Sessions

CONSTANTS s1, t1, t2, t3, t4, c1, c2, c3
=============================================================================
