---------------------------- MODULE MCSessionPool ----------------------------
(* Model-checking instance of SessionPool.  Slots are interchangeable, and  *)
(* so are calls; the liveness run does not use the symmetry.                *)
EXTENDS SessionPool, TLC

PoolSymmetry == Permutations(Conns) \cup Permutations(Calls)
=============================================================================
