-------------------------- MODULE MCServerLifecycle --------------------------
(* Model-checking instance of ServerLifecycle.  A liveness property is       *)
(* checked, so without symmetry.                                            *)
EXTENDS ServerLifecycle
=============================================================================
