----------------------------- MODULE MCConfigLoad -----------------------------
(* Model-checking instance of ConfigLoad: counts on both sides of each bound.*)
EXTENDS ConfigLoad

MCConnCounts == {-1, 0, 1, MaxAllowedConns, MaxAllowedConns + 1}
===============================================================================
