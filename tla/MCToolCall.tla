------------------------------ MODULE MCToolCall ------------------------------
(* Model-checking instance of ToolCall: get_cluster, whose first statement  *)
(* is like that of any read tool, next to a write, on one connection.       *)
EXTENDS ToolCall

MCWorkloads == {[r1 |-> "get_cluster", r2 |-> "write"]}
===============================================================================
