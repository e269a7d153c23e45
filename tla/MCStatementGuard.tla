--------------------------- MODULE MCStatementGuard ---------------------------
(* StatementGuard with the bound given in the .cfg.                         *)
EXTENDS StatementGuard
===============================================================================
