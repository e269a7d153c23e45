------------------------------ MODULE MCSafeSQL ------------------------------
(* Model-checking instance of SafeSQL: no argument, one, two, and two of    *)
(* which the first cannot be rendered.                                      *)
EXTENDS SafeSQL

MCArgLists == {<<>>, <<"x">>, <<"x", "7">>, <<"unsupported", "7">>, <<"0", "1", "2", "3", "4", "5", "6", "7", "8", "9">>}
=============================================================================
