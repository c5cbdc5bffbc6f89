------------------------------ MODULE MCSession ------------------------------
(* A call during three executions over two of the dictionaries of MCFill: two   *)
(* functions of one name and an alias with values, or types nobody declares.  *)
EXTENDS MCFill, Session

TwoDicts == {[types |-> Types1, functions |-> Functions1],
             [types |-> Types2, functions |-> Functions2]}
=============================================================================
