------------------------------ MODULE MCBuild -------------------------------
(* Both scripts over the dictionaries of MCFill.                             *)
EXTENDS MCFill, Build
=============================================================================
