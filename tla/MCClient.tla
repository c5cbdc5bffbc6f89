------------------------------- MODULE MCClient -------------------------------
(* The program over the databases of MCExtract.                               *)
EXTENDS Client, MCExtract
=============================================================================
