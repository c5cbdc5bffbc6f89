----------------------------- MODULE Dictionary -----------------------------
(* What xml_reader.py returns and filling_bd.py takes.                        *)
EXTENDS Integers, Sequences

CONSTANTS
  Texts,  \* what a text column may hold
  Bases,  \* type names that do not end in '*'
  NONE    \* NULL in a column, None in Python

\* A type name is a base name followed by a number of asterisks.
Names == [base : Bases, stars : Nat]

\* A field of a type, a parameter of a function.
Params == [type : Names, name : Texts]

TypeEntry == [name : Names, kind : Texts, base : Names \cup {NONE},
              fields : Seq(Params), defs : Seq(Texts)]

FunctionEntry == [name : Texts, dll : Texts, category : Texts, ret : Names,
                  params : Seq(Params)]

Dictionaries == [types : Seq(TypeEntry), functions : Seq(FunctionEntry)]
=============================================================================
