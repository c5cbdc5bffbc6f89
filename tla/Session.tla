------------------------------- MODULE Session -------------------------------
(***************************************************************************)
(* A call of functionInformation while filling_bd.py writes the same file. *)
(* Every query of the call sees what is committed at its own moment; the   *)
(* scripts lock nothing for longer than one statement or one commit, and   *)
(* a lock that is met is a failed query here or a dead execution there.    *)
(***************************************************************************)
EXTENDS Fill

CONSTANTS
  Asked,     \* functions that may be asked for
  MaxFaults  \* bound: how many calls of SQLite fail in the call

ASSUME AskedAssumption == Asked \subseteq Texts

VARIABLES
  name, pc, func, arg, members, result, handles, unclosed, faults, \* Extract's
  before     \* the arguments of the function when the call began

call == <<name, pc, func, arg, members, result, handles, unclosed, faults>>
sessionVars == <<vars, call, before>>

\* What a query sees.
Committed == [types |-> types, functions |-> functions, arguments |-> arguments,
              fields |-> fields, values |-> values]

Reader == INSTANCE Extract WITH
            db <- Committed, FunctionNames <- Texts, TypeNames <- Names,
            Databases <- {}

\* The assumptions of the reader's module.
ASSUME ReaderAssumption == MaxFaults \in Nat /\ NONE \notin Reader!Trees

SessionInit == Init /\ Reader!CallInit /\ name \in Asked /\ before = {}

Reading ==
  /\ Reader!Step
  /\ before' = IF pc = "open" THEN Reader!ArgumentsNamed(name) ELSE before
  /\ UNCHANGED vars

Writing == Next /\ UNCHANGED <<call, before>>

SessionNext == Reading \/ Writing

SessionSpec == SessionInit /\ [][SessionNext]_sessionVars

-----------------------------------------------------------------------------
(* Properties                                                              *)

\* What the call has found stays true: it is in the tables now, in the order of
\* the declaration and once, whatever is committed after it was read, and
\* whichever query fails or execution dies.
NeverStale == Reader!FoundInOrder

Answered == {a.of : a \in Reader!ToSet(result.arguments)}

Undisturbed == pc = "returned" /\ faults = 0

NamesOf(k) == {<<dict.functions[k].params[m].name, m - 1>> :
                 m \in DOMAIN dict.functions[k].params}

\* The entries of the dictionary that declare the function.
Declarations == {k \in DOMAIN dict.functions : dict.functions[k].name = name}

\* The parameters of a function are committed together: a call never sees a
\* part of a list, though functions are committed before their arguments and
\* either execution or call may be anywhere.  What the tables had when the call
\* began is not missed either.
AllOrNothing ==
  Undisturbed =>
    /\ before \subseteq Answered
    /\ {<<a.name, a.order>> : a \in Answered}
         \in {{}, UNION {NamesOf(k) : k \in Declarations}}

\* The values of an alias are committed before the arguments that have its
\* type: an argument that is found never lacks one.
ValuesBeforeArguments ==
  Undisturbed =>
    \A a \in {a \in Reader!ToSet(result.arguments) : a.of.kind = "Alias"} :
      Reader!ToSet(a.defVal) =
        UNION {Reader!ToSet(dict.types[k].defs) :
                 k \in {k \in DOMAIN dict.types :
                          dict.types[k].name = a.of.typeName}}

\* Two arguments in one place, which the printer would both print, are those
\* of two declarations of one name, or one of them has lost the stars of its
\* type and an execution that found them followed.
RivalsExplained ==
  \A a, b \in Reader!ToSet(func.arguments) :
    a.order = b.order /\ a # b =>
      \/ \E k, m \in Declarations :
           /\ k # m
           /\ <<a.name, a.order>> \in NamesOf(k)
           /\ <<b.name, b.order>> \in NamesOf(m)
      \/ /\ runs > 1 /\ a.name = b.name
         /\ a.typeName = Root(b.typeName) \/ b.typeName = Root(a.typeName)
=============================================================================
