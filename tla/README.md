# A TLA+ model of BeautiFunc

BeautiFunc prints the arguments of a Windows API call in a readable form. What
it knows about functions and types comes from the XML files of API Monitor
(`src/API`): two Python scripts turn them into a SQLite database,
`ApiMonitor.db`, and a C++ library reads a function, its arguments and the trees
of their types back out of it. This directory holds the specifications of those
parts, the TLC configurations that check them on small instances, and proofs
that the TLA+ proof system checks.

## 1. The system

| part | source | state | operations | met by |
|---|---|---|---|---|
| schema script | `creating_bd.py` | the seven tables | one CREATE TABLE each, committed on its own | run once, by hand |
| XML reader | `xml_reader.py` | two lists of dictionaries | `parse_variable`, `parse_file`, `parse_all_file` | called by the filler |
| catalogue filler | `filling_bd.py` | the tables; five lists in memory | search a type, make up a missing one, six kinds of commit | run by hand, as often as one likes |
| type reader | `typeInformation` and its callbacks, `SQLFunc.cpp:190-278` | the C++ stack, one connection a level, `Arg` objects made by `new` | four calls of SQLite a level; recursion into the base and into each field, the latter through a callback of `sqlite3_exec` | `functionInformation` |
| function reader | `functionInformation` (`Extract.cpp`), `extract_from_db`, `typeDisclosure` (`SQLFunc.cpp:10-188`) | one `Function`, one `Type`, one `Result` | three queries for the function, one for each argument, calls of the type reader | the printer |
| Result | `Extract.h` | the tree of `Arg` objects | `distr`, `~Result` | its owner: `praktika.cpp` deletes it, `BeautiFunc.cpp` never |
| printer | `PrinterFuncInfo`, `BeautiFunc.cpp:11-184` | the text under construction, two flags | one pass over the chain of bases of each argument | `main` |
| first generation | `praktika/praktika` | | as the function reader, without trees | its own `main` |

The parts run one after another in different processes and share nothing but the
database file. The filler commits in several places and may die between any two;
nothing but a human starts it again, over the tables as they are. The reader is
single-threaded, and recursive: while a level waits for the levels below it, it
keeps its connection, its statement and a half-built `Arg`. Nothing keeps a
reader from running while the filler does, and nothing keeps the filler from
running while the schema script does.

What makes each part correct:

- *filler*: every reference in a committed row is to a committed row, although
  SQLite does not enforce the foreign keys for this connection; executions that
  die, or are repeated, add whole batches; a made-up pointer type has its base;
  the wrong rows that a failed search causes are bounded.
- *type reader*: no connection outlives its level; a failed query spoils the
  part of the tree it was for and nothing else; every object made is deleted
  once; it ends.
- *function reader*: whatever the order and number of the rows, each argument
  once, in order, with its own base; every early return closes its connection.
- *schema script*: no reference is ever committed into a schema that lacks a
  table, whichever script runs first.
- *XML reader*: whatever the order of files and elements, a function gets the
  category and module of its own file, and what is not read can be told from the
  file.
- *reader beside the filler*: what has been found stays true, and no part of a
  list of parameters is ever seen.
- *printer*: a number that is printed is the value of the type at the end of the
  chain; parentheses match; memory that is not there is not touched; each of
  them with exceptions, which the properties name.
- *Result*: the trees that were made are the trees that get deleted.

What is hard to test: a death between two commits; a second and third execution
of the filler; functions of one name; types met before they are declared; a call
of SQLite that fails somewhere in the recursion; types that contain themselves;
column numbers counted by hand. `PROJECT.json` lists these hazards at their
lines, with the properties that cover them.

## 2. The modules

### Fill — `filling_bd.py`

A type name is a record of a base and a number of stars. `types` maps a name to
its row (the column is UNIQUE and rows are inserted with OR IGNORE, so the first
stays: `Merge`); the other tables are sequences in insertion order, ids replaced
by the name or position they stand for. Everything the script holds in memory is
in `memory`, and lost in `Crash`.

A step is what lies between two commits, or one turn of a loop that collects
rows: `InsertTypes` (lines 10-29), `VisitType` and `ResolveField` (30-72),
`InsertFields` (73-75), `InsertCatalog` (77-93), `ResolveFunction` (95-138),
`InsertFunctions` (139-140), `VisitFunction` and `ResolveArgument` (142-179),
`InsertArguments` (180 and the end of `with`). A failed search commits once or
twice, and the script may die in between: `Strip` is the commit of line 63, and
`missing` is TRUE from there to the one of line 69. `RunScript` starts an
execution, over whatever the ones before have left; there are at most `MaxRuns`.

Not in the model: a type name that is empty or all stars, on which line 59 raises
IndexError; a file that cannot be opened or written. Values of Def_Values
are represented by their names.

The last section of the module says which rows a dictionary stands for, without
a loop: `DictFields`, `DictValues` and `DictArguments` are its elements in order,
`Source` the element that a row of a table is of, and `WholeBatches` and
`OneWrongRowPerName` compare the tables with them.

### TypeInformation — the recursive reader

`stack` holds the frames of `typeInformation`; the `pc` of a frame is the call it
makes next. `Call` pushes a frame or, when `MaxDepth` frames are there, is the
end of the process ("overflow"). `Return` copies an `Arg` into an object made by
`new` (`ReturnBase`), into a list of fields (`ReturnField`, the rest of
`UnCallback`) or to the caller of the library (`ReturnResult`). Objects made by
`new` are cells of `heap` and pointers are indices into it; `WILD` is the value of the
pointer that `Arg type;` does not initialise.

Every call of SQLite may fail, at most `MaxFaults` times in a behaviour:
`Select` is the row of a type, or the empty one; `OpenFails` returns at once,
`SelectTypeFails` and `FieldsFail` go on with what is there, and the second
disjunct of `SelectValues` is a query that fails after any number of rows. A
failure of a query between two rows of `Fields` is `FieldsFail` after some
`CallField`.

`Parts` are the types a level may call itself for and `HasChain` a path of them
longer than the stack: what `DepthDecides` compares an overflow with.

### Result — the tree, and `~Result`

TypeInformation with a history and with what comes after the return. `failed` is
the set of places of the tree at which a call of SQLite has failed; a place is
the way to it from the root, 0 for the base and k for the k-th field. `Destroy`
is `~Result` for one argument. From there `walk` holds the frames of
`Arg::distr`, one action for each thing it does: call itself for the base
(`DistrBase`), delete the base (`DeleteBase`), call itself for the next field
(`DistrField`), return. `deleted` are the objects deleted, in their order;
`BadAccess` is the use of a pointer that was never set, or whose object is gone.

The second section is the reference: `Tree` is what was returned, as a set of
places with what is there and the type it should be, and `Describes`, `Complete`,
`Unopened` and `Unread` compare one place with the rows of the database. Neither
is recursive: `Tree` is a fold over levels.

### Extract — `functionInformation`

One action for each call of SQLite and of `typeInformation`, in the order of the
code. `Exec` is `sqlite3_exec`: the callback is folded over all rows, or over
the rows before a failure. `ArgumentRows` is the left join with the row of NULLs
that a function without arguments gives; `TakeArgument` the test, the push and
the sort that `ARG_callback` and `SetCallback` do for a row; `FieldArguments`
the columns that `SetCallback` really reads. `typeInformation` appears as an
operator: one of `Trees`, that of the type asked for, with some number of flaws,
each of which costs a fault. That is what TypeInformation is proved to give
(`DefectsAreFaultsHold`). A stack overflow is in TypeInformation only.

Tables of Extract obey the foreign keys (`IsDatabase`); that the filler gives it
such tables at every moment is the theorem `AlwaysADatabaseHolds` of
SessionProofs, and follows from `ReferentialIntegrity`.

### SQLFunc, FirstGeneration

`extract_from_db` and `typeDisclosure` are the same code in both generations of
the library, so their steps are in a module of their own, `SQLFunc`, which
leaves the database to the module that extends it. `Where` is the WHERE of a
query, the rows of a table in their order. `FirstGeneration` is the
older `functionInformation`, without trees. It is the abstract specification of
Extract: `ReadsAsBefore` (every behaviour of Extract, with the trees cut off and
the faults inside `typeInformation` left out, is one of FirstGeneration, its
fairness included).

### Dictionary, Build — `creating_bd.py`

`Dictionary` is what the XML reader returns and the filler takes. `Build` puts
the seven CREATE TABLE beside Fill: `created` tables exist, `making` is the next.
`Needed` names the tables in the statements of the filler's next step, and
`NoSuchTable` is the end of an execution that meets one that is not there: the
statement raises, `with` rolls back, and for the tables the execution is one that
was killed. So each step of Build is, for them, a step of Fill or none; this says
nothing about the scripts, but it lets the proofs carry over what holds of Fill
(the lemma `BuildImplementsFill`).

### Session — a reader beside the filler

Fill and one call of `functionInformation`, interleaved query by query and
commit by commit. `Reader` is Extract over `Committed`, the tables of Fill; it is
the reason why no action of SQLFunc and Extract says what becomes of `db`. One of
the functions in `Asked` is asked for; `Declarations` are the positions of the
dictionary where it is declared and `NamesOf` the parameters with their places
at one of them, which the properties compare the answer with.

### XmlReader — `xml_reader.py`

Files are sequences of elements with the attributes the reader looks at, in
folders that `os.walk` lists in any order. One action for each tag `parse_file`
knows; `category` and `condFlag` are the two variables it carries from element
to element. The reference definition (`FunctionsOf`, `DeclarationsOf`) is
written over the whole file instead: the nearest Category above, the first
Condition of Headers. `Find` is `root.find`, the first element with a tag.

### Printer — `PrinterFuncInfo`

A call is a list of arguments, each a chain of types from the argument down to
the last base, with the strings of the caller and the memory of the process.
One action for each branch of the while loop (`PassAlias`, `PassObject`,
`StopAtNull`, `PassVoid`, `Follow`) and of what comes after it (`Print...`). The
text is a sequence of tokens.

Memory is a partial function from addresses to bytes, the lowest first. `Follow`
reads four of them, whatever the type, as line 96 does, and writes the number
without its sign over the caller's string; `PrintStruct` goes through memory in
steps of eight and prints an int of each, with its sign; `PrintNumber` takes what
it has for a `long long`, and `PrintDouble` for the bits of a double
(`Double(v)`, which is no number of the model). Access to memory that is not
there, the use of a variable that `sscanf` has not set, 18 characters written over
a string that has no room for them (`short`), and a base pointer that nobody has
set (`unset`, what `typeInformation` returns when it cannot open the database:
`FollowUnset`) are the outcome "undefined".

A node of a chain has a `size` and a sign, which are those of the headers. The
database does not have them and no action of the printer looks at them: only the
reference does. `Denotes` is that reference: what the type at each place of a
chain has for a value, read in the width of that type. `Good` says that the
caller's pointers are null or lead to as much memory as the type needs, as far as
the chain goes; `ValueOf` is what the bits of a value mean in the last type. The
difference between them and what is printed is the subject of the properties.

`HasShape` says what chains look like: all types but the last are pointers,
aliases or arrays, as all 10018 types with a base in `ApiMonitor.db` are (5177,
4424 and 417 of them); integers have 1, 2, 4 or 8 bytes, floating numbers 4 or 8.
A chain may end anywhere in a type without a kind, which is what a failed query
leaves of a type.

### Client — `praktika.cpp`

`main` around Extract: the loop that prints, and `~Result` with
`distr`. A tree is an atom here too; `made` counts those that `typeInformation`
returned, `deleted` those that the destructor went through. A null base and the
first element of an empty list are accesses the program does make, and end it.

### FillProofs, BuildProofs, XmlReaderProofs, TypeInformationProofs, ExtractProofs, SessionProofs, PrinterProofs

The proofs; see section 5. ExtractProofs is about Client too, TypeInformationProofs
about Result.

### Folding

What the operators of the community modules that the models use compute: the
callbacks are folds over rows, the tree of a type is a fold over its levels, the
reader's lists are concatenations, an id is the least position of a name. `Fold` is `FoldLeft` with a parameter; `Op`, the
constant of the module, is the operator that is folded, and each module of
proofs that needs a fold instantiates it with one of its own.

## 3. The runs

| run | question | result |
|---|---|---|
| `build` | both scripts, started in any order and killed anywhere, up to three executions of the filler over four dictionaries: what is in the tables, does an execution end, what becomes of a schema whose script died? | all invariants and temporal properties hold (about 15300 states) |
| `type_information` | all databases of two type names and at most one field, a structure with repeated rows and a nested one; up to two failures anywhere; then the deletion of what was returned | all invariants hold (about 101000 states); the recursion ends by a return or a stack overflow, on types that contain themselves too, and a deletion that was begun ends |
| `client` | `main` and the call it makes, over tables with namesakes and repeated fills; up to two failures | all invariants hold (about 58000 states); the call implements the first generation of the library, and returns as it does |
| `session` | one call during up to three executions of the filler, which may die; one failed query | all invariants hold (about 178000 states) |
| `xml_reader` | folders of files of every shape, in every order | both lists are as declared |
| `printer` | up to two arguments over twenty-six chains of types; numbers, null pointers, handles, good pointers and pointers to the edge of what is mapped; arguments in one place; missing and short strings; a base that nobody has set | all invariants hold (about 69000 states); the printer ends |
| `fill_argument_types` | *"Заполняем таблицу Arguments значениями из словаря functions"* (line 142) | violated: the first argument of an unseen pointer type gets the type it points to |
| `fill_categories` | *"Заполняем таблицы API_Categories и DLLs значениями из словаря functions"* (line 77) | violated: categories of functions without a DLL are dropped |
| `fill_namesakes` | *"Заполняем поле func_id таблицы Arguments"* (line 147) | violated: arguments of namesakes all go to the first |
| `type_information_handles` | `sqlite3.h:3324`, a handle is to be closed whether or not an error occurs | violated: the early return of line 231 |
| `extract_fields` | `sqlite3.h:379`, a callback gets one string for each column | violated: `SetCallback` reads columns one off, the last one past the end |
| `printer_names` | `src/API/Headers/bluetooth.h.xml:56`, `BTH_MFG_CSR` is 10 | violated: the texts of values are all read as hexadecimal |

`build` and `client` check each component inside the composition it runs in:
Fill is a conjunct of every step of Build, and Extract of every step of Client
until the call returns. The module alone has no behaviour that the composition
lacks: Build has all of Fill's when the schema script was not killed, and Client
begins with every call of Extract.

What the properties say:

- `ReferentialIntegrity`, `FirstNamesakeOwns`, `WholeBatches`,
  `OneWrongRowPerName`, `TypesSettle`, `OrphansOnlyByCrash`, `DeclaredWins`
  (Fill): the tables after any mix of executions. The bug of lines 64 and 171
  makes rows wrong, but at most one for each type name in the life of the
  database; and only a death between lines 63 and 69 leaves a pointer type
  without what it points to. A row that is made up never takes the place of a
  declaration, not even for a name like VOID* that is declared and met while
  VOID** is stripped.
- `NoHalfCatalogue`, `LostBuildStaysEmpty` (Build): the price of seven commits
  is that a schema script that dies has lost the file, not that references
  dangle. `ExecutionEnds`: a failed search never sends a loop back.
- `NeverStale`, `AllOrNothing`, `ValuesBeforeArguments`, `RivalsExplained` (Session): a reader is safe at every moment of the filler,
  although functions, arguments and types are committed apart; two arguments in
  one place come of two declarations of the name, or one of them has lost its
  stars and a later execution has found them.
- `FunctionsAsDeclared`, `TypesAsDeclared` (XmlReader): no category leaks from
  one file to the next, and what is lost are exactly the declarations for 64 bits,
  those of the second and later Conditions of a Headers element, and those of the
  Conditions of a Module.
- `TroubleExplained` (Printer): when the printer uses what is not there. The
  causes: an argument that the caller did not pass, a pointer of the caller that
  leads nowhere, or a string of the caller without room for 18 characters; a
  connection that could not be opened below the argument; two arguments in one
  place; a structure, text or nothing hidden behind an alias or in an array; the
  lost upper half of a pointer; a pointer to less than an int, at the end of what is
  mapped; a list of values on something that is no integer; a structure whose
  fields are less than eight bytes each; a null pointer to a structure or to text,
  or one of them passed by value.
- `NumbersRight` (Printer): when the number behind the last parenthesis is the
  value. It is not, or need not be, when the argument or one before it has values;
  for the second argument in a place; for bad and null pointers; when what is read
  through a pointer is more than an int (its upper half is lost) or less (BYTE,
  WORD: the neighbours are taken in); for a FLOAT, whose four bytes are taken for a
  double; for a negative number of less than eight bytes, which comes out
  positive; for an unsigned one of eight bytes that comes out negative; and for a
  number with bits above the width of its type.
- `Parentheses`, `FlagsExplained` (Printer): at most how many parentheses are
  closed too many, and after which arguments the flags stay up. In `TroubleExplained`,
  `NumbersRight` and `FlagsExplained` TLC finds a behaviour when any one of the
  causes or premises is dropped, so none of them is idle.
- `DatabaseDecides`, `NothingLeaks` (Client): for which names `main` dies is a
  matter of the database unless a query fails, and it leaks no tree.
- `ConnectionsOfFrames`, `WildOnlyUnopened`, `DepthDecides` (TypeInformation):
  connections balance on every path; a wild pointer leaves only after a failed
  `sqlite3_open`; a stack overflow is a matter of the database alone.
- `DefectsAreFaults`, `DestructionExact` (Result): at each place of
  the tree is what the database says, except at the places at which a call
  failed, of which there are at most as many as failures; and there something is
  missing, nothing is wrong. `distr` deletes the objects in the order in which
  they were made, all of them if it ends, and it ends exactly if every connection
  could be opened: otherwise it comes to a pointer nobody has set. It needs no
  deeper stack than the reader had room for.
- `PartOfAnswer`, `WholeAnswer`, `NothingLeftOpen`, `ReadsAsBefore` (Extract):
  what has been read is right whatever fails; an undisturbed call gives all of
  it; and it is what the older library read.

### Bounds

*Build.* `MaxRuns = 3`: one execution that dies, one that finishes, one over a
full catalogue; the fourth meets no table that a third has not. The dictionaries
have a name that is declared twice, one that is not declared, one used with
several numbers of stars and twice in one loop, functions that share a name,
functions with and without a DLL: every branch of the script is taken. The
schema script is started as often as one likes. The three runs that look for a
violation in Fill need one execution.

*TypeInformation.* Two type names are enough for every shape of a reference: to
oneself, mutual, dangling (bases only: fields obey the foreign keys). `Shared`
has a structure with three rows, two of them equal, whose fields share a base;
`Nested` a structure inside one inside an alias. `MaxDepth = 4` is less than the
depth some of them need (`Nested` by exactly one), so the overflow happens, and
more than others need. `MaxFaults = 2`: a second failure in the tree that a
first one has already spoilt, and one beside it.

*Client.* The databases of `MCExtract`: two functions of the name, the first
with up to two parameters, the second with none, one or two; filled once, or
twice with the shorter lists; and a table where the second fill found a type the
first had not; the other name of a function is in no table. Two failures, so
that one can follow another. `extract_fields` needs none.

*Session.* The dictionaries of Fill with two functions of one name and an alias
with values, and with types nobody declares; `MaxRuns = 3` for a second fill that
finds what the first did not, and a third beside it; one failed query.

*XmlReader.* Two folders, of five and of three files; every kind of wrapper,
several wrappers in one root, elements before and after a Category, two
Conditions, a variable with enum, flag and fields.

*Printer.* `Byte = 4`: a byte holds four numbers, a word 16, an int 256 and a
pointer 65536, so that all four widths are there and differ. Memory has a number,
a pointer to it and a null pointer below the reach of an int (8, 16, 24); a number
and a pointer to it above (512, 520); a single byte with nothing mapped around it
(400); and four bytes where eight are asked for (528). Of the other numbers the
caller may give, 200 is a handle and negative as an int, and the last one negative
as a `long long`. Twenty-six chains of types, the shapes frequent in
`ApiMonitor.db`, and integers of 1, 2, 4 and 8 bytes with and without a sign, both
floating types, a structure that is packed, arrays, a character passed by value
and a base that nobody has set. Two arguments, because strings and flags pass from
one to the next, and nothing else does: two with one string, or two with
strings of their own where the first has values, which may leave the flags up. A
third argument meets nothing that a second has not.

### Deadlock and fairness

`build` checks deadlock: the schema script can always be started again. All
other runs say `CHECK_DEADLOCK FALSE` because the programs end. `BuildFairSpec`
is weak fairness of a filler that was started, be it that its next table is
there or not: nobody has to start either script, and neither has to die.
`FairSpec` of FirstGeneration and Printer, and `FairClientSpec`, are weak
fairness of `Next`: one thread that waits for nobody, as SQLite returns from
every call. That of Result is weak fairness of the reader and of `distr` once it
runs; nobody has to begin a deletion (`BeautiFunc.cpp` never does).

## 4. Disagreements between the code and its comments

`PROJECT.json` quotes them; in short: `filling_bd.py:171` (type of the first
argument), `:85` (categories), `:148` (namesakes), `SQLFunc.cpp:231` (handle not
closed), `SQLFunc.cpp:25` (columns of `SetCallback`), `BeautiFunc.cpp:59`
(decimal values read with %x). All six were met while the code was translated,
and in the shipped `ApiMonitor.db` the first three can be seen:
`CreateAssemblyCache` has the wrong type for `ppAsmCache`, 217 names occur more
than once, and 9334 functions have no category.

## 5. What is proved

The theorems hold for every value of the constants, from the assumptions the
modules name:

- Fill: `DictsAssumption`, `TextsAssumption`, `RunsAssumption`: the dictionaries
  have the shape the XML reader gives them (XmlReaderProofs proves that it does), the texts the
  script itself writes are texts, the executions are a number of them.
- SQLFunc: `BoundAssumption`, a number of faults. Extract: `DatabasesAssumption`,
  tables that obey the foreign keys (`AlwaysADatabaseHolds` proves it of the
  filler's), and `NoTreeAssumption`, the null pointer is no tree. Session:
  `AskedAssumption` and `ReaderAssumption`, which are those of the reader
  beside the filler's tables; nothing is assumed of the tables there.
- XmlReader: `FoldersAssumption`, files are sequences of elements, and the
  names the reader makes up (a method of an interface, "none") are texts.
- TypeInformation: `DatabasesAssumption`, three tables of rows of the right shape
  (no foreign key is assumed), `BoundsAssumption`, `PointersAssumption` (null and
  an unset pointer are not addresses of objects) and `NoneAssumption` (an empty
  string is no kind of type).
- Printer: `ByteAssumption`, a byte holds two numbers at least, and
  `CallsAssumption`, what a call passes: any strings, any memory, and chains of the
  shape `HasShape`, with a last base that nobody has set where `typeInformation`
  can leave one (`UnsetAtEnd`). Nothing is assumed of pointers, of the length of
  strings or of the calls of SQLite: that they are bad is among the causes the
  properties name.

| module | theorem | statement | argument |
|---|---|---|---|
| FillProofs | `TypeCorrectness` | `Spec => []TypeOK` | `TypeInv` adds that the loop counters are inside the dictionary, that `newTypes` has starred names only, that `missing` is set only inside a loop, and that the pointers on the way to a missing name are there by then |
| | `ForeignKeysHold` | `Spec => []ReferentialIntegrity` | a committed row was pending before, so `ReferencesInv` has the same statement about the lists in memory (`PendingOK`); it stays true because no table ever loses a row (`TablesGrow`, `KnownGrow`) |
| | `OnlyTheFirstNamesakeOwns` | `Spec => []FirstNamesakeOwns` | `NamesakesInv`, about `arguments` and `arguments_list` alike: the search returns the least position of the name, and functions are only appended |
| | `TypesBecomeFinal` | `Spec => TypesSettle` | `VisitedInv`: each loop leaves every name it has passed in `types`, the earlier loops for good; `SettledInv`: once there are arguments, all three loops have passed all names; then no search fails and `InsertTypes` merges nothing |
| | `DeclarationsWin` | `Spec => []DeclaredWins` | once the first step of an execution has merged the declarations, a name that is not in `types` is not declared |
| | `OrphansComeOfCrashes` | `Spec => OrphansOnlyByCrash` | outside a death, a made-up pointer is committed by `Strip` with its base on the way (`missing`), or with its base |
| | `WholeBatchesHold` | `Spec => []WholeBatches` | `MadeInv`: the list in memory has one row for each element that the loop has behind it (`Place`), each made of that element; so it is a whole copy when the loop ends. `BatchInv`: the tables hold c copies of values and fields, d of functions and e of arguments, and an execution is one ahead in the tables it has passed. An argument finds an owner because a batch of functions is there |
| | `OneWrongRowHolds` | `Spec => []OneWrongRowPerName` | `WrongInv`: among the committed rows and those in memory, each tagged with the place it has or is going to have, at most one is wrong for a name; once there is one, the name is in `types` for good, and no search for it fails again. Needs `BatchInv` to know the place of a row that is not committed yet |
| BuildProofs | `BuildForeignKeys`, `BuildTablesHold` | the invariants of Fill, of `BuildSpec` | the lemma `BuildImplementsFill` (`NoSuchTable` maps to `Crash`, the schema script to stuttering) and the theorems above |
| | `BuildTypeCorrectness` | `BuildSpec => [](TypeOK /\ BuildTypeOK)` | the same lemma for `TypeOK`, induction for the rest |
| | `NoHalfCatalogueHolds` | `BuildSpec => []NoHalfCatalogue` | `CompleteInv`: an execution of the filler that has passed the commit of the fields has met all seven tables, and tables are never dropped |
| | `LostBuildIsLost` | `BuildSpec => LostBuildStaysEmpty` | `Stuck`: the schema is unfinished and the script, if it runs, stands before its first table, which exists; then no table is added, and `NoHalfCatalogue` does the rest |
| XmlReaderProofs | `TypeCorrectness` | `Spec => []TypeOK` | `ShapeInv`; with it the list the reader returns is in `Dictionaries`, which Fill assumes |
| | `FunctionsAsDeclaredHolds`, `TypesAsDeclaredHolds` | `Spec => []FunctionsAsDeclared`, `Spec => []TypesAsDeclared` | `FileInv`: what has been found is what the reference definition gives for the elements so far, `category` is the one that stands above the next, `condFlag` whether there was a Condition; `ReadInv`: what has been read is that of the finished files in the order of `walked` |
| TypeInformationProofs | `ConnectionsOfFramesHold`, `WildOnlyUnopenedHolds` | `Spec => []ConnectionsOfFrames`, `Spec => []WildOnlyUnopened` | `IInv`: only the innermost frame can be anywhere else than at its call, the number of connections is that of the frames past `open`, and a frame that has opened none holds the `Arg` as the compiler made it |
| | `TypeCorrectness` | `Spec => []TypeOK` | `IInv` and `DepthInv` below |
| | `DepthDecidesHolds` | `Spec => []DepthDecides` | `DepthInv`: the frames are a depth-first search of the graph of types. `Links`: each frame waits for the type of the next, so that the stack is a chain; `Search`: while nothing has failed, a frame has ruled out a chain too long behind each part it has returned from; `Knowledge`: what a frame has read is what the database says |
| | `ResultReads` | `ResultSpec => Spec` | a step of `~Result` stutters for the reader; with it the four theorems above hold of the tree that is deleted |
| | `DefectsAreFaultsHold`, `DestructionExactHolds` | `ResultSpec => []...` | `TreeInv`, see below |
| ExtractProofs | `TypeCorrectness`, `NothingLeftOpenHolds` | `Spec => [](...)` | `ConnectionInv`: a connection is open exactly between the `pc` values of one function |
| | `PartOfAnswerHolds` | `Spec => []PartOfAnswer` | `CallInv` adds `FoundInOrder` (the arguments found are rows of the table, sorted by their places, each once, after any number of rows of the callback) and `Copied` (the Result holds them as far as it goes, each with its base) |
| | `WholeAnswerHolds` | `Spec => []WholeAnswer` | `WholeInv`: while nothing has failed, what is found is everything the tables have, and each alias has all its values |
| | `ReadsAsTheFirstGeneration` | `Spec => Old!Spec`: the safety part of `ReadsAsBefore` | a step simulation: a query is a step of the older code, the calls of `typeInformation` stutter; the proof needs `Inv` for what a call has found, and `Fitted`: an argument that is put together has only the fields and values its members have given so far |
| | `ClientTypeCorrectness`, `NothingLeaksHolds`, `DatabaseDecidesHolds` | `ClientSpec => []...` | `ClientRunsTheCall`: up to its return the program is Extract; `ClientInv`: the trees made are those in the Result and the one in `arg`, and those deleted the ones before `turn` |
| SessionProofs | `SessionFills` | `SessionSpec => Spec` | the reader stutters for the tables |
| | `AlwaysADatabaseHolds` | `SessionSpec => []AlwaysADatabase` | `SessionFills` and `ForeignKeysHold`: the foreign keys that Extract relies on hold at every commit |
| | `NeverStaleHolds` | `SessionSpec => []NeverStale` | `CallInv` of ExtractProofs, with the tables of the filler for the database: a step of the filler keeps it because tables only grow |
| | `AllOrNothingHolds`, `ValuesBeforeArgumentsHolds` | `SessionSpec => []...` | `FillerInv`, about the tables: the parameters of every declaration are committed together (`ListsInv`, `NamesInv`), the values before the functions (`ValuesInv`); `AnswerInv` and `AliasInv`, about a call in which nothing failed: it has all parameters of the name or none, and what was there before |
| | `RivalsExplainedHolds` | `SessionSpec => []RivalsExplained` | `FillerInv`: each row comes of one declaration (`Explained`), and the first execution makes one row of each parameter (`FirstRunInv`) |
| PrinterProofs | `TypeCorrectness` | `Spec => []TypeOK` | every node that is reached is a member of its chain, and an int of memory fits into a string |
| | `ParenthesesHold` | `Spec => []Parentheses` | `WalkInv`: the parentheses the walk still owes are those of the levels it has opened and of the objects it has passed |
| | `TroubleExplainedHolds`, `NumbersRightHolds`, `FlagsExplainedHolds` | `Spec => []...` | `ExplainInv`: `StringsInv` (a string is the caller's until an argument in its place is begun), `PlaceInv` (the string is what the type that is reached has for a value, unless one of the causes lies before it: `Excused` for the whole argument, `Blurred` for a pointer to less than an int; and the text ends with it), `FlagInv` (a flag that is up was raised by values of this argument or of one before). `HalfIsWide` and `Readings` relate the four bytes that are read to a value of 1, 2, 4 or 8 |

The proof of an invariant has a lemma for each action that can disturb it, and
one for each operator the actions are built from (`StripFacts`, `ResolveFacts`,
`ResolveRowFacts`, `AdvanceFacts`).

*The tree.* A tree has records in records to any depth, and its objects lie all
over the heap. `TreeInv` talks of it without recursion, with a set `W` of nodes.
A node is one finished call of `typeInformation`: the place, the `Arg` that was
returned, the type it was for, how many frames there were left, and two
intervals, the objects made and the connections that could not be opened between
its call and its return. The intervals are cut at `marks`: after the base, and
after each field. `Closed` says of each node that it is `Right` (what
`DefectsAreFaults` asks of a place) and that the nodes of its base and its fields
are in `W` with exactly the pieces of the interval between the marks (`Whole`);
the object of the base is the last of its piece. While the reader runs, `Reads`
puts a node under each frame, whose intervals follow one another to the end of
the heap; a return adds the innermost node to `W`, and no step disturbs the
others because heap and failures only grow (`ClosedStays`, `HeldStays`). So the
result is a node for the whole heap. While `distr` runs, `Follows` gives each of
its frames a node and says that the place where it is (`Where`) is the number of
objects deleted: the next pointer is the next object. A pointer that was never
set is at an unopened connection, so the interval of connections tells whether
there is one. `TreeNodes` shows that the fold `Tree` stays inside `W`.

*Induction.* The prover cannot instantiate an operator parameter, so the
induction theorems of its library are out of reach, and `FoldLeft` and
`FlattenSeq` are recursive functions. Folding goes around both. `Induction` is
stated of a set of numbers, and proved from the theorem that < on Nat is well
founded; `Definable` shows that a recursive function of the shape of `FoldLeft`
exists and obeys its equation, by induction over its finite approximations. From
there `FoldTrace` gives the values that a fold goes through, `FoldInduction` an
invariant of them, again a set, `FoldAppend` one more element; `FlattenTrace`,
`FlattenElements` and `FlattenAppend` are the same of a concatenation, and
`FlattenUpTo` of one whose parts are read one after another. The callbacks of
Extract, the lists of XmlReader and the batches of Fill are all proved about
with these.

Only model-checked:

- All liveness: `ExecutionEnds`, `Terminates`, `Ends`, and the fairness in
  `ReadsAsBefore`. The prover does not reason about ENABLED, which fairness is made of.
- The six runs that look for a violation, which are about single behaviours.

## 6. What is not modelled

- The `main` of the first generation: it prints what it has read and ends.
- `stop_dir` of `parse_all_file`, which both callers leave empty; and files the
  parser rejects or whose elements lack an attribute: the exception ends the
  script before its first statement.
- The header lines of the printer and the chain of names it writes before a
  value: text without a decision. The decimal notation of `std::to_string`: a
  double is printed with six places, which is more or less than its value.
- Strings of the caller that are no numbers of the form 0x..., or more than a
  pointer wide; and the length that a `std::string` goes on to have when `sprintf`
  has written a shorter number over a longer string.
  After the outcome "undefined" nothing is said of the process: a wild access may
  also go unnoticed, and null is one of the values an unset base may have.
- Characters: a text is an address with a terminator of two bytes (TCHAR is
  `wchar_t`) behind it; what its characters are turned into is left out.
- The DLL project, an empty template.
- SQLite, vendored in `sqlite/` twice. It appears through its promises
  (statements are atomic, committed rows survive, a call may fail), as the code
  of BeautiFunc relies on them. It is nearly all of the C code in the
  repository: the lines of BeautiFunc itself are a small part of what is counted
  as the implementation, so the share that the models cover stays small although
  they cover nearly all of BeautiFunc.
- The XML descriptions of the API, which are data.
- SQL text: a name with a quotation mark in it would change a query of
  `SQLFunc.cpp`.

## 7. Plan

Done: Fill; TypeInformation and Result; SQLFunc, Extract and FirstGeneration with the
refinement between them; Dictionary and Build;
Session; XmlReader; Printer; Client; and the proofs of every invariant and
every action property that the passing runs check.

Left: `TypeTree`, an abstract specification of the type reader (one step that
returns a tree with at most so many flaws), TypeInformation shown to implement
it. `DefectsAreFaultsHold` already proves what Extract uses of it.
