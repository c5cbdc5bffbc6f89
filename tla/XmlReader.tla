------------------------------ MODULE XmlReader ------------------------------
(***************************************************************************)
(* xml_reader.py: parse_all_file walks over a folder in the order of the   *)
(* file system and parse_file over the elements of each file, carrying     *)
(* the category and the Condition it has met from one element to the next. *)
(***************************************************************************)
EXTENDS Dictionary, FiniteSetsExt, SequencesExt

CONSTANT Folders  \* possible contents of the folder: file -> children of its root

\* The elements of a file, as far as the reader looks at them.
Variables == [tag : {"Variable"}, name : Names, kind : Texts,
              base : Names \cup {NONE},
              enums : Seq(Seq(Texts)), flags : Seq(Seq(Texts)),
              fields : Seq(Params)]
Apis == [tag : {"Api"}, name : Texts, ret : Names, params : Seq(Params)]
Categories == [tag : {"Category"}, name : Texts]
Conditions == [tag : {"Condition"}, inner : Seq(Variables)]
Others == [tag : {"SourceModule", "ModuleAlias", "ErrorDecode"}]

Wrappers ==
  [tag : {"Module", "Interface"}, name : Texts, category : Texts,
   elems : Seq(Variables \cup Apis \cup Categories \cup Conditions \cup Others)]
  \cup
  [tag : {"Headers"}, name : Texts, category : Texts,
   elems : Seq(Variables \cup Conditions)]

\* None is no element; the names the reader makes up itself are texts too.
ASSUME FoldersAssumption ==
  /\ \A folder \in Folders : folder \in [DOMAIN folder -> Seq(Wrappers)]
  /\ NONE \notin Wrappers /\ "none" \in Texts
  /\ \A folder \in Folders : \A f \in DOMAIN folder : \A n \in DOMAIN folder[f] :
       LET w == folder[f][n]
       IN  \A k \in DOMAIN w.elems :
             w.tag = "Interface" /\ w.elems[k].tag = "Api" =>
               w.name \o "." \o w.elems[k].name \in Texts

-----------------------------------------------------------------------------
VARIABLES
  folder,    \* the files
  walked,    \* the files os.walk has given so far, in its order
  wrapper,   \* the element that is read, or NONE between two files
  e,         \* how many of its elements have been read
  category,  \* category
  condFlag,  \* cond_flag
  found,     \* func_info_arr and type_info_arr
  read,      \* bd_func and bd_type
  returned   \* parse_all_file has returned

vars == <<folder, walked, wrapper, e, category, condFlag, found, read, returned>>

Nothing == [types |-> << >>, functions |-> << >>]

Init ==
  /\ folder \in Folders /\ walked = << >>
  /\ wrapper = NONE /\ e = 0 /\ category = "none" /\ condFlag = FALSE
  /\ found = Nothing /\ read = Nothing /\ returned = FALSE

-----------------------------------------------------------------------------
(* What one element says                                                   *)

\* parse_variable: the first Enum, or the first Flag, or the fields.
ParseVariable(v) ==
  LET lists == v.enums \o v.flags
  IN  [name |-> v.name, kind |-> v.kind, base |-> v.base,
       fields |-> IF lists = << >> THEN v.fields ELSE << >>,
       defs |-> IF lists = << >> THEN << >> ELSE Head(lists)]

ParseVariables(s) == [k \in DOMAIN s |-> ParseVariable(s[k])]

\* An Api of the wrapper w, in whatever category.
ParseApi(w, a, c) ==
  [name |-> IF w.tag = "Interface" /\ w.name # "" THEN w.name \o "." \o a.name
            ELSE a.name,
   dll |-> IF w.tag = "Module" THEN w.name ELSE "none",
   category |-> c, ret |-> a.ret, params |-> a.params]

-----------------------------------------------------------------------------
(* parse_file                                                              *)

\* find: the first element with the tag.
Find(root, tag) ==
  LET ks == {k \in DOMAIN root : root[k].tag = tag}
  IN  IF ks = {} THEN NONE ELSE root[Min(ks)]

\* Module before Interface before Headers.
Chosen(root) ==
  IF Find(root, "Module") # NONE THEN Find(root, "Module")
  ELSE IF Find(root, "Interface") # NONE THEN Find(root, "Interface")
  ELSE Find(root, "Headers")

FirstCategory(w) == IF w.tag = "Module" THEN "none" ELSE w.category

\* Mutant: the category of the last file is still there.
OpenFileKeepsCategory(f) ==
  /\ wrapper = NONE /\ ~returned /\ f \notin ToSet(walked)
  /\ walked' = Append(walked, f)
  /\ wrapper' = Chosen(folder[f]) /\ e' = 0
  /\ found' = Nothing /\ condFlag' = FALSE
  /\ UNCHANGED <<folder, read, returned, category>>

\* A file without one of the three elements gives two empty lists.
OpenFile(f) ==
  /\ wrapper = NONE /\ ~returned /\ f \notin ToSet(walked)
  /\ walked' = Append(walked, f)
  /\ wrapper' = Chosen(folder[f]) /\ e' = 0
  /\ category' = IF wrapper' = NONE THEN category ELSE FirstCategory(wrapper')
  /\ found' = Nothing /\ condFlag' = FALSE
  /\ UNCHANGED <<folder, read, returned>>

\* The next element, of a wrapper with the tag t.
At(t) ==
  /\ wrapper # NONE /\ e < Len(wrapper.elems) /\ wrapper.elems[e + 1].tag = t
  /\ e' = e + 1
  /\ UNCHANGED <<folder, walked, wrapper, read, returned>>

Elem == wrapper.elems[e + 1]

InHeaders == wrapper.tag = "Headers"

ReadApi ==
  /\ At("Api") /\ ~InHeaders
  /\ found' = [found EXCEPT !.functions =
                 Append(@, ParseApi(wrapper, Elem, category))]
  /\ UNCHANGED <<category, condFlag>>

\* Mutant: attrib.get of an attribute that is not there.
ReadCategoryAbsent ==
  /\ At("Category") /\ ~InHeaders
  /\ category' = NONE
  /\ UNCHANGED <<found, condFlag>>

ReadCategory ==
  /\ At("Category") /\ ~InHeaders
  /\ category' = Elem.name
  /\ UNCHANGED <<found, condFlag>>

ReadVariable ==
  /\ At("Variable")
  /\ found' = [found EXCEPT !.types = Append(@, ParseVariable(Elem))]
  /\ UNCHANGED <<category, condFlag>>

\* Mutant: the flag is not set.
ReadEveryCondition ==
  /\ At("Condition") /\ InHeaders /\ ~condFlag
  /\ found' = [found EXCEPT !.types = @ \o ParseVariables(Elem.inner)]
  /\ UNCHANGED <<category, condFlag>>

\* The first Condition of Headers: the declarations for 32 bits.
ReadCondition ==
  /\ At("Condition") /\ InHeaders /\ ~condFlag
  /\ condFlag' = TRUE
  /\ found' = [found EXCEPT !.types = @ \o ParseVariables(Elem.inner)]
  /\ UNCHANGED category

\* Later ones, all of them outside Headers, and tags the reader does not know.
PassOver ==
  /\ \/ At("Condition") /\ (InHeaders => condFlag)
     \/ \E t \in {"SourceModule", "ModuleAlias", "ErrorDecode"} : At(t)
  /\ UNCHANGED <<category, condFlag, found>>

\* bd_func + bd[0], bd_type + bd[1].
EndFile ==
  /\ wrapper # NONE /\ e = Len(wrapper.elems)
  /\ wrapper' = NONE
  /\ read' = [types |-> read.types \o found.types,
              functions |-> read.functions \o found.functions]
  /\ UNCHANGED <<folder, walked, e, category, condFlag, found, returned>>

Return ==
  /\ wrapper = NONE /\ ~returned /\ ToSet(walked) = DOMAIN folder
  /\ returned' = TRUE
  /\ UNCHANGED <<folder, walked, wrapper, e, category, condFlag, found, read>>

Next ==
  \/ \E f \in DOMAIN folder : OpenFile(f)
  \/ ReadApi \/ ReadCategory \/ ReadVariable \/ ReadCondition \/ PassOver
  \/ EndFile \/ Return

Spec == Init /\ [][Next]_vars

-----------------------------------------------------------------------------
(* Properties                                                              *)

\* The shape of the variables: what is returned is what the filler takes.
TypeOK ==
  /\ folder \in Folders /\ ToSet(walked) \subseteq DOMAIN folder
  /\ category \in Texts /\ condFlag \in BOOLEAN /\ returned \in BOOLEAN
  /\ found \in Dictionaries /\ read \in Dictionaries

\* The positions in w of the elements with the tag t.
Positions(w, t) == {k \in DOMAIN w.elems : w.elems[k].tag = t}

\* The nearest Category above, in the same file.
CategoryAbove(w, k) ==
  LET above == {m \in Positions(w, "Category") : m < k}
  IN  IF above = {} THEN FirstCategory(w) ELSE w.elems[Max(above)].name

FunctionsOf(root) ==
  LET w == Chosen(root)
  IN  IF w = NONE THEN << >>
      ELSE FlattenSeq([k \in DOMAIN w.elems |->
             IF w.elems[k].tag = "Api"
             THEN <<ParseApi(w, w.elems[k], CategoryAbove(w, k))>> ELSE << >>])

\* What of root is open to the reader: all but the Conditions of a Module or an
\* Interface, and of Headers after the first.
DeclarationsOf(root) ==
  LET w == Chosen(root)
      first(k) == w.tag = "Headers" /\ k = Min(Positions(w, "Condition"))
  IN  IF w = NONE THEN << >>
      ELSE FlattenSeq([k \in DOMAIN w.elems |->
             CASE w.elems[k].tag = "Variable" -> <<w.elems[k]>>
               [] w.elems[k].tag = "Condition" /\ first(k) -> w.elems[k].inner
               [] OTHER -> << >>])

Walked(of(_)) ==
  FlattenSeq([k \in DOMAIN walked |-> of(folder[walked[k]])])

\* In whatever order the files come, every function is there once, in the
\* module or interface of its own file, with its own parameters, and with the
\* category that stands nearest above it in that file.
FunctionsAsDeclared ==
  returned => read.functions = Walked(FunctionsOf)

\* Every declaration that the reader can see is there once, in order, with
\* either values or fields, and nothing else is: those for 64 bits are lost,
\* and with them all that a Module declares for a condition.
TypesAsDeclared ==
  returned => read.types = ParseVariables(Walked(DeclarationsOf))

=============================================================================
