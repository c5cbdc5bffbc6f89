-------------------------------- MODULE Result --------------------------------
(***************************************************************************)
(* The tree that typeInformation returns: where it differs from the        *)
(* database it was read from, and what happens when its owner deletes it.  *)
(* Arg::distr is recursive: a call of it for the base, delete, and a call  *)
(* for each of the fields.  Its frames are a variable here, as those of    *)
(* typeInformation are.                                                    *)
(***************************************************************************)
EXTENDS TypeInformation

VARIABLES
  failed,  \* history: the places of the tree where a call of SQLite has failed
  stage,   \* "reading", "deleting", "deleted", or "undefined" behaviour
  walk,    \* the frames of distr, the innermost last
  deleted  \* the objects deleted, in their order

resultVars == <<vars, failed, stage, walk, deleted>>

\* A place of the tree is the way to it from the root: 0 leads to the base, k to
\* the k-th field.  The place that the innermost frame fills:
Place == [k \in 1 .. Len(stack) - 1 |->
            IF stack[k].pc = "base" THEN 0 ELSE stack[k].next]

ResultInit ==
  Init /\ failed = {} /\ stage = "reading" /\ walk = << >> /\ deleted = << >>

\* typeInformation takes a step.
Reading ==
  /\ Next
  /\ failed' = IF faults' = faults THEN failed ELSE failed \cup {Place}
  /\ UNCHANGED <<stage, walk, deleted>>

-----------------------------------------------------------------------------
(* ~Result and distr                                                       *)

\* distr is called for arg; next is the field that is visited next.
Visit(arg) == [pc |-> "base", arg |-> arg, next |-> 1]

This == walk[Len(walk)]

\* The destructor of Result calls distr.
Destroy ==
  /\ stage = "reading" /\ outcome = "returned"
  /\ stage' = "deleting" /\ walk' = <<Visit(result)>>
  /\ UNCHANGED <<vars, failed, deleted>>

Allocated(p) == p \in DOMAIN heap /\ p \notin ToSet(deleted)

In(pc) == stage = "deleting" /\ This.pc = pc

\* baseType->distr().
DistrBase ==
  /\ In("base") /\ This.arg.baseType # NULL /\ Allocated(This.arg.baseType)
  /\ walk' = Append([walk EXCEPT ![Len(walk)].pc = "delete"],
                    Visit(heap[This.arg.baseType]))
  /\ UNCHANGED <<vars, failed, stage, deleted>>

\* delete baseType.
DeleteBase ==
  /\ In("delete") /\ Allocated(This.arg.baseType)
  /\ deleted' = Append(deleted, This.arg.baseType)
  /\ walk' = [walk EXCEPT ![Len(walk)].pc = "fields"]
  /\ UNCHANGED <<vars, failed, stage>>

NothingToDelete ==
  /\ In("base") /\ This.arg.baseType = NULL
  /\ walk' = [walk EXCEPT ![Len(walk)].pc = "fields"]
  /\ UNCHANGED <<vars, failed, stage, deleted>>

\* i->distr().
DistrField ==
  /\ In("fields") /\ This.next <= Len(This.arg.Fields)
  /\ walk' = Append([walk EXCEPT ![Len(walk)].next = @ + 1],
                    Visit(This.arg.Fields[This.next]))
  /\ UNCHANGED <<vars, failed, stage, deleted>>

DistrReturns ==
  /\ In("fields") /\ This.next > Len(This.arg.Fields)
  /\ walk' = SubSeq(walk, 1, Len(walk) - 1)
  /\ stage' = IF Len(walk) = 1 THEN "deleted" ELSE stage
  /\ UNCHANGED <<vars, failed, deleted>>

\* A pointer that nobody has set, or to what has been deleted, is followed.
BadAccess ==
  /\ In("base") \/ In("delete")
  /\ This.arg.baseType # NULL /\ ~Allocated(This.arg.baseType)
  /\ stage' = "undefined"
  /\ UNCHANGED <<vars, failed, walk, deleted>>

Deleting ==
  \/ DistrBase \/ DeleteBase \/ NothingToDelete \/ DistrField \/ DistrReturns
  \/ BadAccess

ResultNext == Reading \/ Destroy \/ Deleting

ResultSpec == ResultInit /\ [][ResultNext]_resultVars

\* A single thread that waits for nobody.  Nobody has to delete the tree:
\* BeautiFunc.cpp does not.
FairSpec ==
  ResultSpec /\ WF_resultVars(Reading) /\ WF_resultVars(Deleting)

-----------------------------------------------------------------------------
(* The tree and the database                                               *)

RowOf(n) ==
  IF n \in DOMAIN db.types THEN db.types[n] ELSE [kind |-> NONE, base |-> NONE]

RowsOf(arg, n) == IF arg.kind \in {"Struct", "Union"} THEN FieldsOf(n) ELSE << >>

NamesOf(arg, n) == IF arg.kind = "Alias" THEN ValuesOf(n) ELSE << >>

Heads(members) ==
  [k \in DOMAIN members |-> <<members[k].name, members[k].order>>]

\* arg says of type n what the database does, as far as its lists go.
Describes(arg, n) ==
  /\ arg.typeName = n
  /\ arg.kind = RowOf(n).kind /\ arg.baseTypeName = RowOf(n).base
  /\ arg.baseType = NULL <=> arg.baseTypeName = NONE
  /\ IsPrefix(Heads(arg.Fields), Heads(RowsOf(arg, n)))
  /\ IsPrefix(arg.defVal, NamesOf(arg, n))

Complete(arg, n) ==
  Len(arg.Fields) = Len(RowsOf(arg, n)) /\ arg.defVal = NamesOf(arg, n)

\* What is left of it when the connection could not be opened, or the query for
\* the row of the type failed; the name and order are those of a field.
Bare(arg) == [arg EXCEPT !.name = NONE, !.order = NONE]

Unopened(arg) == Bare(arg) = FreshArg

Unread(arg, n) ==
  Bare(arg) = [FreshArg EXCEPT !.typeName = n, !.baseType = NULL]

\* The base and the fields of what is at a place.
Below(x) ==
  {[place |-> Append(x.place, 0), arg |-> heap[p], name |-> x.arg.baseTypeName] :
     p \in {x.arg.baseType} \cap DOMAIN heap}
  \cup
  {[place |-> Append(x.place, k), arg |-> x.arg.Fields[k],
    name |-> FieldsOf(x.name)[k].type] :
     k \in DOMAIN x.arg.Fields \cap DOMAIN FieldsOf(x.name)}

\* All places of the tree that was returned, what is there, and for which type.
Tree ==
  FoldLeft(LAMBDA found, level : found \cup UNION {Below(x) : x \in found},
           {[place |-> << >>, arg |-> result, name |-> root]},
           [level \in 1 .. MaxDepth |-> level])

-----------------------------------------------------------------------------
(* Properties                                                              *)

\* A call of SQLite that fails spoils one place of the answer, the one it was
\* made for: whatever the order of the calls, the tree that is returned is the
\* one in the database everywhere else, although every level works on, and
\* returns, objects of the levels below; and even there nothing is wrong, only
\* missing.
DefectsAreFaults ==
  outcome = "returned" =>
    /\ \A x \in Tree :
         \/ Describes(x.arg, x.name) /\ Complete(x.arg, x.name)
         \/ /\ x.place \in failed
            /\ Unopened(x.arg) \/ Unread(x.arg, x.name) \/ Describes(x.arg, x.name)
    /\ Cardinality(failed) <= faults

\* distr deletes the objects in the order in which they were made; it comes to
\* its end exactly if every connection could be opened, and has then deleted all
\* of them: no two pointers of the tree share an object, none is lost when an
\* Arg is copied into a list, none is followed after it was deleted.  And it needs
\* no more frames than typeInformation had room for.
DestructionExact ==
  /\ deleted = [k \in 1 .. Len(deleted) |-> k]
  /\ stage = "deleted" => Len(deleted) = Len(heap) /\ unclosed = 0
  /\ stage = "undefined" => unclosed > 0
  /\ Len(walk) <= MaxDepth

\* The call comes to an end, whichever of its queries fail, and so does distr.
Terminates ==
  /\ <>(outcome # "running")
  /\ stage = "deleting" ~> stage \in {"deleted", "undefined"}
=============================================================================
