------------------------------ MODULE MCPrinter ------------------------------
(* Calls with one or two arguments whose types are chains of the shapes that  *)
(* are frequent in ApiMonitor.db.                                             *)
EXTENDS Printer

T(kind, size) ==
  [kind |-> kind, base |-> "", size |-> size, signed |-> FALSE, defs |-> << >>,
   fields |-> 0]

Pointer == T("Pointer", 8)
Alias == T("Alias", 0)
ToVOID(type) == [type EXCEPT !.base = "VOID"]
Integer(size) == T("Integer", size)
SignedInteger(size) == [Integer(size) EXCEPT !.signed = TRUE]
Struct(size, fields) == [T("Struct", size) EXCEPT !.fields = fields]
Text == T("TCharacter", 2)
Void == T("Void", 0)
Interface == T("Interface", 8)

Hex(d) == [hex |-> TRUE, digits |-> d]
Decimal(d) == [hex |-> FALSE, digits |-> d]

\* BTH_MFG_CSR is 10.
Values(type) == [type EXCEPT !.defs =
  <<[name |-> "ON", text |-> Hex(<<0, 1>>)],
    [name |-> "CSR", text |-> Decimal(<<1, 0>>)]>>]

Whole(chain) == [order |-> 0, chain |-> chain, unset |-> FALSE]

Arguments ==
  { Whole(<<Integer(4)>>),
    Whole(<<Integer(8)>>),
    Whole(<<SignedInteger(8)>>),
    Whole(<<Alias, SignedInteger(4)>>),
    Whole(<<Values(Alias), Alias, Integer(4)>>),
    Whole(<<Values(Alias), Pointer, Integer(4)>>),
    Whole(<<Values(Alias), Pointer, Pointer, Integer(4)>>),
    Whole(<<Pointer, Struct(16, 2)>>),
    Whole(<<Pointer, Struct(8, 2)>>),
    Whole(<<Struct(16, 2)>>),
    Whole(<<Pointer, Alias, Struct(16, 2)>>),
    Whole(<<Pointer, Struct(0, 0)>>),
    Whole(<<Pointer, Pointer, Alias, Integer(4)>>),
    Whole(<<Pointer, SignedInteger(1)>>),
    Whole(<<Pointer, Values(Alias), Integer(2)>>),
    Whole(<<Pointer, Integer(8)>>),
    Whole(<<Alias, Pointer, Text>>),
    Whole(<<Values(Alias), Pointer, Text>>),
    Whole(<<Values(Alias), ToVOID(Pointer), ToVOID(Alias), Void>>),
    Whole(<<Pointer, Pointer, Interface>>),
    Whole(<<T("Floating", 8)>>),
    Whole(<<Pointer, Alias, T("Floating", 4)>>),
    Whole(<<Pointer, Pointer, Text>>),
    Whole(<<Text>>),
    Whole(<<Pointer, T("Array", 0), Text>>),
    [Whole(<<Pointer, T("", 8)>>) EXCEPT !.unset = TRUE] }

\* An object of so many bytes, at the address p.
Put(p, size, v) ==
  [q \in Cells(p, size) |-> (v \div (IF q = p THEN 1 ELSE Byte ^ (q - p))) % Byte]

\* What the given numbers lead to: a number, a pointer to it, a null pointer; above
\* the reach of an int a number and a pointer to it; a single byte; and the end of
\* what is mapped, in the middle of a number.
MCMemory ==
  Put(8, 8, 16) @@ Put(16, 8, 8) @@ Put(24, 8, 0)
    @@ Put(512, 8, 300) @@ Put(520, 8, 512) @@ Put(528, 4, 0) @@ Put(400, 1, 3)

\* 200 is a handle, or negative as an int, as the last is as a long long: they
\* lead nowhere.
Given == {0, 1, 8, 16, 24, 200, 400, 512, 520, 528, Cap(8) - 1}

\* The caller's pointers are null or good, to the end of the chain.
Valid == {x \in Arguments \X Given : Good(MCMemory, x[1].chain, x[2])}

\* The strings of the caller and those that are short.
CallOf(arguments, strings, short) ==
  [arguments |-> arguments, args |-> strings, short |-> short, memory |-> MCMemory]

\* Arguments have to do with each other when they share a string, or when the
\* first has values, for which it may leave the flags up.
MCCalls ==
  {CallOf(<<x[1]>>, <<x[2]>>, {}) : x \in Arguments \X Given}
  \cup {CallOf(<<x[1], b>>, <<x[2]>>, {}) : x \in Valid, b \in Arguments}
  \cup {CallOf(<<x[1], [y[1] EXCEPT !.order = 1]>>, <<x[2], y[2]>>, {}) :
          x \in {v \in Valid : HasValues(v[1])}, y \in {v \in Valid : v[2] <= 8}}
  \* A string is missing, or short.
  \cup {CallOf(<<x[1]>>, << >>, {}) : x \in Valid}
  \cup {CallOf(<<x[1]>>, <<x[2]>>, {1}) : x \in Valid}

-----------------------------------------------------------------------------
\* The header of Bluetooth: <Set Name="BTH_MFG_CSR" Value="10"/>.  A name that is
\* printed belongs to the value.
Worth(literal) ==
  FoldLeft(LAMBDA n, d : (IF literal.hex THEN 16 ELSE 10) * n + d, 0,
           literal.digits)

NamesOfTheirValues ==
  \A k \in DOMAIN lines :
    LET a == call.arguments[k]
    IN  \A m \in 1 .. Len(a.chain) - 1 : \A n \in DOMAIN a.chain[m].defs :
          Name(a.chain[m].defs[n].name) \in ToSet(lines[k])
            => Low(Worth(a.chain[m].defs[n].text)) = Low(Meant(a)[m])
=============================================================================
