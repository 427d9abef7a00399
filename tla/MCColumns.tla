----------------------------- MODULE MCColumns -----------------------------
(* Instances of Columns for TLC: PHP integers of 4 bits, seconds of 100    *)
(* microseconds, columns of 3 and 4 bits.                                  *)
EXTENDS Columns

IntOf(n) == [code |-> "Int", half |-> 2 ^ (n - 1)]
UIntOf(n) == [code |-> "UInt", size |-> 2 ^ n]
BoolOf(tried) == [code |-> "Bool", tried |-> tried]
StringType == [code |-> "String"]
DateTime == [code |-> "DateTime", size |-> 8]
DateTime64(p) == [code |-> "DateTime64", scale |-> 10 ^ p]
UUID == [code |-> "UUID"]
Unsupported == [code |-> "Unsupported"]
Color == [code |-> "Enum", half |-> 4, labels |-> (<<"red">> :> 1) @@ (<<"blue">> :> -2)]
LowCardinality == [code |-> "LowCardinality"]
Decimal(p) == [code |-> "Decimal", scale |-> p]
Nullable(ty) == [code |-> "Nullable", of |-> ty]
ArrayOf(ty) == [code |-> "Array", of |-> ty]
TupleType(ts) == [code |-> "Tuple", of |-> ts]
MapOf(k, v) == [code |-> "Map", key |-> k, value |-> v]

Texts == {[k \in 1 .. 32 |-> (k * 7) % 16], [k \in 1 .. 32 |-> IF k > 30 THEN 9 ELSE 0]}

(* The values tried for a column, given those for its parts; definitions   *)
(* of four levels in place of a recursive one, which TLC does not cache.  *)
CellsWith(ty, CellsOf(_)) ==
  CASE ty.code = "Int" -> {Long(-3), Long(2)} \cup (IF ty.half = 4 THEN {Long(6)} ELSE {})
    [] ty.code = "UInt" -> {Long(5), Bool(TRUE)} \cup (IF ty.size = 16 THEN {Long(-3)} ELSE {})
    [] ty.code = "Bool" -> ty.tried
    [] ty.code = "String" -> {Str(<<"a">>), Str(<<"3">>)}
    [] ty.code = "DateTime" -> {Long(6), Time(3, 40)}
    [] ty.code = "DateTime64" -> {Long(-2), Time(-2, 99), Time(-1, 7), Time(2, 50),
                                   Float(5, 2), Float(-5, 2)}
    [] ty.code = "UUID" -> {Str(UuidText(t)) : t \in Texts}
    [] ty.code = "Enum" -> {Str(<<"blue">>), Long(1), Long(6), Str(<<"green">>)}
    [] ty.code = "Nullable" -> {Null} \cup CellsOf(ty.of)
    [] ty.code = "Array" ->
         {Long(0)} \cup UNION {{List(s) : s \in [1 .. n -> CellsOf(ty.of)]} : n \in 0 .. 2}
    [] ty.code = "Tuple" ->
         {List(s) : s \in {f \in [1 .. Len(ty.of) -> UNION {CellsOf(ty.of[k]) : k \in DOMAIN ty.of}] :
                             \A k \in DOMAIN f : f[k] \in CellsOf(ty.of[k])}}
           \cup {List(<<CHOOSE v \in CellsOf(ty.of[1]) : TRUE>>)}
    [] ty.code = "Map" ->
         {Arr(<<>>)} \cup
         {Arr(<<<<Str(<<"b">>), v>>, <<Long(3), w>>>>) : v, w \in CellsOf(ty.value)}
    [] OTHER -> {Long(1)}
NoCells(ty) == {}
Cells1(ty) == CellsWith(ty, NoCells)
Cells2(ty) == CellsWith(ty, Cells1)
Cells3(ty) == CellsWith(ty, Cells2)
Cells4(ty) == CellsWith(ty, Cells3)

(* The tree of the columns of a table.                                     *)
PartsOf(ty) ==
  CASE ty.code \in {"Nullable", "Array"} -> <<ty.of>>
    [] ty.code = "Tuple" -> ty.of
    [] ty.code = "Map" -> <<ty.key, ty.value>>
    [] OTHER -> <<>>

TreeWith(ty, TreeOf(_)) ==
  LET parts == PartsOf(ty)
      below == [k \in DOMAIN parts |-> TreeOf(parts[k])]
      paths(k) == {<<k>> \o n : n \in DOMAIN below[k]}
  IN [n \in {<<>>} \cup UNION {paths(k) : k \in DOMAIN parts} |->
        IF n = <<>> THEN ty @@ [parts |-> Len(parts)] ELSE below[n[1]][Tail(n)]]
Tree1(ty) == TreeWith(ty, NoCells)
Tree2(ty) == TreeWith(ty, Tree1)
Tree3(ty) == TreeWith(ty, Tree2)
Tree4(ty) == TreeWith(ty, Tree3)
Table(types) == TreeWith(TupleType(types), Tree4)

(* A row that is not an array, and lists with any number of cells.         *)
RowsOf(t) ==
  LET ts == t[<<>>].of
      cellsAt(k) == IF k <= Len(ts) THEN Cells4(ts[k]) ELSE {Null}
      Lists(n) == {f \in [1 .. n -> UNION {cellsAt(k) : k \in 1 .. n}] :
                     \A k \in 1 .. n : f[k] \in cellsAt(k)}
  IN {Null} \cup UNION {{List(f) : f \in Lists(n)} : n \in 0 .. Len(ts) + 1}

WrittenTables == {Table(ts) : ts \in
  { <<IntOf(3), Nullable(StringType)>>, <<UIntOf(4), Color>>,
    <<DateTime, DateTime64(0)>>, <<DateTime64(1)>>, <<Nullable(DateTime64(3))>>,
    <<UUID>>, <<LowCardinality>>, <<ArrayOf(Nullable(IntOf(4)))>>,
    <<Nullable(IntOf(4)), TupleType(<<IntOf(4), StringType>>)>>,
    <<MapOf(StringType, ArrayOf(IntOf(4)))>>, <<MapOf(StringType, Unsupported)>>,
    <<ArrayOf(ArrayOf(UIntOf(3)))>>,
    <<BoolOf({Bool(FALSE), Long(2), Str(<<"0">>), Str(<<"a">>)})>>,
    <<ArrayOf(TupleType(<<Nullable(BoolOf({Bool(TRUE)})), BoolOf({Bool(TRUE)})>>))>> }}

OtherPrograms ==
  {ty @@ [parts |-> 0] : ty \in {UIntOf(3), UIntOf(4), UUID}
      \cup {DateTime64(p) : p \in 0 .. 3} \cup {Decimal(p) : p \in 0 .. 3}}

StoredBy(ty) ==
  CASE ty.code = "UInt" -> 0 .. ty.size - 1
    [] ty.code = "UUID" -> Texts
    [] OTHER -> -250 .. 250

(* The PHP values of the rows and of their parts.                          *)
WithParts(S) ==
  S \cup {v[2] : v \in {u \in S : Kind(u) = "reference"}}
    \cup UNION {UNION {{v[2][k][1], v[2][k][2]} : k \in DOMAIN v[2]} :
                   v \in {u \in S : Kind(u) = "array"}}

ValuesOf(values) == WithParts(WithParts(WithParts(WithParts({Null, Long(0)} \cup values))))

(* Of two names: TLC keeps the value of the first, and the second is given *)
(* to PhpValues, which it evaluates at every use.                          *)
AllWritten == ValuesOf(UNION {RowsOf(t) : t \in WrittenTables})
WrittenValues == AllWritten

(* References to values, as foreach ($row as &$cell) leaves them.          *)
ReferenceTables == {Table(<<Nullable(IntOf(3)), Nullable(StringType)>>)}
References(ty) == {Null, Ref(Null)} \cup {Ref(v) : v \in Cells1(ty.of)}
RowsWithReferences(t) ==
  {List(<<v, w>>) : v \in References(t[<<1>>]), w \in References(t[<<2>>])}
AllReferences == ValuesOf(UNION {RowsWithReferences(t) : t \in ReferenceTables})
ReferenceValues == AllReferences
NoTypes == {}
=============================================================================
