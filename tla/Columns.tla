------------------------------ MODULE Columns ------------------------------
(***************************************************************************)
(* The rows that a query gives for a block: ch_column_value_to_zval for    *)
(* every cell, of a block that ColumnAppend has built or of one that other *)
(* programs have filled.                                                   *)
(***************************************************************************)
EXTENDS ColumnAppend, SequencesExt

CONSTANTS
  ServerTypes,  \* types of the columns that other programs have filled
  Stored(_)     \* the contents of such a cell

VARIABLE out    \* the rows read back

vars == <<buildVars, out>>

Values(v) == [k \in DOMAIN v[2] |-> v[2][k][2]]
KeySeq(v) == [k \in DOMAIN v[2] |-> v[2][k][1]]
Keys(v) == {v[2][k][1] : k \in DOMAIN v[2]}
At(v, key) == LET k == CHOOSE n \in DOMAIN v[2] : v[2][n][1] = key IN v[2][k][2]

-----------------------------------------------------------------------------
(* ch_column_value_to_zval: a cell of a column as a PHP value              *)

(* The entries of a PHP array with one more: a key occurs once.            *)
WithEntry(entries, key, v) ==
  IF \E k \in DOMAIN entries : entries[k][1] = key
    THEN [k \in DOMAIN entries |-> IF entries[k][1] = key THEN <<key, v>> ELSE entries[k]]
    ELSE Append(entries, <<key, v>>)

KeyOf(v) == IF Kind(v) = "int" THEN v ELSE ArrayKey(ToStr(v))

(* Row "row" of an array has the elements after the end of the row before. *)
Begin(offsets, row) == IF row = 1 THEN 0 ELSE offsets[row - 1]

data == cols[<<>>]

RECURSIVE ValueToZval(_, _)
Elements(n, part, row) ==
  LET first == Begin(data[n], row)
  IN [k \in 1 .. data[n][row] - first |-> ValueToZval(Append(n, part), first + k)]

ValueToZval(n, row) ==
  CASE table[n].code = "Nullable" ->
         IF data[n][row] THEN Null ELSE ValueToZval(Append(n, 1), row)
    [] table[n].code = "Array" -> List(Elements(n, 1, row))
    [] table[n].code = "Tuple" ->
         List([k \in 1 .. table[n].parts |-> ValueToZval(Append(n, k), row)])
    [] table[n].code = "Map" ->
         Arr(FoldLeft(LAMBDA entries, kv : WithEntry(entries, KeyOf(kv[1]), kv[2]),
                      <<>>, Zip(Elements(n, 1, row), Elements(n, 2, row))))
    [] OTHER -> Decoded(table[n], data[n][row])

-----------------------------------------------------------------------------

(* A block of one cell that another program has stored.                    *)
Served ==
  /\ phase = "read" /\ rows = <<>> /\ i = 1 /\ top = <<>>
  /\ \E ty \in ServerTypes : \E cell \in Stored(ty) :
       /\ table = (<<>> :> [code |-> "Tuple", parts |-> 1]) @@ (<<1>> :> ty)
       /\ cols = (<<>> :> ((<<>> :> <<TRUE>>) @@ (<<1>> :> <<cell>>)))
                    @@ (<<1>> :> EmptyColumns(table))
  /\ frames = [n \in DOMAIN table |-> Idle]

Init == (BuildInit \/ Served) /\ out = <<>>

(* ch_result_next returns the next row of the block.                       *)
ReadRow ==
  /\ phase \in {"sent", "read"} /\ Len(out) < Len(data[<<1>>])
  /\ out' = Append(out, Values(ValueToZval(<<>>, Len(out) + 1)))
  /\ UNCHANGED buildVars

Next == (BuildNext /\ UNCHANGED out) \/ ReadRow

Spec == Init /\ [][Next]_vars

-----------------------------------------------------------------------------
(* Properties                                                              *)

(* What the table of types promises for value v read back as w.            *)
RECURSIVE Same(_, _, _)
Same(n, v, w) ==
  CASE Kind(v) = "reference" -> Same(n, v[2], w)
    [] Kind(v) # "reference" /\ table[n].code = "Nullable" ->
         IF v = Null THEN w = Null ELSE Same(Append(n, 1), v, w)
    [] table[n].code \in {"Array", "Tuple"} /\ Kind(v) = "array" ->
         /\ KeySeq(w) = [k \in DOMAIN v[2] |-> Long(k - 1)]
         /\ \A k \in DOMAIN v[2] :
              Same(Append(n, IF table[n].code = "Array" THEN 1 ELSE k), Values(v)[k], Values(w)[k])
    [] table[n].code = "Map" /\ Kind(v) = "array" ->
         /\ Keys(w) = Keys(v)
         /\ \A key \in Keys(v) : Same(Append(n, 2), At(v, key), At(w, key))
    [] OTHER -> SameCell(table[n], v, w)

(* A row that was written is read back as the program wrote it: nulls,     *)
(* nested arrays, tuples and maps included, times before 1970 too, and no  *)
(* cell in the place of another.                                           *)
ReadsBackWhatWasWritten ==
  phase = "sent" =>
    \A r \in DOMAIN out : \A k \in 1 .. table[<<>>].parts :
      Same(<<k>>, Values(rows[r])[k], out[r][k])

FromDigits(s) == FoldLeft(LAMBDA n, d : 10 * n + d, 0, s)

(* The value of a cell that some other program has stored is not changed   *)
(* by the way it is shown, except that a UInt64 past PHP_INT_MAX is        *)
(* rounded to a float: it is never negative, a decimal is exact and has    *)
(* its scale, the text of a UUID parses to the same UUID, and a time is    *)
(* rounded down to the microsecond.                                        *)
Shows(ty, cell, w) ==
  CASE ty.code = "Decimal" ->
         LET t == w[2]
             n == FromDigits(t.whole \o t.fraction)
         IN /\ Len(t.fraction) = ty.scale /\ t.whole # <<>>
            /\ (t.whole[1] = 0 => Len(t.whole) = 1)
            /\ cell = IF t.negative THEN - n ELSE n
    [] ty.code = "UUID" ->
         /\ ParseUuid(w[2]) = cell
         /\ {k \in DOMAIN w[2] : w[2][k] = 16} = {9, 14, 19, 24} /\ Len(w[2]) = 36
    [] OTHER -> ShownCell(ty, cell, w)

ShowsWhatIsStored ==
  phase = "read" => \A r \in DOMAIN out : Shows(table[<<1>>], data[<<1>>][r], out[r][1])

(* A null that is written to a Nullable column is null when it is read.    *)
NullStaysNull ==
  phase = "sent" =>
    \A r \in DOMAIN out : \A k \in 1 .. table[<<>>].parts :
      table[<<k>>].code = "Nullable" /\ Values(rows[r])[k] \in {Null, Ref(Null)} => out[r][k] = Null

=============================================================================
