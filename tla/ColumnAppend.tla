---------------------------- MODULE ColumnAppend ----------------------------
(***************************************************************************)
(* How ch_send_block builds the columns of a block from PHP rows: the loop *)
(* over rows and cells, and ch_append_value call by call.  A value goes    *)
(* into its column in place, part by part, and any call may throw with the *)
(* parts out of step; the elements of an Array and the entries of a Map    *)
(* are collected in a temporary column (CloneEmpty) and joined at the end. *)
(*                                                                         *)
(* A table is a tree of columns, each named by the path to it: <<>> is the *)
(* block, <<2>> its second column, <<2, 1>> the first part of that one     *)
(* (the nested column of a Nullable, the elements of an Array, a member of *)
(* a Tuple, the keys of a Map).  The block is a Tuple of its columns: the  *)
(* loop over the cells of a row has the checks of the Tuple case.          *)
(***************************************************************************)
EXTENDS CellValues

CONSTANTS
  Tables,      \* the tables inserted into: from paths to types
  PhpValues,   \* the PHP values, the parts of each among them
  RowsFor(_),  \* those tried as rows of a table: arrays, or what is not one
  MaxRows      \* bound: rows of an insert

Caller(n) == SubSeq(n, 1, Len(n) - 1)

TypeTree(t) ==
  /\ DOMAIN t \subseteq Seq(Nat) /\ <<>> \in DOMAIN t /\ t[<<>>].code = "Tuple"
  /\ \A n \in DOMAIN t \ {<<>>} :
       Caller(n) \in DOMAIN t /\ n[Len(n)] \in 1 .. t[Caller(n)].parts
  /\ \A n \in DOMAIN t :
       /\ t[n].parts \in Nat /\ \A k \in 1 .. t[n].parts : Append(n, k) \in DOMAIN t
       /\ t[n].code \in {"Nullable", "Array"} => t[n].parts = 1
       /\ t[n].code = "Map" => t[n].parts = 2
       /\ t[n].code \notin {"Nullable", "Array", "Tuple", "Map"} => t[n].parts = 0
       /\ t[n].code \in {"Int", "Enum"} => t[n].half \in Nat \ {0}
       /\ t[n].code \in {"UInt", "DateTime"} => t[n].size \in Nat \ {0}

ASSUME TablesAssumption == \A t \in Tables : TypeTree(t)
ASSUME ValuesAssumption ==
  /\ Null \in PhpValues /\ Long(0) \in PhpValues
  /\ \A v \in PhpValues :
       /\ Kind(v) = "int" => v[2] \in Int
       /\ Kind(v) = "float" => v[2][1] \in Int /\ v[2][2] \in Nat \ {0}
       /\ Kind(v) = "time" => v[2][1] \in Int /\ v[2][2] \in Int
       /\ Kind(v) = "reference" => v[2] \in PhpValues /\ Kind(v[2]) # "reference"
       /\ Kind(v) = "array" => v[2] \in Seq(PhpValues \X PhpValues)
  /\ \A t \in Tables : RowsFor(t) \subseteq PhpValues
ASSUME MaxRowsAssumption == MaxRows \in Nat

VARIABLES
  table,   \* the table
  rows,    \* the rows of the insert
  i,       \* the row that is next, or being converted
  phase,   \* "rows" between two rows, "cells" inside one, "sent" or "failed"
  top,     \* the column whose ch_append_value is running; <<>>: the loop over cells
  frames,  \* for each column the locals of that call
  cols     \* the columns: cols[<<>>] of the block, cols[n] the temporary of a call

buildVars == <<table, rows, i, phase, top, frames, cols>>

-----------------------------------------------------------------------------
(* Columns of clickhouse-cpp.  What a column stores itself is a sequence:  *)
(* cells, null flags, or the offsets where the rows of an Array or Map     *)
(* end.  A Tuple stores nothing, its size is that of its first member;     *)
(* here it has a mark for each row that is complete.                       *)

EmptyColumns(t) == [n \in DOMAIN t |-> <<>>]

EndOf(offsets) == IF offsets = <<>> THEN 0 ELSE offsets[Len(offsets)]

Collects(n) == table[n].code \in {"Array", "Map"}

(* Columns "from" appended to columns "to".                                *)
Joined(to, from) ==
  [n \in DOMAIN to |->
     IF Collects(n)
       THEN to[n] \o [k \in DOMAIN from[n] |-> EndOf(to[n]) + from[n][k]]
       ELSE to[n] \o from[n]]

(* Mutant: the elements of the rows before are not counted.                *)
AsOneRow_FromZero(n, to, from) ==
  [Joined(to, from) EXCEPT ![n] = Append(to[n], Len(from[Append(n, 1)]))]

(* AppendAsColumn: the elements in "from" become one row of column n.      *)
AsOneRow(n, to, from) ==
  [Joined(to, from) EXCEPT ![n] = Append(to[n], EndOf(to[n]) + Len(from[Append(n, 1)]))]

-----------------------------------------------------------------------------
(* Calls of ch_append_value.  todo: the entries <<key, value>> that are    *)
(* still to be handed on; next: the part that gets the next value; into:   *)
(* whose temporary the call appends to (the argument col).                 *)

Idle == [value |-> Null, into |-> <<>>, todo |-> <<>>, next |-> 1]

(* Mutant: a null has no cell in the nested column.                        *)
Entries_NoPlaceholder(n, v) ==
  IF table[n].code # "Nullable" THEN v[2]
  ELSE IF Kind(v) = "null" THEN <<>>
  ELSE <<<<Null, v>>>>

(* The placeholder under a null keeps cells and flags in step.             *)
Entries(n, v) ==
  IF table[n].code # "Nullable" THEN v[2]
  ELSE IF Kind(v) = "null" THEN <<<<Null, Long(0)>>>>
  ELSE <<<<Null, v>>>>

Call(n, v, buffer) == [value |-> v, into |-> buffer, todo |-> Entries(n, v), next |-> 1]

(* The loop has a value and a column for it.                               *)
HandsOn == frames[top].todo # <<>> /\ frames[top].next <= table[top].parts

Callee == Append(top, frames[top].next)

TakesKey(n) == table[n].code = "Map" /\ frames[n].next = 1

Given == LET entry == Head(frames[top].todo) IN IF TakesKey(top) THEN entry[1] ELSE entry[2]

(* Where the values that the call for column n hands on are appended.      *)
Buffer(n) == IF Collects(n) THEN n ELSE frames[n].into

(* The loop of column n after one of its calls has returned.               *)
Returned(n) ==
  LET f == frames[n]
  IN IF TakesKey(n) THEN [f EXCEPT !.next = 2]
     ELSE [f EXCEPT !.todo = Tail(f.todo), !.next = IF Collects(n) THEN 1 ELSE f.next + 1]

(* CreateColumnByType knows the types of all columns below column n.       *)
Creatable(n) ==
  \A m \in DOMAIN table :
    Len(n) <= Len(m) /\ SubSeq(m, 1, Len(n)) = n => table[m].code # "Unsupported"

Accepts(n, v) ==
  \/ table[n].code = "Nullable"
  \/ /\ table[n].code \in {"Array", "Tuple", "Map"} /\ Kind(v) = "array"
     /\ table[n].code = "Map" => Creatable(n)
  \/ Encodable(table[n], v)

-----------------------------------------------------------------------------

BuildInit ==
  /\ table \in Tables
  /\ \E n \in 0 .. MaxRows : rows \in [1 .. n -> RowsFor(table)]
  /\ i = 1 /\ phase = "rows" /\ top = <<>>
  /\ frames = [n \in DOMAIN table |-> Idle]
  /\ cols = [n \in DOMAIN table |-> EmptyColumns(table)]

TakeRow ==
  /\ phase = "rows" /\ i <= Len(rows) /\ Kind(rows[i]) = "array"
  /\ phase' = "cells"
  /\ frames' = [frames EXCEPT ![<<>>] = Call(<<>>, rows[i], <<>>)]
  /\ UNCHANGED <<table, rows, i, top, cols>>

AppendCell ==
  /\ phase = "cells" /\ HandsOn
  /\ Encodable(table[Callee], Given)
  /\ cols' = [cols EXCEPT ![Buffer(top)][Callee] = Append(@, Encoded(table[Callee], Given))]
  /\ frames' = [frames EXCEPT ![top] = Returned(top)]
  /\ UNCHANGED <<table, rows, i, phase, top>>

(* A Nullable, Array, Tuple or Map: the call goes on with its parts.       *)
EnterColumn ==
  /\ phase = "cells" /\ HandsOn
  /\ table[Callee].code \notin Scalars /\ Accepts(Callee, Given)
  /\ top' = Callee
  /\ frames' = [frames EXCEPT ![Callee] = Call(Callee, Given, Buffer(top))]
  /\ UNCHANGED <<table, rows, i, phase, cols>>

(* All parts have their values: the last statement of the call for n, a    *)
(* flag, a row of elements or of entries.  The temporary is gone.          *)
Completed(n, buffer) ==
  CASE table[n].code = "Nullable" ->
         [cols EXCEPT ![buffer][n] = Append(@, Kind(frames[n].value) = "null")]
    [] Collects(n) ->
         [cols EXCEPT ![buffer] = AsOneRow(n, @, cols[n]), ![n] = EmptyColumns(table)]
    [] OTHER -> [cols EXCEPT ![buffer][n] = Append(@, TRUE)]

AllGiven ==
  /\ frames[top].todo = <<>>
  /\ table[top].code = "Tuple" => frames[top].next = table[top].parts + 1

LeaveColumn ==
  /\ phase = "cells" /\ top # <<>> /\ AllGiven
  /\ cols' = Completed(top, frames[top].into)
  /\ frames' = [frames EXCEPT ![top] = Idle, ![Caller(top)] = Returned(Caller(top))]
  /\ top' = Caller(top)
  /\ UNCHANGED <<table, rows, i, phase>>

EndRow ==
  /\ phase = "cells" /\ top = <<>> /\ AllGiven
  /\ cols' = Completed(<<>>, <<>>)
  /\ frames' = [frames EXCEPT ![<<>>] = Idle]
  /\ i' = i + 1 /\ phase' = "rows"
  /\ UNCHANGED <<table, rows, top>>

(* An exception gives the columns up: a row or a value that is no array,   *)
(* a type that cannot be written, a Map of a type that no template can be  *)
(* made for, an unknown label, too many values for a Tuple or a row, or    *)
(* too few.                                                                *)
Throw ==
  /\ \/ phase = "rows" /\ i <= Len(rows) /\ Kind(rows[i]) # "array"
     \/ /\ phase = "cells"
        /\ \/ HandsOn /\ ~Accepts(Callee, Given)
           \/ frames[top].todo # <<>> /\ frames[top].next > table[top].parts
           \/ frames[top].todo = <<>> /\ ~AllGiven
  /\ phase' = "failed"
  /\ UNCHANGED <<table, rows, i, top, frames, cols>>

SendInsertBlock ==
  /\ phase = "rows" /\ i > Len(rows)
  /\ phase' = "sent"
  /\ UNCHANGED <<table, rows, i, top, frames, cols>>

BuildNext ==
  TakeRow \/ AppendCell \/ EnterColumn \/ LeaveColumn \/ EndRow \/ Throw \/ SendInsertBlock

BuildSpec == BuildInit /\ [][BuildNext]_buildVars

-----------------------------------------------------------------------------
(* Properties                                                              *)

IsList(s) == s \in Seq({s[k] : k \in DOMAIN s})

(* The types of the variables: the columns are what columns of the table   *)
(* can hold, and a call is somewhere in its loop.                          *)
BuildTypeOK ==
  /\ TypeTree(table) /\ i \in Nat \ {0} /\ top \in DOMAIN table
  /\ phase \in {"rows", "cells", "sent", "failed", "read"}
  /\ rows \in Seq(PhpValues)
  /\ frames \in [DOMAIN table -> [value : PhpValues, into : DOMAIN table,
                                 todo : Seq(PhpValues \X PhpValues), next : Nat]]
  /\ \A n \in DOMAIN table : frames[n].next \in 1 .. table[n].parts + 1
  /\ DOMAIN cols = DOMAIN table
  /\ \A b \in DOMAIN table :
       /\ DOMAIN cols[b] = DOMAIN table
       /\ \A n \in DOMAIN table :
            /\ IsList(cols[b][n])
            /\ \A k \in DOMAIN cols[b][n] : Fits(table[n], cols[b][n][k])

(* The calls under way are those for the columns on the path to the        *)
(* running one.  Each but the last waits for the call that it has made,    *)
(* and its value is not used up yet.                                       *)
UnderWay(n) == Len(n) <= Len(top) /\ \A k \in 1 .. Len(n) : n[k] = top[k]

CallsNest ==
  \A n \in DOMAIN table :
    /\ ~UnderWay(n) => frames[n].next = 1
    /\ UnderWay(n) => table[n].code \in {"Nullable", "Array", "Tuple", "Map"}
    /\ UnderWay(n) /\ n # top => frames[n].todo # <<>>
    /\ UnderWay(n) /\ n # <<>> =>
         /\ n[Len(n)] = frames[Caller(n)].next
         /\ frames[n].into = Buffer(Caller(n)) /\ Len(frames[n].into) < Len(n)
    /\ UnderWay(n) /\ table[n].code = "Nullable" =>
         frames[n].next + Len(frames[n].todo) = 2
    /\ table[n].code = "Map" /\ frames[n].next = 2 => frames[n].todo # <<>>

RowLoop ==
  /\ frames[<<>>].into = <<>>
  /\ phase \in {"rows", "sent"} => top = <<>> /\ frames[<<>>].next = 1
  /\ phase # "read" => Len(cols[<<>>][<<>>]) = i - 1

(* A temporary has rows below the column that collects them only.          *)
OnlyBelow ==
  \A b, n \in DOMAIN table : b # <<>> /\ Len(n) <= Len(b) => cols[b][n] = <<>>

(* Each part of column n has a row for each row of n, and one more where   *)
(* the call that is under way has been there; for the rows of an Array or  *)
(* Map the last offset counts.                                             *)
Ahead(b, n, k) == IF frames[n].into = b /\ k < frames[n].next THEN 1 ELSE 0

IsOffsets(s) ==
  /\ s \in Seq(Nat)
  /\ \A k \in 1 .. Len(s) - 1 : s[k] <= s[k + 1]

InStep(b, n) ==
  LET size(k) == Len(cols[b][Append(n, k)])
  IN /\ table[n].code \in {"Nullable", "Tuple"} =>
          \A k \in 1 .. table[n].parts : size(k) = Len(cols[b][n]) + Ahead(b, n, k)
     /\ Collects(n) => IsOffsets(cols[b][n])
     /\ Collects(n) /\ n # b =>
          \A k \in 1 .. table[n].parts : size(k) = EndOf(cols[b][n])
     /\ table[n].code = "Map" /\ n = b =>
          size(1) = size(2) + IF frames[n].next = 2 THEN 1 ELSE 0

PartsInStep == \A b, n \in DOMAIN table : InStep(b, n)

BuildInv == BuildTypeOK /\ CallsNest /\ RowLoop /\ OnlyBelow /\ PartsInStep

(* Whenever the loop of ch_send_block goes from one cell to the next, and  *)
(* when the block is sent, every column has one row for each row that was  *)
(* taken, and its parts (values and null flags, elements and offsets,      *)
(* members of a tuple, keys and values) agree, so that a row means the     *)
(* same in all of them.                                                    *)
BlockIsAligned ==
  top = <<>> /\ phase \in {"rows", "cells", "sent"} =>
    /\ \A k \in 1 .. table[<<>>].parts :
         Len(cols[<<>>][<<k>>]) = (i - 1) + IF k < frames[<<>>].next THEN 1 ELSE 0
    /\ \A n \in DOMAIN table \ {<<>>} : \A k \in 1 .. table[n].parts :
         LET col == cols[<<>>]
         IN Len(col[Append(n, k)]) =
              IF Collects(n) THEN EndOf(col[n]) ELSE Len(col[n])

=============================================================================
