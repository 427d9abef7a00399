----------------------------- MODULE CellValues -----------------------------
(***************************************************************************)
(* PHP values, and the cells of scalar columns: what ch_append_value       *)
(* stores for a value and what ch_column_value_to_zval makes of a cell.    *)
(*                                                                         *)
(* A PHP value is a pair of its type and its contents.  Integers go from   *)
(* -LongHalf to LongHalf - 1 in PHP and as far as the type says in a       *)
(* column; a second has MicrosPerSecond microseconds.  A float is a        *)
(* fraction.  A string is a sequence of symbols; one whose spelling does   *)
(* not matter is one symbol.                                               *)
(***************************************************************************)
EXTENDS Integers, Sequences, TLC

CONSTANTS
  LongHalf,         \* 2^63 in the program
  TicksHalf,        \* 2^63 in the program, where ticks are of type int64_t
  FloatStep,        \* 2^11 in the program: from LongHalf to 2 * LongHalf the
                    \* doubles are that far apart
  MicrosPerSecond   \* 1000000 in the program

ASSUME WidthAssumption ==
  {LongHalf, TicksHalf, FloatStep, MicrosPerSecond} \subseteq Nat \ {0}

-----------------------------------------------------------------------------
(* PHP values                                                              *)

Null == <<"null", 0>>
Long(n) == <<"int", n>>
Float(n, d) == <<"float", <<n, d>>>>  \* n / d in lowest terms
Str(s) == <<"string", s>>
Bool(b) == <<"bool", b>>
Time(sec, us) == <<"time", <<sec, us>>>>
Ref(v) == <<"reference", v>>
Arr(entries) == <<"array", entries>>  \* entries: a sequence of <<key, value>>
List(s) == Arr([k \in DOMAIN s |-> <<Long(k - 1), s[k]>>])

Kind(v) == v[1]
IsLong(n) == - LongHalf <= n /\ n < LongHalf

(* Division as in C++, towards zero.                                       *)
Quot(a, b) == IF a < 0 THEN - ((- a) \div b) ELSE a \div b

(* The cast to a signed type of the values from -half to half - 1.         *)
Wrapped(n, half) ==
  LET m == n % (2 * half) IN IF m < half THEN m ELSE m - 2 * half

(* zval_get_long, zval_get_string and zend_is_true look through a          *)
(* reference; no string that is made a number is numeric.                  *)
Deref(v) == IF Kind(v) = "reference" THEN v[2] ELSE v

ToLong(v) ==
  LET w == Deref(v)
  IN CASE Kind(w) = "int" -> w[2]
       [] Kind(w) = "float" -> Wrapped(Quot(w[2][1], w[2][2]), LongHalf)
       [] Kind(w) = "bool" -> IF w[2] THEN 1 ELSE 0
       [] Kind(w) = "array" -> IF w[2] = <<>> THEN 0 ELSE 1
       [] Kind(w) = "time" -> 1
       [] OTHER -> 0

ToStr(v) ==
  LET w == Deref(v)
  IN CASE Kind(w) = "int" -> <<ToString(w[2])>>
       [] Kind(w) = "string" -> w[2]
       [] Kind(w) = "array" -> <<"Array">>
       [] Kind(w) = "bool" -> IF w[2] THEN <<"1">> ELSE <<>>
       [] Kind(w) = "float" -> <<ToString(w[2])>>
       [] OTHER -> <<>>

IsTrue(v) ==
  LET w == Deref(v)
  IN CASE Kind(w) = "int" -> w[2] # 0
       [] Kind(w) = "float" -> w[2][1] # 0
       [] Kind(w) = "bool" -> w[2]
       [] Kind(w) = "string" -> w[2] \notin {<<>>, <<"0">>}
       [] Kind(w) = "array" -> w[2] # <<>>
       [] OTHER -> Kind(w) # "null"

(* A string key that spells an integer becomes that integer.               *)
ArrayKey(s) ==
  IF \E n \in - LongHalf .. LongHalf - 1 : <<ToString(n)>> = s
    THEN Long(CHOOSE n \in - LongHalf .. LongHalf - 1 : <<ToString(n)>> = s)
    ELSE Str(s)

-----------------------------------------------------------------------------
(* The text of a UUID: 32 hexadecimal digits in groups, 16 for a dash      *)

Dash == <<16>>

UuidText(u) ==
  SubSeq(u, 1, 8) \o Dash \o SubSeq(u, 9, 12) \o Dash \o SubSeq(u, 13, 16) \o Dash
    \o SubSeq(u, 17, 20) \o Dash \o SubSeq(u, 21, 32)

(* 16 nibbles of a word into which these were shifted from the right.      *)
Word(nibbles) ==
  LET zeros == 16 - Len(nibbles)
  IN [k \in 1 .. 16 |-> IF k <= zeros THEN 0 ELSE nibbles[k - zeros]]

(* What is not a digit is skipped, and what follows 32 digits.             *)
ParseUuid(text) ==
  LET digits == SelectSeq(text, LAMBDA c : c < 16)
      n == Len(digits)
  IN Word(SubSeq(digits, 1, IF n < 16 THEN n ELSE 16))
       \o Word(SubSeq(digits, 17, IF n < 32 THEN n ELSE 32))

(* The text of a decimal: its sign, its digits, and a point before the     *)
(* last "scale" of them.                                                   *)
Digits[n \in Nat] == IF n < 10 THEN <<n>> ELSE Append(Digits[n \div 10], n % 10)

Padded(digits, scale) ==
  IF Len(digits) <= scale
    THEN [k \in 1 .. scale - Len(digits) + 1 |-> 0] \o digits
    ELSE digits

DecimalText(raw, scale) ==
  LET digits == Digits[IF raw < 0 THEN - raw ELSE raw]
      padded == IF scale = 0 THEN digits ELSE Padded(digits, scale)
      point == Len(padded) - scale
  IN [negative |-> raw < 0, whole |-> SubSeq(padded, 1, point),
      fraction |-> SubSeq(padded, point + 1, Len(padded))]

-----------------------------------------------------------------------------
(* ch_append_value: the cell of a scalar column for a PHP value            *)

(* A DateTimeInterface gives its seconds; anything else is a number.       *)
Timestamp(v) == IF Kind(v) = "time" THEN v[2][1] ELSE ToLong(v)

(* llround: to the nearest integer, halves away from zero.                 *)
Rounded(n, d) == IF n < 0 THEN - ((d - 2 * n) \div (2 * d)) ELSE (d + 2 * n) \div (2 * d)

WholeTicks(v, scale) ==
  CASE Kind(v) = "time" -> v[2][1] * scale + (v[2][2] * scale) \div MicrosPerSecond
    [] Kind(v) = "float" -> Rounded(v[2][1] * scale, v[2][2])
    [] OTHER -> ToLong(v) * scale

IsTicks(n) == - TicksHalf <= n /\ n < TicksHalf

(* What is no int64_t: llround gives the least one, a product wraps around *)
(* (as built; the language leaves both open).                              *)
Ticks(v, scale) ==
  LET n == WholeTicks(v, scale)
  IN IF IsTicks(n) THEN n
     ELSE IF Kind(v) = "float" THEN - TicksHalf
     ELSE Wrapped(n, TicksHalf)

Encoded(ty, v) ==
  CASE ty.code = "Int" -> Wrapped(ToLong(v), ty.half)
    [] ty.code = "UInt" -> ToLong(v) % ty.size
    [] ty.code = "Bool" -> IsTrue(v)
    [] ty.code = "String" -> ToStr(v)
    [] ty.code = "DateTime" -> Timestamp(v) % ty.size
    [] ty.code = "DateTime64" -> Ticks(v, ty.scale)
    [] ty.code = "UUID" -> ParseUuid(ToStr(v))
    [] ty.code = "Enum" -> IF Kind(v) = "string" THEN ty.labels[v[2]] ELSE Wrapped(ToLong(v), ty.half)

Scalars == {"Int", "UInt", "Bool", "String", "DateTime", "DateTime64", "UUID", "Enum"}

(* Of these only the label of an Enum can be wrong; what is not listed     *)
(* (LowCardinality, Int128) cannot be written.                             *)
Encodable(ty, v) ==
  /\ ty.code \in Scalars
  /\ ty.code = "Enum" /\ Kind(v) = "string" => v[2] \in DOMAIN ty.labels

-----------------------------------------------------------------------------
(* ch_column_value_to_zval: a cell of a scalar column as a PHP value       *)

(* Mutant: seconds before 1970 are not rounded down.                       *)
ToTime_NoFloor(ticks, scale) ==
  LET sec == Quot(ticks, scale)
      frac == ticks - sec * scale
  IN Time(sec, Quot(frac * MicrosPerSecond, scale))

ToTime(ticks, scale) ==
  LET quot == Quot(ticks, scale)
      rem == ticks - quot * scale
      sec == IF rem < 0 THEN quot - 1 ELSE quot
      frac == IF rem < 0 THEN rem + scale ELSE rem
  IN Time(sec, IF scale > 1 THEN (frac * MicrosPerSecond) \div scale ELSE 0)

(* Mutant: an unsigned value is taken for a PHP integer as it is.          *)
Unsigned_AsLong(n) == Long(Wrapped(n, LongHalf))

(* The cast to a double: the nearest one, the even one of two.             *)
ToDouble(n) ==
  LET below == n \div FloatStep
      rest == n - below * FloatStep
      up == 2 * rest > FloatStep \/ (2 * rest = FloatStep /\ below % 2 = 1)
  IN (IF up THEN below + 1 ELSE below) * FloatStep

(* An unsigned value past PHP_INT_MAX becomes a float.                     *)
Unsigned(n) == IF IsLong(n) THEN Long(n) ELSE Float(ToDouble(n), 1)

LabelOf(ty, n) == CHOOSE l \in DOMAIN ty.labels : ty.labels[l] = n

Decoded(ty, cell) ==
  CASE ty.code = "Int" -> Long(cell)
    [] ty.code = "UInt" -> Unsigned(cell)
    [] ty.code = "Bool" -> Bool(cell)
    [] ty.code = "String" -> Str(cell)
    [] ty.code = "DateTime" -> Time(cell, 0)
    [] ty.code = "DateTime64" -> ToTime(cell, ty.scale)
    [] ty.code = "UUID" -> Str(UuidText(cell))
    [] ty.code = "Enum" -> Str(LabelOf(ty, cell))
    [] ty.code = "Decimal" -> Str(DecimalText(cell, ty.scale))

-----------------------------------------------------------------------------
(* What the table of types promises for a cell                             *)

InColumn(ty, n) ==
  IF ty.code = "Int" THEN - ty.half <= n /\ n < ty.half ELSE 0 <= n /\ n < ty.size

(* The cell is one that a column of that type can hold.                    *)
Fits(ty, cell) ==
  /\ ty.code \in {"Int", "UInt", "DateTime"} => cell \in Int /\ InColumn(ty, cell)
  /\ ty.code = "UUID" => Len(cell) = 32

Micros(t) == t[2][1] * MicrosPerSecond + t[2][2]

(* An integer is a second; of a time less than a tick is lost; a float is  *)
(* rounded to the nearest tick, which is shown down to the microsecond.    *)
SameTime(ty, v, w) ==
  /\ w[2][2] \in 0 .. MicrosPerSecond - 1
  /\ Kind(v) = "int" => w = Time(v[2], 0)
  /\ Kind(v) = "time" =>
       /\ Micros(w) <= Micros(v)
       /\ (Micros(v) - Micros(w)) * ty.scale < MicrosPerSecond
  /\ Kind(v) = "float" =>
       LET late == 2 * ty.scale * (Micros(w) * v[2][2] - v[2][1] * MicrosPerSecond)
       IN /\ late <= v[2][2] * MicrosPerSecond
          /\ - v[2][2] * (MicrosPerSecond + 2 * ty.scale) < late

(* Value v, written, is read back as w; nothing is said of a number        *)
(* outside the range of the column, or not a number.                       *)
SameCell(ty, v, w) ==
  CASE ty.code \in {"Int", "UInt"} -> Kind(v) = "int" /\ InColumn(ty, v[2]) => w = v
    [] ty.code = "DateTime" ->
         InColumn(ty, Timestamp(v)) => w = Time(Timestamp(v), 0)
    [] ty.code = "Bool" -> w = Bool(IsTrue(v))
    [] ty.code = "Enum" /\ Kind(v) = "int" ->
         \A l \in DOMAIN ty.labels : ty.labels[l] = v[2] => w = Str(l)
    [] ty.code = "DateTime64" -> IsTicks(WholeTicks(v, ty.scale)) => SameTime(ty, v, w)
    [] OTHER -> w = v

(* A cell that some other program has stored is shown as w: a UInt64 up to *)
(* PHP_INT_MAX as it is, a larger one as a positive float that is at most  *)
(* half the distance of two floats away, so that several of them may look  *)
(* the same; a time is rounded down to the microsecond.                    *)
ShownCell(ty, cell, w) ==
  /\ ty.code = "UInt" =>
       IF IsLong(cell) THEN w = Long(cell)
       ELSE /\ Kind(w) = "float" /\ w[2][1] >= 0 /\ w[2][2] = 1
            /\ 2 * w[2][1] - 2 * cell <= FloatStep
            /\ 2 * cell - 2 * w[2][1] <= FloatStep
  /\ ty.code = "DateTime64" =>
       /\ w[2][2] \in 0 .. MicrosPerSecond - 1
       /\ Micros(w) * ty.scale <= cell * MicrosPerSecond
       /\ cell * MicrosPerSecond < (Micros(w) + 1) * ty.scale

=============================================================================
