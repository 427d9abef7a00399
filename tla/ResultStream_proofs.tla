------------------------ MODULE ResultStream_proofs ------------------------
(***************************************************************************)
(* The row cursor of ResultStream, proved for blocks of any size, streams  *)
(* of any length and any exceptions: rows come out once and in order, the  *)
(* socket is read only while the Result has the connection, and the Result *)
(* implements RowStream.                                                   *)
(***************************************************************************)
EXTENDS ResultStream, TLAPS

USE StreamBoundsAssumption, StreamErrorsAssumption

-----------------------------------------------------------------------------
(* The helpers                                                             *)

(* Rows are appended to sequences of numbers.                              *)
LEMMA RowSeqs ==
  /\ <<>> \in Seq(Nat)
  /\ \A s \in Seq(Nat) : \A r \in Nat : Append(s, r) \in Seq(Nat)
  /\ \A s, u \in Seq(Nat) : s \o u \in Seq(Nat)
OBVIOUS

(* The decision on an exception is yes or no.                              *)
LEMMA PoisonsType == \A e : Poisons(e) \in BOOLEAN
BY DEF Poisons

(* What the end of the stream leaves in the flags.                         *)
LEMMA FinishFlags ==
  ASSUME TypeOK, FlagsOK, NEW brk \in BOOLEAN, Finish(brk)
  PROVE  /\ done' = TRUE /\ broken' \in BOOLEAN /\ released' = TRUE
         /\ summary' \in [read : Nat, total : Nat, limit : BOOLEAN, elapsed : Nat]
         /\ fate' \in {"held", "idle", "dropped"} /\ returns' = 1
<1>1. done' = TRUE /\ broken' = brk /\ released' = TRUE
  BY DEF Finish, Release
<1>2. summary' \in [read : Nat, total : Nat, limit : BOOLEAN, elapsed : Nat]
  <2>1. summary \in [read : Nat, total : Nat, limit : BOOLEAN, elapsed : Nat]
    BY DEF TypeOK, CallType, ResultType, ReaderType
  <2>2. [summary EXCEPT !.elapsed = @ + 1]
          \in [read : Nat, total : Nat, limit : BOOLEAN, elapsed : Nat]
    BY <2>1
  <2> QED
    BY <2>1, <2>2 DEF Finish, Stamped
<1>3. fate' \in {"held", "idle", "dropped"} /\ returns' = 1
  BY DEF TypeOK, ResultType, FlagsOK, Finish, Release
<1> QED
  BY <1>1, <1>2, <1>3

(* CursorOK reads six variables, and pc only for a call on the socket.     *)
LEMMA CursorFrame ==
  ASSUME CursorOK,
         UNCHANGED <<sent, block, row, handed, done, told>>,
         pc' \in {"BeginExecute", "NextBlock"} => row = block.rows
  PROVE  CursorOK'
BY DEF CursorOK, RowsInOrder

(* FlagsOK survives a step that changes neither the flags nor the server's *)
(* end, and moves pc within the phase the Result is in.                    *)
LEMMA FlagsFrame ==
  ASSUME FlagsOK,
         UNCHANGED <<life, done, released, fate, returns, told, stream>>,
         \/ UNCHANGED <<pc, op>>
         \/ pc = "BeginExecute" /\ pc' = "NextBlock" /\ op' = op
         \/ /\ life = "live" /\ op' # "query"
            /\ pc' \in {"user", "loop"} \/ (pc' = "NextBlock" /\ ~ done)
  PROVE  FlagsOK'
BY DEF FlagsOK

(* A call that ended the stream: the flags say so, and who is told what    *)
(* agrees with the server's end.                                           *)
LEMMA FlagsAfterFinish ==
  ASSUME FlagsOK, done' = TRUE, released' = TRUE, returns' = 1,
         pc' = "user", op' = "none", life' # "starting",
         told' # "error" => stream' = "ended"
  PROVE  FlagsOK'
BY DEF FlagsOK

-----------------------------------------------------------------------------
(* Each step keeps the invariant                                           *)

LEMMA StreamInit == Init => StreamInv
<1> SUFFICES ASSUME Init PROVE StreamInv
  OBVIOUS
<1> USE DEF Init
<1>1. TypeOK
  <2>1. CallType
    BY DEF CallType
  <2>2. ResultType
    <3>1. block \in [first : Nat \ {0}, rows : Nat, bad : Nat] /\ row \in 0 .. block.rows
      BY DEF NoBlock
    <3>2. summary \in [read : Nat, total : Nat, limit : BOOLEAN, elapsed : Nat]
      OBVIOUS
    <3>3. done \in BOOLEAN /\ broken \in BOOLEAN /\ released \in BOOLEAN
      OBVIOUS
    <3>4. /\ stream \in {"open", "ended"} /\ sent \in Nat /\ packets \in Nat
          /\ fate \in {"held", "idle", "dropped"} /\ returns \in Nat
      OBVIOUS
    <3> QED
      BY <3>1, <3>2, <3>3, <3>4 DEF ResultType
  <2>3. ReaderType
    BY RowSeqs DEF ReaderType, NoRow
  <2> QED
    BY <2>1, <2>2, <2>3 DEF TypeOK
<1>2. CursorOK
  BY DEF CursorOK, RowsInOrder, NoBlock
<1>3. FlagsOK
  BY DEF FlagsOK
<1> QED
  BY <1>1, <1>2, <1>3 DEF StreamInv

LEMMA PacketInv ==
  ASSUME StreamInv, BeginExecuteOk \/ ProgressArrives \/ ProfileArrives
  PROVE  StreamInv'
<1>1. /\ UNCHANGED <<life, op, block, row, done, broken, released, fate, returns>>
      /\ UNCHANGED <<current, count, valid, started, acc, looping, stream, sent>>
      /\ UNCHANGED <<handed, iterated, fetched, shown, told>>
      /\ pc' = pc \/ (pc = "BeginExecute" /\ pc' = "NextBlock")
      /\ packets' = packets \/ packets' = packets + 1
  BY DEF BeginExecuteOk, ProgressArrives, ProfileArrives, Packet, flags, reader,
         iterator, server, history
<1>2. summary' \in [read : Nat, total : Nat, limit : BOOLEAN, elapsed : Nat]
  <2>1. summary \in [read : Nat, total : Nat, limit : BOOLEAN, elapsed : Nat]
    BY DEF StreamInv, TypeOK, CallType, ResultType, ReaderType
  <2>2. CASE BeginExecuteOk
    BY <2>1, <2>2 DEF BeginExecuteOk
  <2>3. CASE ProgressArrives
    <3>1. PICK t \in 0 .. MaxRows :
            summary' = [read |-> summary.read + 1,
                        total |-> IF t > summary.total THEN t ELSE summary.total,
                        limit |-> summary.limit, elapsed |-> summary.elapsed]
      BY <2>3 DEF ProgressArrives
    <3> QED
      BY <2>1, <3>1
  <2>4. CASE ProfileArrives
    <3>1. PICK calculated \in BOOLEAN :
            summary' = [summary EXCEPT !.limit = @ \/ calculated]
      BY <2>4 DEF ProfileArrives
    <3> QED
      BY <2>1, <3>1
  <2> QED
    BY <2>2, <2>3, <2>4
<1>3. TypeOK'
  <2>1. CallType'
    BY <1>1, <1>2 DEF StreamInv, TypeOK, CallType
  <2>2. ResultType'
    BY <1>1, <1>2 DEF StreamInv, TypeOK, ResultType
  <2>3. ReaderType'
    BY <1>1, <1>2 DEF StreamInv, TypeOK, ReaderType
  <2> QED
    BY <2>1, <2>2, <2>3 DEF TypeOK
<1>4. CursorOK'
  <2>1. pc' \in {"BeginExecute", "NextBlock"} => row = block.rows
    BY <1>1 DEF StreamInv, CursorOK
  <2> QED
    BY <1>1, <2>1, CursorFrame DEF StreamInv
<1>5. FlagsOK'
  BY <1>1, FlagsFrame DEF StreamInv
<1> QED
  BY <1>3, <1>4, <1>5 DEF StreamInv

LEMMA BlockInv ==
  ASSUME StreamInv, NEW n \in 0 .. MaxRows, NEW bad \in 0 .. n,
         BlockArrives(n, bad)
  PROVE  StreamInv'
<1> DEFINE b == Block(n, bad)
<1>1. /\ UNCHANGED <<done, broken, released, fate, returns, summary, stream>>
      /\ UNCHANGED <<current, count, valid, started, acc, looping>>
      /\ UNCHANGED <<handed, iterated, fetched, shown, told>>
      /\ pc = "NextBlock" /\ ~ done
      /\ packets' = packets + 1 /\ sent' = sent + n
  BY DEF StreamInv, FlagsOK, BlockArrives, Packet, flags, reader, iterator,
         history
<1>2. \/ /\ op = "query" /\ n > 0 /\ block' = b /\ row' = 0
         /\ pc' = "user" /\ op' = "none" /\ life' = "live"
      \/ op = "query" /\ n = 0 /\ UNCHANGED <<block, row, pc, op, life>>
      \/ op # "query" /\ block' = b /\ row' = 0 /\ pc' = "loop"
           /\ UNCHANGED <<op, life>>
  BY DEF BlockArrives, Block, Primes, LoadBlock, Leave
<1>3. /\ sent \in Nat /\ n \in Nat /\ bad \in Nat
      /\ b.first = sent + 1 /\ b.rows = n /\ b.bad = bad
      /\ b \in [first : Nat \ {0}, rows : Nat, bad : Nat]
  BY DEF StreamInv, TypeOK, CallType, ResultType, ReaderType, Block
<1>4. TypeOK'
  <2>1. block' \in [first : Nat \ {0}, rows : Nat, bad : Nat]
    BY <1>2, <1>3 DEF StreamInv, TypeOK, CallType, ResultType, ReaderType
  <2>2. row' \in 0 .. block'.rows
    BY <1>2, <1>3 DEF StreamInv, TypeOK, CallType, ResultType, ReaderType
  <2>3. CallType'
    BY <1>1, <1>2 DEF StreamInv, TypeOK, CallType
  <2>4. ResultType'
    BY <1>1, <1>3, <2>1, <2>2 DEF StreamInv, TypeOK, ResultType
  <2>5. ReaderType'
    BY <1>1 DEF StreamInv, TypeOK, ReaderType
  <2> QED
    BY <2>3, <2>4, <2>5 DEF TypeOK
<1>5. CursorOK'
  <2>1. /\ sent + 1 = block.first + block.rows
        /\ Len(handed) + 1 = block.first + row /\ row = block.rows
        /\ block.first \in Nat /\ block.rows \in Nat
    BY <1>1 DEF StreamInv, TypeOK, CallType, ResultType, ReaderType, CursorOK
  <2>2. /\ sent' + 1 = block'.first + block'.rows
        /\ Len(handed') + 1 = block'.first + row'
    BY <1>1, <1>2, <1>3, <2>1
  <2>3. pc' \in {"BeginExecute", "NextBlock"} => row' = block'.rows
    BY <1>2, <2>1
  <2>4. RowsInOrder'
    BY <1>1 DEF StreamInv, CursorOK, RowsInOrder
  <2> QED
    BY <1>1, <2>2, <2>3, <2>4 DEF CursorOK
<1>6. FlagsOK'
  BY <1>1, <1>2 DEF StreamInv, FlagsOK
<1> QED
  BY <1>4, <1>5, <1>6 DEF StreamInv

LEMMA EndsInv ==
  ASSUME StreamInv, StreamEnds
  PROVE  StreamInv'
<1>1. /\ UNCHANGED <<block, row, looping, sent, packets, shown, handed, iterated>>
      /\ UNCHANGED <<current, count, started>>
      /\ pc = "NextBlock" /\ pc' = "user" /\ op' = "none"
      /\ stream' = "ended"
      /\ life' = IF op = "query" THEN "live" ELSE life
      /\ told' = told \/ told' = "end"
      /\ UNCHANGED <<acc, fetched>> \/ (acc' = <<>> /\ fetched' = fetched \o acc)
      /\ valid' \in BOOLEAN
  BY DEF StreamInv, TypeOK, CallType, ResultType, ReaderType, StreamEnds, CallerIsTold, Leave, Invalidated,
         iterator
<1>2. /\ done' = TRUE /\ broken' \in BOOLEAN /\ released' = TRUE
      /\ summary' \in [read : Nat, total : Nat, limit : BOOLEAN, elapsed : Nat]
      /\ fate' \in {"held", "idle", "dropped"} /\ returns' = 1
  <2>1. broken \in BOOLEAN
    BY DEF StreamInv, TypeOK, CallType, ResultType, ReaderType
  <2> QED
    BY <2>1, FinishFlags DEF StreamInv, StreamEnds
<1>3. acc' \in Seq(Nat) /\ fetched' \in Seq(Nat)
  <2>1. acc \in Seq(Nat) /\ fetched \in Seq(Nat)
    BY DEF StreamInv, TypeOK, ReaderType
  <2> QED
    BY <1>1, <2>1, RowSeqs
<1>4. TypeOK'
  <2>1. CallType'
    BY <1>1, <1>2, <1>3 DEF StreamInv, TypeOK, CallType
  <2>2. ResultType'
    BY <1>1, <1>2, <1>3 DEF StreamInv, TypeOK, ResultType
  <2>3. ReaderType'
    BY <1>1, <1>2, <1>3 DEF StreamInv, TypeOK, ReaderType
  <2> QED
    BY <2>1, <2>2, <2>3 DEF TypeOK
<1>5. CursorOK'
  <2>1. row = block.rows
    BY <1>1 DEF StreamInv, CursorOK
  <2> QED
    BY <1>1, <2>1 DEF StreamInv, CursorOK, RowsInOrder
<1>6. FlagsOK'
  <2>1. life' # "starting"
    BY <1>1 DEF StreamInv, FlagsOK
  <2> QED
    BY <1>1, <1>2, <2>1, FlagsAfterFinish DEF StreamInv
<1> QED
  BY <1>4, <1>5, <1>6 DEF StreamInv

(* A call that ends with an exception, from the socket or from a row.      *)
LEMMA RaisesInv ==
  ASSUME StreamInv, NEW e \in ErrorClasses, ReadFails(e) \/ TakeBadRow(e)
  PROVE  StreamInv'
<1>1. /\ UNCHANGED <<block, row, stream, sent, packets, shown, handed>>
      /\ UNCHANGED <<current, count, started, iterated, fetched>>
      /\ pc' = "user" /\ op' = "none" /\ told' = "error"
      /\ acc' = <<>> /\ looping' = FALSE
      /\ valid' \in BOOLEAN
      /\ \/ pc \in {"BeginExecute", "NextBlock"}
              /\ life' = IF op = "query" THEN "failed" ELSE life
         \/ pc = "loop" /\ row + 1 = block.bad /\ life' = life
  BY DEF StreamInv, TypeOK, CallType, ResultType, ReaderType, ReadFails, TakeBadRow, CallerCatches, Leave,
         Invalidated, server
<1>2. /\ done' = TRUE /\ broken' \in BOOLEAN /\ released' = TRUE
      /\ summary' \in [read : Nat, total : Nat, limit : BOOLEAN, elapsed : Nat]
      /\ fate' \in {"held", "idle", "dropped"} /\ returns' = 1
  <2>1. Poisons(e) \in BOOLEAN
    BY PoisonsType
  <2> QED
    BY <2>1, FinishFlags DEF StreamInv, ReadFails, TakeBadRow
<1>3. TypeOK'
  <2>1. CallType'
    BY <1>1, <1>2 DEF StreamInv, TypeOK, CallType
  <2>2. ResultType'
    BY <1>1, <1>2 DEF StreamInv, TypeOK, ResultType
  <2>3. ReaderType'
    BY <1>1, RowSeqs DEF StreamInv, TypeOK, ReaderType
  <2> QED
    BY <2>1, <2>2, <2>3 DEF TypeOK
<1>4. CursorOK'
  BY <1>1 DEF StreamInv, CursorOK, RowsInOrder
<1>5. FlagsOK'
  <2>1. life' # "starting"
    BY <1>1 DEF StreamInv, FlagsOK
  <2> QED
    BY <1>1, <1>2, <2>1, FlagsAfterFinish DEF StreamInv
<1> QED
  BY <1>3, <1>4, <1>5 DEF StreamInv

LEMMA TakeRowInv ==
  ASSUME StreamInv, TakeRow
  PROVE  StreamInv'
<1> DEFINE r == block.first + row
<1>1. /\ UNCHANGED <<life, block, done, broken, released, fate, returns, summary>>
      /\ UNCHANGED <<looping, stream, sent, packets, shown, told, started>>
      /\ pc = "loop" /\ row < block.rows /\ row + 1 # block.bad
      /\ row' = row + 1 /\ handed' = Append(handed, r)
  BY DEF TakeRow, Advanced, CallerGets, flags, server, iterator
<1>2. /\ UNCHANGED <<pc, op>> \/ (pc' = "user" /\ op' = "none")
      /\ acc' = acc \/ acc' = Append(acc, r)
      /\ iterated' = iterated \/ iterated' = Append(iterated, r)
      /\ fetched' = fetched \/ fetched' = Append(fetched, r)
      /\ UNCHANGED <<current, count, valid>>
           \/ (current' = r /\ count' = count + 1 /\ valid' = TRUE)
  BY DEF TakeRow, CallerGets, Leave, iterator
<1>3. r \in Nat /\ block.rows \in Nat /\ row \in Nat
  BY DEF StreamInv, TypeOK, CallType, ResultType, ReaderType
<1>4. TypeOK'
  <2>1. row' \in 0 .. block'.rows
    BY <1>1, <1>3
  <2>2. /\ acc \in Seq(Nat) /\ handed \in Seq(Nat)
        /\ iterated \in Seq(Nat) /\ fetched \in Seq(Nat)
    BY DEF StreamInv, TypeOK, ReaderType
  <2>3. /\ acc' \in Seq(Nat) /\ handed' \in Seq(Nat)
        /\ iterated' \in Seq(Nat) /\ fetched' \in Seq(Nat)
    <3>1. \A s \in Seq(Nat) : Append(s, r) \in Seq(Nat)
      BY <1>3, RowSeqs
    <3> HIDE DEF r
    <3> QED
      BY <1>1, <1>2, <2>2, <3>1
  <2>4. current' \in Nat /\ count' \in Nat /\ valid' \in BOOLEAN
    <3>1. current \in Nat /\ count \in Nat /\ valid \in BOOLEAN
      BY DEF StreamInv, TypeOK, ReaderType
    <3> HIDE DEF r
    <3>2. count + 1 \in Nat
      BY <3>1
    <3> QED
      BY <1>2, <1>3, <3>1, <3>2
  <2> HIDE DEF r
  <2>5. CallType'
    BY <1>1, <1>2 DEF StreamInv, TypeOK, CallType
  <2>6. ResultType'
    BY <1>1, <2>1 DEF StreamInv, TypeOK, ResultType
  <2>7. ReaderType'
    BY <1>1, <2>3, <2>4 DEF StreamInv, TypeOK, ReaderType
  <2> QED
    BY <2>5, <2>6, <2>7 DEF TypeOK
<1>5. CursorOK'
  <2>1. handed \in Seq(Nat) /\ Len(handed) + 1 = r /\ RowsInOrder
    BY DEF StreamInv, TypeOK, CallType, ResultType, ReaderType, CursorOK
  <2>2. RowsInOrder' /\ Len(handed') = Len(handed) + 1
    BY <1>1, <1>3, <2>1 DEF RowsInOrder
  <2>3. ~ done
    BY <1>1, <1>3 DEF StreamInv, TypeOK, CallType, ResultType, ReaderType, CursorOK
  <2>4. /\ Len(handed) \in Nat /\ block.first \in Nat
        /\ sent + 1 = block.first + block.rows
    BY <2>1 DEF StreamInv, TypeOK, CallType, ResultType, ReaderType, CursorOK
  <2> QED
    BY <1>1, <1>2, <1>3, <2>1, <2>2, <2>3, <2>4 DEF CursorOK
<1>6. FlagsOK'
  BY <1>1, <1>2, FlagsFrame DEF StreamInv, FlagsOK
<1> QED
  BY <1>4, <1>5, <1>6 DEF StreamInv

LEMMA AtEndInv ==
  ASSUME StreamInv, AtEnd
  PROVE  StreamInv'
<1>1. /\ UNCHANGED <<life, block, row, done, broken, released, fate, returns>>
      /\ UNCHANGED <<summary, looping, stream, sent, packets, shown, handed>>
      /\ UNCHANGED <<current, count, started, iterated>>
      /\ pc = "loop" /\ pc' = "user" /\ op' = "none" /\ done
      /\ row >= block.rows
      /\ told' = told \/ (told = "nothing" /\ told' = "end")
      /\ acc' = <<>> /\ fetched' = fetched \o acc
      /\ valid' \in BOOLEAN
  BY DEF StreamInv, TypeOK, CallType, ResultType, ReaderType, AtEnd, CallerIsTold, Leave, Invalidated, flags,
         server
<1>2. acc' \in Seq(Nat) /\ fetched' \in Seq(Nat)
  BY <1>1 DEF StreamInv, TypeOK, CallType, ResultType, ReaderType
<1>3. TypeOK'
  <2>1. CallType'
    BY <1>1, <1>2 DEF StreamInv, TypeOK, CallType
  <2>2. ResultType'
    BY <1>1, <1>2 DEF StreamInv, TypeOK, ResultType
  <2>3. ReaderType'
    BY <1>1, <1>2 DEF StreamInv, TypeOK, ReaderType
  <2> QED
    BY <2>1, <2>2, <2>3 DEF TypeOK
<1>4. CursorOK'
  <2>1. row = block.rows
    BY <1>1 DEF StreamInv, TypeOK, CallType, ResultType, ReaderType
  <2> QED
    BY <1>1, <2>1 DEF StreamInv, CursorOK, RowsInOrder
<1>5. FlagsOK'
  BY <1>1 DEF StreamInv, FlagsOK
<1> QED
  BY <1>3, <1>4, <1>5 DEF StreamInv

(* The calls, and the step from the loop to the socket.                    *)
LEMMA CallInv ==
  ASSUME StreamInv,
         \/ Pull \/ ForeachBegins \/ Body \/ ForeachNext \/ ForeachEnds
         \/ \E m \in Fetches : Fetch(m)
  PROVE  StreamInv'
<1>1. /\ UNCHANGED <<life, block, row, done, broken, released, fate, returns>>
      /\ UNCHANGED <<summary, stream, sent, packets, count, valid, acc>>
      /\ UNCHANGED <<handed, iterated, fetched, told>>
      /\ looping' \in BOOLEAN /\ started' \in BOOLEAN
      /\ current' = current \/ current' = 0
      /\ shown' = shown \/ shown' = shown \cup {current}
  BY DEF StreamInv, TypeOK, CallType, ResultType, ReaderType, Pull, ForeachBegins, Body, ForeachNext, ForeachEnds,
         Fetch, Rewind, Advance, NoRow, flags, reader, iterator, server, history
<1>2. \/ UNCHANGED <<pc, op>>
      \/ life = "live" /\ pc' = "loop" /\ op' \in {"advance"} \cup Fetches
      \/ pc = "loop" /\ pc' = "NextBlock" /\ op' = op /\ ~ done
           /\ row >= block.rows
  BY DEF Pull, ForeachBegins, Body, ForeachNext, ForeachEnds, Fetch, Idle, Rewind,
         Advance, reader, iterator
<1>3. TypeOK'
  <2>1. CallType'
    BY <1>1, <1>2 DEF StreamInv, TypeOK, CallType
  <2>2. ResultType'
    BY <1>1, <1>2 DEF StreamInv, TypeOK, ResultType
  <2>3. ReaderType'
    <3>1. current \in Nat /\ shown \subseteq Nat
      BY DEF StreamInv, TypeOK, ReaderType
    <3>2. current' \in Nat
      BY <1>1, <3>1
    <3>3. shown' \subseteq Nat
      <4>1. shown \cup {current} \subseteq Nat
        BY <3>1
      <4> QED
        BY <1>1, <3>1, <4>1
    <3> QED
      BY <1>1, <3>2, <3>3 DEF StreamInv, TypeOK, ReaderType
  <2> QED
    BY <2>1, <2>2, <2>3 DEF TypeOK
<1>4. CursorOK'
  <2>1. pc' \in {"BeginExecute", "NextBlock"} => row = block.rows
    BY <1>2 DEF StreamInv, TypeOK, CallType, ResultType, ReaderType, CursorOK
  <2> QED
    BY <1>1, <2>1, CursorFrame DEF StreamInv
<1>5. FlagsOK'
  <2>1. op' = op \/ op' # "query"
    BY <1>2 DEF Fetches
  <2>2. pc = "loop" => life = "live" /\ op # "query"
    BY DEF StreamInv, TypeOK, CallType, ResultType, ReaderType, FlagsOK
  <2>3. CASE UNCHANGED <<pc, op>>
    BY <1>1, <2>3, FlagsFrame DEF StreamInv
  <2>4. CASE ~ UNCHANGED <<pc, op>>
    <3>1. life = "live" /\ op' # "query" /\ pc' \in {"loop", "NextBlock"}
          /\ (pc' = "NextBlock" => ~ done)
      BY <1>2, <2>1, <2>2, <2>4 DEF Fetches
    <3> QED
      BY <1>1, <3>1 DEF StreamInv, FlagsOK
  <2> QED
    BY <2>3, <2>4
<1> QED
  BY <1>3, <1>4, <1>5 DEF StreamInv

LEMMA DestroyInv ==
  ASSUME StreamInv, Destroy
  PROVE  StreamInv'
<1>1. /\ UNCHANGED <<pc, op, block, row, done, summary, count, started, acc>>
      /\ UNCHANGED <<stream, sent, packets, handed, iterated, fetched, shown, told>>
      /\ life = "live" /\ life' = "freed" /\ pc = "user"
      /\ current' = 0 /\ valid' = FALSE /\ looping' = FALSE
  BY DEF Destroy, Idle, NoRow, server, history
<1>2. /\ broken' \in BOOLEAN /\ released' = TRUE
      /\ fate' \in {"held", "idle", "dropped"} /\ returns' = 1
  <2>1. /\ broken \in BOOLEAN /\ released \in BOOLEAN /\ done \in BOOLEAN
        /\ fate \in {"held", "idle", "dropped"} /\ returns = IF released THEN 1 ELSE 0
    BY DEF StreamInv, TypeOK, ResultType, FlagsOK
  <2>2. CASE released
    BY <2>1, <2>2 DEF Destroy
  <2>3. CASE ~ released
    BY <2>1, <2>3 DEF Destroy, Release, Abandoned
  <2> QED
    BY <2>2, <2>3
<1>3. TypeOK'
  <2>1. CallType'
    BY <1>1, <1>2 DEF StreamInv, TypeOK, CallType
  <2>2. ResultType'
    BY <1>1, <1>2 DEF StreamInv, TypeOK, ResultType
  <2>3. ReaderType'
    BY <1>1, <1>2 DEF StreamInv, TypeOK, ReaderType
  <2> QED
    BY <2>1, <2>2, <2>3 DEF TypeOK
<1>4. CursorOK'
  BY <1>1, CursorFrame DEF StreamInv
<1>5. FlagsOK'
  BY <1>1, <1>2 DEF StreamInv, FlagsOK
<1> QED
  BY <1>3, <1>4, <1>5 DEF StreamInv

LEMMA StreamStep == StreamInv /\ [Next]_vars => StreamInv'
<1> SUFFICES ASSUME StreamInv, [Next]_vars
             PROVE  StreamInv'
  OBVIOUS
<1>1. CASE Answer
  BY <1>1, PacketInv, BlockInv, EndsInv DEF Answer
<1>2. CASE LoopStep
  BY <1>2, TakeRowInv, AtEndInv, CallInv, RaisesInv DEF LoopStep
<1>3. CASE \E e \in ErrorClasses : ReadFails(e)
  BY <1>3, RaisesInv
<1>4. CASE \/ ForeachBegins \/ Body \/ ForeachNext \/ ForeachEnds
           \/ \E m \in Fetches : Fetch(m)
  BY <1>4, CallInv
<1>5. CASE Destroy
  BY <1>5, DestroyInv
<1>6. CASE UNCHANGED vars
  BY <1>6 DEF vars, StreamInv, TypeOK, CallType, ResultType, ReaderType, CursorOK, FlagsOK, RowsInOrder
<1> QED
  BY <1>1, <1>2, <1>3, <1>4, <1>5, <1>6 DEF Next, Gone

-----------------------------------------------------------------------------
(* Theorems                                                                *)

(* The cursor, the flags and the history fit together in every state.      *)
THEOREM StreamInvariant == Spec => []StreamInv
BY StreamInit, StreamStep, PTL DEF Spec

(* Every variable keeps its type.                                          *)
THEOREM StreamTypeCorrect == Spec => []TypeOK
<1>1. StreamInv => TypeOK
  BY DEF StreamInv
<1> QED
  BY <1>1, StreamInvariant, PTL

(* ch_result_next returns the rows once each and in order, for blocks of   *)
(* any size.                                                               *)
THEOREM RowsComeInOrder == Spec => []RowsInOrder
<1>1. StreamInv => RowsInOrder
  BY DEF StreamInv, CursorOK
<1> QED
  BY <1>1, StreamInvariant, PTL

(* The Result reads only while it has the connection, and gives it back    *)
(* exactly once.                                                           *)
THEOREM LeaseIsReadAlone == Spec => []ReadsOnlyItsLease
<1>1. StreamInv => ReadsOnlyItsLease
  <2> SUFFICES ASSUME StreamInv PROVE ReadsOnlyItsLease
    OBVIOUS
  <2>1. /\ returns = IF released THEN 1 ELSE 0
        /\ life \in {"failed", "freed"} => released
        /\ released \in BOOLEAN
    BY DEF StreamInv, TypeOK, ResultType, FlagsOK
  <2>2. pc \in {"BeginExecute", "NextBlock"} => ~ released
    BY DEF StreamInv, TypeOK, CallType, FlagsOK
  <2> QED
    BY <2>1, <2>2 DEF ReadsOnlyItsLease
<1> QED
  BY <1>1, StreamInvariant, PTL

(* A reported end means that every row has been returned.                  *)
THEOREM EndComesLast == Spec => []EndMeansAll
<1>1. StreamInv => EndMeansAll
  BY DEF StreamInv, TypeOK, CallType, ResultType, ReaderType, CursorOK, FlagsOK, EndMeansAll
<1> QED
  BY <1>1, StreamInvariant, PTL

(* After the end, or an exception, no call returns a row.                  *)
THEOREM EndIsFinal == Spec => NothingAfterTheEnd
<1>1. StreamInv /\ [Next]_vars => [told # "nothing" => handed' = handed]_vars
  <2> SUFFICES ASSUME StreamInv, Next, told # "nothing"
               PROVE  handed' = handed
    BY DEF vars
  <2>1. ~ TakeRow
    BY DEF StreamInv, TypeOK, CallType, ResultType, ReaderType, CursorOK, FlagsOK, TakeRow
  <2> QED
    BY <2>1 DEF Next, Answer, LoopStep, BeginExecuteOk, ProgressArrives,
      ProfileArrives, BlockArrives, StreamEnds, ReadFails, TakeBadRow, AtEnd,
      Pull, Fetch, ForeachBegins, Body, ForeachNext, ForeachEnds, Destroy, Gone,
      CallerIsTold, CallerCatches, history, vars
<1> QED
  BY <1>1, StreamInvariant, PTL DEF Spec, NothingAfterTheEnd

-----------------------------------------------------------------------------
(* Whose row each row is                                                   *)

LEMMA ElemsOf ==
  /\ Elems(<<>>) = {}
  /\ \A s \in Seq(Nat), r \in Nat : Elems(Append(s, r)) = Elems(s) \cup {r}
  /\ \A s, u \in Seq(Nat) : Elems(s \o u) = Elems(s) \cup Elems(u)
<1>1. Elems(<<>>) = {}
  BY DEF Elems
<1>2. ASSUME NEW s \in Seq(Nat), NEW r \in Nat
      PROVE  Elems(Append(s, r)) = Elems(s) \cup {r}
  <2> DEFINE a == Append(s, r)
  <2>1. /\ DOMAIN a = 1 .. Len(s) + 1 /\ a[Len(s) + 1] = r /\ DOMAIN s = 1 .. Len(s)
        /\ \A i \in 1 .. Len(s) : a[i] = s[i]
        /\ Len(s) \in Nat
    OBVIOUS
  <2> HIDE DEF a
  <2>2. DOMAIN a = DOMAIN s \cup {Len(s) + 1}
    BY <2>1
  <2> QED
    BY <2>1, <2>2 DEF Elems
<1>3. ASSUME NEW s \in Seq(Nat), NEW u \in Seq(Nat)
      PROVE  Elems(s \o u) = Elems(s) \cup Elems(u)
  <2> DEFINE a == s \o u
  <2>1. /\ DOMAIN a = 1 .. Len(s) + Len(u)
        /\ DOMAIN s = 1 .. Len(s) /\ DOMAIN u = 1 .. Len(u)
        /\ Len(s) \in Nat /\ Len(u) \in Nat
        /\ \A i \in 1 .. Len(s) : a[i] = s[i]
        /\ \A i \in 1 .. Len(u) : a[Len(s) + i] = u[i]
    OBVIOUS
  <2> HIDE DEF a
  <2>2. ASSUME NEW i \in DOMAIN a PROVE a[i] \in Elems(s) \cup Elems(u)
    <3>1. CASE i \in DOMAIN s
      BY <2>1, <3>1 DEF Elems
    <3>2. CASE i \notin DOMAIN s
      <4>1. i - Len(s) \in DOMAIN u /\ a[i] = u[i - Len(s)]
        BY <2>1, <2>2, <3>2
      <4> QED
        BY <4>1 DEF Elems
    <3> QED
      BY <3>1, <3>2
  <2>3. ASSUME NEW i \in DOMAIN s PROVE s[i] \in Elems(a)
    BY <2>1 DEF Elems
  <2>4. ASSUME NEW i \in DOMAIN u PROVE u[i] \in Elems(a)
    <3>1. Len(s) + i \in DOMAIN a /\ a[Len(s) + i] = u[i]
      BY <2>1
    <3> QED
      BY <3>1 DEF Elems
  <2>5. Elems(a) = Elems(s) \cup Elems(u)
    BY <2>2, <2>3, <2>4 DEF Elems
  <2> QED
    BY <2>5 DEF a
<1> QED
  BY <1>1, <1>2, <1>3

(* The types these proofs need.                                            *)
LEMMA ReaderTypes ==
  ASSUME StreamInv
  PROVE  /\ acc \in Seq(Nat) /\ handed \in Seq(Nat)
         /\ iterated \in Seq(Nat) /\ fetched \in Seq(Nat)
         /\ current \in Nat /\ count \in Nat /\ Len(handed) \in Nat
BY DEF StreamInv, TypeOK, ReaderType

(* A step that hands out no row.                                           *)
LEMMA RowsFrame ==
  ASSUME RowsKept, UNCHANGED <<handed, iterated, fetched, acc, told>>,
         acc # <<>> => op' = "fetchAll"
  PROVE  RowsKept'
BY DEF RowsKept, Elems

(* fetchAll returns what it has, any other call nothing.                   *)
LEMMA RowsTold ==
  ASSUME StreamInv, RowsKept, CallerIsTold
  PROVE  RowsKept'
<1>1. /\ UNCHANGED <<handed, iterated>> /\ acc' = <<>>
      /\ told' # "error" => told # "error"
      /\ Elems(fetched') = Elems(fetched) \cup Elems(acc)
  BY ReaderTypes, ElemsOf DEF CallerIsTold
<1>2. Elems(iterated') = Elems(iterated) /\ Elems(acc') = {}
  BY <1>1, ElemsOf
<1> QED
  BY <1>1, <1>2 DEF RowsKept

(* An exception discards what fetchAll has taken.                          *)
LEMMA RowsRaise ==
  ASSUME RowsKept, CallerCatches
  PROVE  RowsKept'
<1>1. /\ UNCHANGED <<handed, iterated, fetched>> /\ acc' = <<>> /\ told' = "error"
  BY DEF CallerCatches
<1>2. /\ Elems(iterated') = Elems(iterated) /\ Elems(fetched') = Elems(fetched)
      /\ Elems(acc') = {}
  BY <1>1, ElemsOf DEF Elems
<1> QED
  BY <1>1, <1>2 DEF RowsKept

(* Nothing was told to anybody while there are rows to take.               *)
LEMMA TakesBeforeEnd ==
  ASSUME StreamInv, TakeRow
  PROVE  /\ ~ done /\ told = "nothing" /\ op # "query"
         /\ handed' = Append(handed, Len(handed) + 1)
         /\ CallerGets(Len(handed) + 1)
<1>1. pc = "loop" /\ row < block.rows /\ row + 1 # block.bad /\ CallerGets(block.first + row)
  BY DEF TakeRow
<1>2. Len(handed) + 1 = block.first + row
  BY DEF StreamInv, CursorOK
<1>3. ~ done
  BY <1>1 DEF StreamInv, TypeOK, ResultType, CursorOK
<1>4. told = "nothing" /\ op # "query"
  BY <1>1, <1>3 DEF StreamInv, FlagsOK
<1> QED
  BY <1>1, <1>2, <1>3, <1>4 DEF CallerGets

LEMMA RowsTake ==
  ASSUME StreamInv, RowsKept, TakeRow
  PROVE  RowsKept'
<1> DEFINE r == Len(handed) + 1
<1>1. r \in Nat /\ r \notin 1 .. Len(handed) /\ 1 .. r = 1 .. Len(handed) \cup {r}
  BY ReaderTypes
<1>2. /\ Len(handed') = r /\ told' = told /\ told = "nothing"
      /\ handed \in Seq(Nat) /\ handed' = Append(handed, r)
  BY ReaderTypes, TakesBeforeEnd DEF TakeRow
<1>3. \/ /\ op = "fetchAll" /\ op' = op /\ UNCHANGED <<iterated, fetched>>
         /\ acc' = Append(acc, r)
      \/ /\ op = "advance" /\ UNCHANGED <<acc, fetched>>
         /\ iterated' = Append(iterated, r)
      \/ /\ op # "fetchAll" /\ UNCHANGED <<acc, iterated>>
         /\ fetched' = Append(fetched, r)
  BY TakesBeforeEnd DEF CallerGets
<1> HIDE DEF r
<1>4. /\ Elems(Append(acc, r)) = Elems(acc) \cup {r}
      /\ Elems(Append(iterated, r)) = Elems(iterated) \cup {r}
      /\ Elems(Append(fetched, r)) = Elems(fetched) \cup {r}
  BY <1>1, ReaderTypes, ElemsOf
<1>5. /\ Elems(fetched) \cup Elems(iterated) \cup Elems(acc) = 1 .. Len(handed)
      /\ Elems(fetched) \cap Elems(iterated) = {}
      /\ Elems(acc) \cap (Elems(fetched) \cup Elems(iterated)) = {}
      /\ acc # <<>> => op = "fetchAll"
  BY <1>2 DEF RowsKept
<1>6. CASE op = "fetchAll" /\ op' = op /\ UNCHANGED <<iterated, fetched>> /\ acc' = Append(acc, r)
  <2>1. /\ Elems(acc') = Elems(acc) \cup {r} /\ Elems(iterated') = Elems(iterated)
        /\ Elems(fetched') = Elems(fetched)
    BY <1>4, <1>6 DEF Elems
  <2> QED
    BY <1>1, <1>2, <1>5, <1>6, <2>1 DEF RowsKept
<1>7. CASE op = "advance" /\ UNCHANGED <<acc, fetched>> /\ iterated' = Append(iterated, r)
  <2>1. /\ Elems(acc') = Elems(acc) /\ Elems(iterated') = Elems(iterated) \cup {r}
        /\ Elems(fetched') = Elems(fetched) /\ acc' = <<>>
    BY <1>4, <1>5, <1>7 DEF Elems
  <2> QED
    BY <1>1, <1>2, <1>5, <2>1 DEF RowsKept
<1>8. CASE op # "fetchAll" /\ UNCHANGED <<acc, iterated>> /\ fetched' = Append(fetched, r)
  <2>1. /\ Elems(acc') = Elems(acc) /\ Elems(iterated') = Elems(iterated)
        /\ Elems(fetched') = Elems(fetched) \cup {r} /\ acc' = <<>>
    BY <1>4, <1>5, <1>8 DEF Elems
  <2> QED
    BY <1>1, <1>2, <1>5, <2>1 DEF RowsKept
<1> QED
  BY <1>3, <1>6, <1>7, <1>8

(* Steps that neither hand out a row nor end a call.                       *)
QuietStep ==
  \/ BeginExecuteOk \/ ProgressArrives \/ ProfileArrives \/ Pull \/ Destroy
  \/ ForeachBegins \/ Body \/ ForeachNext \/ ForeachEnds
  \/ \E n \in 0 .. MaxRows : \E bad \in 0 .. n : BlockArrives(n, bad)
  \/ \E m \in Fetches : Fetch(m)
  \/ StreamEnds /\ op = "query"
  \/ UNCHANGED vars

Raises == \E e \in ErrorClasses : ReadFails(e) \/ TakeBadRow(e)

Tells == AtEnd \/ (StreamEnds /\ op # "query")

LEMMA StepKinds == [Next]_vars => QuietStep \/ TakeRow \/ Tells \/ Raises
BY DEF Next, Answer, LoopStep, Gone, QuietStep, Tells, Raises

LEMMA QuietKeeps ==
  ASSUME QuietStep
  PROVE  UNCHANGED <<handed, iterated, fetched, acc, told, count>>
<1>1. CASE \/ BeginExecuteOk \/ ProgressArrives \/ ProfileArrives \/ Pull
           \/ \E n \in 0 .. MaxRows : \E bad \in 0 .. n : BlockArrives(n, bad)
  BY <1>1 DEF BeginExecuteOk, ProgressArrives, ProfileArrives, Pull, BlockArrives, history, reader, iterator
<1>2. CASE \/ Destroy \/ ForeachBegins \/ Body \/ ForeachNext \/ ForeachEnds
           \/ \E m \in Fetches : Fetch(m)
  BY <1>2 DEF Destroy, ForeachBegins, Body, ForeachNext, ForeachEnds, Fetch, Rewind, Advance,
     history, reader, iterator
<1>3. CASE (StreamEnds /\ op = "query") \/ UNCHANGED vars
  BY <1>3 DEF StreamEnds, iterator, vars
<1> QED
  BY <1>1, <1>2, <1>3 DEF QuietStep

(* What a quiet step does to the call, the flags and the iterator.         *)
LEMMA QuietCall ==
  ASSUME StreamInv, IteratorOK, QuietStep
  PROVE  /\ pc' = "user" <=> op' = "none"
         /\ op = "fetchAll" => op' = "fetchAll"
<1>1. op = "fetchAll" => pc # "user"
  BY DEF IteratorOK
<1>2. CASE BeginExecuteOk \/ ProgressArrives \/ ProfileArrives \/ Pull
  BY <1>1, <1>2 DEF BeginExecuteOk, ProgressArrives, ProfileArrives, Pull, Packet, IteratorOK
<1>3. ASSUME NEW n \in 0 .. MaxRows, NEW bad \in 0 .. n, BlockArrives(n, bad)
      PROVE  /\ pc' = "user" <=> op' = "none"
             /\ op = "fetchAll" => op' = "fetchAll"
  BY <1>1, <1>3 DEF BlockArrives, Packet, Leave, IteratorOK
<1>4. CASE \/ Destroy \/ ForeachBegins \/ Body \/ ForeachNext \/ ForeachEnds
           \/ \E m \in Fetches : Fetch(m)
  BY <1>1, <1>4 DEF Destroy, ForeachBegins, Body, ForeachNext, ForeachEnds, Fetch, Fetches, Idle,
     Rewind, Advance, IteratorOK
<1>5. CASE (StreamEnds /\ op = "query") \/ UNCHANGED vars
  BY <1>5 DEF StreamEnds, Leave, vars, IteratorOK
<1> QED
  BY <1>2, <1>3, <1>4, <1>5 DEF QuietStep

LEMMA RowsStep ==
  ASSUME StreamInv, ReaderInv, [Next]_vars
  PROVE  RowsKept'
<1>1. CASE QuietStep
  <2>1. acc # <<>> => op' = "fetchAll"
    BY <1>1, QuietCall DEF ReaderInv, RowsKept
  <2> QED
    BY <1>1, <2>1, QuietKeeps, RowsFrame DEF ReaderInv
<1>2. CASE Tells
  BY <1>2, RowsTold DEF Tells, AtEnd, StreamEnds, ReaderInv
<1>3. CASE Raises
  BY <1>3, RowsRaise DEF Raises, ReadFails, TakeBadRow, ReaderInv
<1> QED
  BY <1>1, <1>2, <1>3, StepKinds, RowsTake DEF ReaderInv

-----------------------------------------------------------------------------
(* The iterator                                                            *)

(* IteratorOK after a step that leaves the iterator's fields alone.        *)
LEMMA IteratorFrame ==
  ASSUME IteratorOK, UNCHANGED <<current, count, valid, iterated>>,
         shown \subseteq shown', started => started', life = "freed" => life' = "freed",
         pc' = "user" <=> op' = "none",
         op = "advance" <=> op' = "advance"
  PROVE  IteratorOK'
BY DEF IteratorOK, Elems

LEMMA AdvanceIterator ==
  ASSUME StreamInv, IteratorOK, Advance, UNCHANGED <<iterated, shown, life>>,
         current \in shown \/ ~ started
  PROVE  IteratorOK'
<1>1. /\ pc' = "loop" /\ op' = "advance" /\ current' = NoRow /\ started' = TRUE
      /\ count' = count
  BY DEF Advance
<1>2. Elems(iterated) \subseteq shown \/ life = "freed"
  BY ElemsOf DEF IteratorOK
<1> QED
  BY <1>1, <1>2 DEF IteratorOK, Elems

LEMMA QuietIterator ==
  ASSUME StreamInv, IteratorOK, QuietStep
  PROVE  IteratorOK'
<1>1. /\ pc' = "user" <=> op' = "none"
      /\ UNCHANGED <<iterated, count>>
  BY QuietCall, QuietKeeps
<1>2. CASE BeginExecuteOk \/ ProgressArrives \/ ProfileArrives \/ Pull \/ UNCHANGED vars
  <2>1. UNCHANGED <<current, valid, shown, started, life, op>>
    BY <1>2 DEF BeginExecuteOk, ProgressArrives, ProfileArrives, Pull, Packet, reader, iterator, history, vars
  <2> QED
    BY <1>1, <2>1, IteratorFrame
<1>3. ASSUME NEW n \in 0 .. MaxRows, NEW bad \in 0 .. n, BlockArrives(n, bad) PROVE IteratorOK'
  <2>1. UNCHANGED <<current, valid, shown, started>>
    BY <1>3 DEF BlockArrives, reader, iterator, history
  <2>2. (op = "advance" <=> op' = "advance") /\ (life = "freed" => life' = "freed")
    BY <1>3 DEF BlockArrives, Packet, Leave, StreamInv, FlagsOK
  <2> QED
    BY <1>1, <2>1, <2>2, IteratorFrame
<1>4. CASE (StreamEnds /\ op = "query") \/ Body \/ ForeachEnds \/ \E m \in Fetches : Fetch(m)
  <2>1. UNCHANGED <<current, valid, started>> /\ shown \subseteq shown'
    BY <1>4 DEF StreamEnds, Body, ForeachEnds, Fetch, reader, iterator, history
  <2>2. op # "advance" /\ op' # "advance" /\ life # "freed"
    BY <1>4 DEF StreamEnds, Body, ForeachEnds, Fetch, Fetches, Idle, Leave, IteratorOK, StreamInv, FlagsOK
  <2> QED
    BY <1>1, <2>1, <2>2, IteratorFrame
<1>5. CASE ForeachBegins
  <2>1. UNCHANGED <<iterated, shown, life>>
    BY <1>5 DEF ForeachBegins, history
  <2>2. CASE started
    BY <1>1, <1>5, <2>1, <2>2, IteratorFrame DEF ForeachBegins, Rewind, iterator
  <2>3. CASE ~ started
    BY <1>5, <2>1, <2>3, AdvanceIterator DEF ForeachBegins, Rewind
  <2> QED
    BY <2>2, <2>3
<1>6. CASE ForeachNext
  BY <1>6, AdvanceIterator DEF ForeachNext, history
<1>7. CASE Destroy
  BY <1>1, <1>7 DEF Destroy, Idle, IteratorOK, history
<1> QED
  BY <1>2, <1>3, <1>4, <1>5, <1>6, <1>7 DEF QuietStep

(* A call that ends without a row.                                         *)
LEMMA EndIterator ==
  ASSUME StreamInv, IteratorOK, Tells \/ Raises
  PROVE  IteratorOK'
<1>1. CallerIsTold \/ CallerCatches
  BY DEF Tells, Raises, AtEnd, StreamEnds, ReadFails, TakeBadRow
<1>2. /\ pc' = "user" /\ op' = "none" /\ valid' = Invalidated
      /\ UNCHANGED <<current, count, started, iterated>>
  BY <1>1 DEF CallerIsTold, CallerCatches, Leave
<1>3. UNCHANGED shown /\ (life = "freed" => life' = "freed")
  BY DEF Tells, Raises, AtEnd, StreamEnds, ReadFails, TakeBadRow, StreamInv, FlagsOK
<1> QED
  BY <1>2, <1>3 DEF IteratorOK, Invalidated, Elems

LEMMA TakeIterator ==
  ASSUME StreamInv, ReaderInv, TakeRow
  PROVE  IteratorOK'
<1> DEFINE r == Len(handed) + 1
<1>1. UNCHANGED <<shown, life>> /\ pc = "loop"
  BY DEF TakeRow
<1>2. iterated \in Seq(Nat) /\ r \in Nat
  BY ReaderTypes
<1>3. CASE op # "advance"
  <2>1. UNCHANGED <<current, count, valid, started, iterated>> /\ (pc' = "user" <=> op' = "none") /\ op' # "advance"
    BY <1>1, <1>3, TakesBeforeEnd DEF CallerGets, Leave, iterator, ReaderInv, IteratorOK
  <2> QED
    BY <1>1, <1>3, <2>1, IteratorFrame DEF ReaderInv
<1>4. CASE op = "advance"
  <2>1. /\ pc' = "user" /\ op' = "none" /\ current' = r /\ count' = count + 1
        /\ iterated' = Append(iterated, r) /\ UNCHANGED started
    BY <1>4, TakesBeforeEnd DEF CallerGets, Leave
  <2>2. Elems(iterated) \subseteq shown \/ life = "freed"
    <3>1. NoRow \notin Elems(iterated)
      BY ReaderTypes DEF ReaderInv, RowsKept, NoRow
    <3> QED
      BY <1>4, <3>1 DEF ReaderInv, IteratorOK
  <2>3. Elems(iterated') = Elems(iterated) \cup {r}
    BY <1>2, <2>1, ElemsOf
  <2>4. started
    BY <1>4 DEF ReaderInv, IteratorOK
  <2> QED
    BY <1>1, <1>2, <2>1, <2>2, <2>3, <2>4 DEF ReaderInv, IteratorOK
<1> QED
  BY <1>3, <1>4

LEMMA IteratorStep ==
  ASSUME StreamInv, ReaderInv, [Next]_vars
  PROVE  IteratorOK'
BY StepKinds, QuietIterator, EndIterator, TakeIterator DEF ReaderInv

-----------------------------------------------------------------------------
(* The connection after the Result                                         *)

(* A step that does not end the stream keeps the connection as it is.      *)
LEMMA ReuseFrame ==
  ASSUME ReuseOK, UNCHANGED <<fate, released, done, told>>,
         stream = "ended" => stream' = "ended",
         life' = "live" => life = "live" \/ sent' > 0,
         sent > 0 => sent' > 0
  PROVE  ReuseOK'
BY DEF ReuseOK, ReusedOnlyWhenRead, RunsBeforeReturn

LEMMA FinishReuse ==
  ASSUME StreamInv, ReuseOK, NEW brk, Finish(brk),
         stream' = "ended" \/ told' = "error"
  PROVE  ReuseOK'
<1>1. done' = TRUE /\ released' = TRUE /\ fate' # "held"
  BY DEF Finish, Release, ReuseOK
<1> QED
  BY <1>1 DEF ReuseOK, ReusedOnlyWhenRead, RunsBeforeReturn

LEMMA ReuseStep ==
  ASSUME StreamInv, ReaderInv, [Next]_vars
  PROVE  ReuseOK'
<1>1. ReuseOK /\ sent \in Nat
  BY DEF ReaderInv, StreamInv, TypeOK, ResultType
<1>2. CASE \/ BeginExecuteOk \/ ProgressArrives \/ ProfileArrives \/ Pull \/ TakeRow
           \/ ForeachBegins \/ Body \/ ForeachNext \/ ForeachEnds
           \/ \E m \in Fetches : Fetch(m)
  <2>1. UNCHANGED <<fate, released, done, told, stream, life, sent>>
    BY <1>2 DEF BeginExecuteOk, ProgressArrives, ProfileArrives, Pull, TakeRow, ForeachBegins, Body,
       ForeachNext, ForeachEnds, Fetch, flags, server, history
  <2> QED
    BY <1>1, <2>1, ReuseFrame
<1>3. ASSUME NEW n \in 0 .. MaxRows, NEW bad \in 0 .. n, BlockArrives(n, bad) PROVE ReuseOK'
  <2>1. UNCHANGED <<fate, released, done, told, stream>> /\ sent' = sent + n
    BY <1>3 DEF BlockArrives, flags, history
  <2>2. life' = "live" => life = "live" \/ n > 0
    BY <1>3 DEF BlockArrives, Primes, Block
  <2> QED
    BY <1>1, <2>1, <2>2, ReuseFrame
<1>4. CASE StreamEnds
  BY <1>1, <1>4, FinishReuse DEF StreamEnds
<1>5. CASE Raises
  BY <1>1, <1>5, FinishReuse DEF Raises, ReadFails, TakeBadRow, CallerCatches
<1>6. CASE AtEnd
  <2>1. /\ UNCHANGED <<fate, released, done, stream, life, sent>> /\ done
        /\ told' # "error" => told # "error"
    BY <1>6 DEF AtEnd, CallerIsTold, flags, server
  <2> QED
    BY <1>1, <2>1 DEF ReuseOK, ReusedOnlyWhenRead, RunsBeforeReturn
<1>7. CASE Destroy
  <2>1. life' = "freed" /\ UNCHANGED <<told, stream, done, sent>>
    BY <1>7 DEF Destroy, server, history
  <2>2. CASE released
    BY <1>1, <1>7, <2>1, <2>2 DEF Destroy, ReuseOK, ReusedOnlyWhenRead, RunsBeforeReturn
  <2>3. CASE ~ released
    <3>1. ~ done
      BY <2>3 DEF StreamInv, FlagsOK
    <3>2. released' = TRUE /\ fate' = "dropped"
      BY <1>7, <2>3, <3>1 DEF Destroy, Abandoned, Release
    <3> QED
      BY <2>1, <3>2 DEF ReuseOK, ReusedOnlyWhenRead, RunsBeforeReturn
  <2> QED
    BY <2>2, <2>3
<1>8. CASE UNCHANGED vars
  BY <1>1, <1>8, ReuseFrame DEF vars
<1> QED
  BY <1>2, <1>3, <1>4, <1>5, <1>6, <1>7, <1>8 DEF Next, Answer, LoopStep, Raises, Gone

LEMMA ReaderInit == Init => ReaderInv
<1> SUFFICES ASSUME Init PROVE ReaderInv
  OBVIOUS
<1>1. RowsKept
  BY ElemsOf DEF Init, RowsKept
<1>2. IteratorOK
  BY ElemsOf DEF Init, IteratorOK
<1>3. ReuseOK
  BY DEF Init, ReuseOK, ReusedOnlyWhenRead, RunsBeforeReturn
<1> QED
  BY <1>1, <1>2, <1>3 DEF ReaderInv

LEMMA ReaderStep == StreamInv /\ ReaderInv /\ [Next]_vars => ReaderInv'
BY RowsStep, IteratorStep, ReuseStep DEF ReaderInv

(* The rows, the iterator and the connection fit what was handed out.      *)
THEOREM ReaderInvariant == Spec => []ResultInv
<1>1. Spec => []ReaderInv
  BY ReaderInit, ReaderStep, StreamInvariant, PTL DEF Spec
<1>2. StreamInv /\ ReaderInv => ResultInv
  BY DEF ResultInv
<1> QED
  BY <1>1, <1>2, StreamInvariant, PTL

(* No call, and no change from one kind of call to another, loses a row or *)
(* gives one twice.                                                        *)
THEOREM EveryRowHasOneReader == Spec => []NoRowLost
<1>1. ResultInv => NoRowLost
  <2> SUFFICES ASSUME ResultInv PROVE NoRowLost
    OBVIOUS
  <2>1. Elems(handed) = 1 .. Len(handed)
    <3>1. \A i \in DOMAIN handed : handed[i] = i
      BY DEF ResultInv, StreamInv, CursorOK, RowsInOrder
    <3>2. DOMAIN handed = 1 .. Len(handed)
      BY ReaderTypes DEF ResultInv
    <3> QED
      BY <3>1, <3>2 DEF Elems
  <2> QED
    BY <2>1 DEF ResultInv, ReaderInv, RowsKept, IteratorOK, NoRowLost
<1> QED
  BY <1>1, ReaderInvariant, PTL

(* current() is the row that the iterator took last, key() its number.     *)
THEOREM IteratorShowsTheLatest == Spec => []CurrentIsLatest
<1>1. ResultInv => CurrentIsLatest
  BY DEF ResultInv, ReaderInv, IteratorOK, CurrentIsLatest
<1> QED
  BY <1>1, ReaderInvariant, PTL

(* Only a stream that was read to its end leaves a connection for reuse,   *)
(* unless an exception ended it.                                           *)
THEOREM ReuseAfterTheEnd == Spec => []ReusedOnlyWhenRead
<1>1. ResultInv => ReusedOnlyWhenRead
  BY DEF ResultInv, ReaderInv, ReuseOK
<1> QED
  BY <1>1, ReaderInvariant, PTL

(* query() returns after the server has answered.                          *)
THEOREM QueryHasRun == Spec => []RunsBeforeReturn
<1>1. ResultInv => RunsBeforeReturn
  BY DEF ResultInv, ReaderInv, ReuseOK
<1> QED
  BY <1>1, ReaderInvariant, PTL

(* The Summary stands still once the stream is over.                       *)
THEOREM SummaryStands == Spec => SummaryIsFinal
<1>1. StreamInv /\ [Next]_vars => [done => summary' = summary]_vars
  <2> SUFFICES ASSUME StreamInv, Next, done
               PROVE  summary' = summary
    BY DEF vars
  <2>1. ~ (ProgressArrives \/ ProfileArrives)
    BY DEF StreamInv, FlagsOK, ProgressArrives, ProfileArrives, Packet
  <2>2. \A brk : Finish(brk) => summary' = summary
    BY DEF Finish, Stamped
  <2> QED
    BY <2>1, <2>2 DEF Next, Answer, LoopStep, BeginExecuteOk, BlockArrives, StreamEnds, ReadFails,
       TakeRow, TakeBadRow, AtEnd, Pull, Fetch, ForeachBegins, Body, ForeachNext, ForeachEnds,
       Destroy, Gone, vars
<1> QED
  BY <1>1, StreamInvariant, PTL DEF Spec, SummaryIsFinal

-----------------------------------------------------------------------------
(* The refinement                                                          *)

(* One step of the Result is one step of RowStream, or none.               *)
LEMMA RowStreamStep ==
  ASSUME StreamInv, [Next]_vars
  PROVE  [Contract!Next]_(Contract!vars)
<1> USE DEF Contract!vars
<1>1. CASE UNCHANGED <<sent, handed, told, stream, released>>
  BY <1>1
<1>2. CASE \/ BeginExecuteOk \/ ProgressArrives \/ ProfileArrives \/ Pull
           \/ ForeachBegins \/ Body \/ ForeachNext \/ ForeachEnds
           \/ \E m \in Fetches : Fetch(m)
  BY <1>1, <1>2 DEF BeginExecuteOk, ProgressArrives, ProfileArrives, Pull,
    ForeachBegins, Body, ForeachNext, ForeachEnds, Fetch, flags, server, history
<1>3. ASSUME NEW n \in 0 .. MaxRows, NEW bad \in 0 .. n, BlockArrives(n, bad)
      PROVE  [Contract!Next]_(Contract!vars)
  <2>1. /\ ~ released /\ sent \in Nat /\ sent' = sent + n
        /\ UNCHANGED <<handed, told, stream, released>>
    BY <1>3 DEF StreamInv, TypeOK, CallType, ResultType, ReaderType, FlagsOK, BlockArrives, Packet, flags, history
  <2>2. CASE n = 0
    BY <1>1, <2>1, <2>2
  <2>3. CASE n # 0
    BY <2>1, <2>3 DEF Contract!Next, Contract!Make
  <2> QED
    BY <2>2, <2>3
<1>4. CASE TakeRow
  <2>1. /\ ~ released /\ Len(handed) < sent
        /\ handed' = Append(handed, Len(handed) + 1)
        /\ UNCHANGED <<sent, told, stream, released>>
    <3>1. /\ pc = "loop" /\ row < block.rows /\ row + 1 # block.bad
          /\ handed' = Append(handed, block.first + row)
          /\ UNCHANGED <<sent, told, stream, released>>
      BY <1>4 DEF TakeRow, CallerGets, flags, server
    <3>2. /\ Len(handed) + 1 = block.first + row /\ sent + 1 = block.first + block.rows
          /\ Len(handed) \in Nat /\ sent \in Nat
          /\ row \in Nat /\ block.rows \in Nat /\ block.first \in Nat
      BY DEF StreamInv, TypeOK, ResultType, ReaderType, CursorOK
    <3>3. ~ released
      BY <3>1, <3>2 DEF StreamInv, TypeOK, CallType, CursorOK, FlagsOK
    <3>4. Len(handed) < sent /\ block.first + row = Len(handed) + 1
      BY <3>1, <3>2
    <3> QED
      BY <3>1, <3>3, <3>4
  <2> QED
    BY <2>1 DEF Contract!Next, Contract!Give
<1>5. CASE StreamEnds
  <2>1. /\ ~ released /\ released' /\ Len(handed) = sent
        /\ told' # "error" /\ stream' = "ended"
        /\ UNCHANGED <<sent, handed>>
    BY <1>5 DEF StreamInv, TypeOK, CallType, ResultType, ReaderType, CursorOK, FlagsOK, StreamEnds, CallerIsTold,
                Finish, Release
  <2> QED
    BY <2>1 DEF Contract!Next, Contract!End, Contract!Over
<1>6. ASSUME NEW e \in ErrorClasses, ReadFails(e) \/ TakeBadRow(e)
      PROVE  [Contract!Next]_(Contract!vars)
  <2>1. Finish(Poisons(e)) /\ CallerCatches /\ UNCHANGED server
    BY <1>6 DEF ReadFails, TakeBadRow
  <2>2. \/ pc \in {"BeginExecute", "NextBlock"}
        \/ pc = "loop" /\ row < block.rows
    BY <1>6 DEF ReadFails, TakeBadRow
  <2>3. told' = "error" /\ UNCHANGED <<sent, handed, stream>>
    BY <2>1 DEF CallerCatches, server
  <2>4. released'
    BY <2>1 DEF Finish, Release
  <2>5. released => told = "error"
    BY <2>2 DEF StreamInv, TypeOK, CallType, ResultType, CursorOK, FlagsOK
  <2> QED
    BY <2>3, <2>4, <2>5 DEF Contract!Next, Contract!Over
<1>7. CASE AtEnd
  <2>1. /\ released /\ UNCHANGED <<sent, handed, stream, released>>
        /\ told = "error" <=> told' = "error"
    BY <1>7 DEF StreamInv, TypeOK, CallType, ResultType, ReaderType, FlagsOK, AtEnd, CallerIsTold, flags, server
  <2> QED
    BY <2>1
<1>8. CASE Destroy
  <2>1. /\ released' /\ UNCHANGED <<sent, handed, told, stream>>
        /\ ~ released => told # "error" /\ stream = "open"
    BY <1>8 DEF StreamInv, TypeOK, CallType, ResultType, ReaderType, FlagsOK, Destroy, Release, server, history
  <2> QED
    BY <2>1, <1>1 DEF Contract!Next, Contract!Over
<1>9. CASE UNCHANGED vars
  BY <1>1, <1>9 DEF vars
<1> QED
  BY <1>2, <1>3, <1>4, <1>5, <1>6, <1>7, <1>8, <1>9 DEF Next, Answer, LoopStep,
     Gone

(* ResultStream implements RowStream: for every size of block, every       *)
(* exception and every mix of calls, the program sees the rows of one      *)
(* stream, and the connection goes back when that stream is over.          *)
THEOREM ResultIsRowStream == Spec => KeepsPromise
<1>1. Init => Contract!Init
  BY DEF Init, Contract!Init
<1>2. StreamInv /\ [Next]_vars => [Contract!Next]_(Contract!vars)
  BY RowStreamStep
<1> QED
  BY <1>1, <1>2, StreamInvariant, PTL DEF Spec, KeepsPromise, Contract!Spec

=============================================================================
