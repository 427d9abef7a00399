------------------------ MODULE BatchInsert_proofs -------------------------
(***************************************************************************)
(* The rows of a Batch that one coroutine uses, proved for any rows, any   *)
(* number of flushes and any exceptions among the classes that             *)
(* ch_client.cpp tells apart: none is forgotten, and as long as the client *)
(* has not stopped in the middle of an answer, what is stored is an        *)
(* initial part of what was appended.                                      *)
(***************************************************************************)
EXTENDS BatchInsert, SequenceTheorems, TLAPS

USE RowsAssumption, BatchErrorsAssumption, BatchBoundsAssumption

-----------------------------------------------------------------------------
(* Initial parts of sequences                                              *)

Fitting == Rows \ Unfit

(* A sequence is an initial part of itself, and of each that begins so.    *)
LEMMA PrefixOfConcat ==
  ASSUME NEW s \in Seq(Fitting), NEW u \in Seq(Fitting)
  PROVE  IsPrefixOf(s, s \o u) /\ IsPrefixOf(s, s)
<1>1. /\ s \o u \in Seq(Fitting) /\ Len(s \o u) = Len(s) + Len(u)
      /\ Len(s) \in Nat /\ Len(u) \in Nat
  BY ConcatProperties, LenProperties
<1>2. SubSeq(s, 1, Len(s)) = s
  BY SubSeqFull
<1>3. SubSeq(s \o u, 1, Len(s)) = s
  <2>1. CASE Len(s) = 0
    <3>1. s = <<>>
      BY <2>1, EmptySeq
    <3>2. SubSeq(s \o u, 1, 0) = <<>>
      BY SubSeqEmpty
    <3> QED
      BY <2>1, <3>1, <3>2
  <2>2. CASE Len(s) # 0
    <3>1. 1 \in 1 .. Len(s) /\ Len(s) \in 1 .. Len(s)
      BY <1>1, <2>2
    <3> QED
      BY <1>2, <3>1, SubSeqOfConcat1
  <2> QED
    BY <2>1, <2>2
<1> QED
  BY <1>1, <1>2, <1>3 DEF IsPrefixOf

(* An initial part of s stays one when s grows.                            *)
LEMMA PrefixOfLonger ==
  ASSUME NEW s \in Seq(Fitting), NEW u \in Seq(Fitting), NEW r \in Fitting,
         IsPrefixOf(s, u)
  PROVE  IsPrefixOf(s, Append(u, r))
<1>1. Append(u, r) = u \o <<r>> /\ <<r>> \in Seq(Fitting)
  BY AppendIsConcat
<1>2. Len(u \o <<r>>) = Len(u) + 1 /\ Len(s) \in Nat /\ Len(u) \in Nat
  BY <1>1, ConcatProperties, LenProperties
<1>3. SubSeq(u \o <<r>>, 1, Len(s)) = SubSeq(u, 1, Len(s))
  <2>1. CASE Len(s) = 0
    BY <2>1, SubSeqEmpty
  <2>2. CASE Len(s) # 0
    <3>1. 1 \in 1 .. Len(u) /\ Len(s) \in 1 .. Len(u)
      BY <1>2, <2>2 DEF IsPrefixOf
    <3> QED
      BY <1>1, <3>1, SubSeqOfConcat1
  <2> QED
    BY <2>1, <2>2
<1> QED
  BY <1>1, <1>2, <1>3 DEF IsPrefixOf

-----------------------------------------------------------------------------
(* The rows of sequences                                                   *)

Good == Rows \ (Unfit \cup Unencodable)

(* A sequence of rows that are all in T is a sequence over T.              *)
LEMMA SeqOver ==
  ASSUME NEW S, NEW T, NEW s \in Seq(S), Elems(s) \subseteq T
  PROVE  s \in Seq(T)
<1>1. Len(s) \in Nat /\ DOMAIN s = 1 .. Len(s) /\ s = [i \in 1 .. Len(s) |-> s[i]]
  BY LenProperties
<1>2. \A i \in 1 .. Len(s) : s[i] \in T
  BY <1>1 DEF Elems
<1>3. s \in [1 .. Len(s) -> T]
  BY <1>1, <1>2
<1> QED
  BY <1>1, <1>3, SeqDef

LEMMA GoodFits == \A s \in Seq(Good) : s \in Seq(Fitting)
<1> SUFFICES ASSUME NEW s \in Seq(Good) PROVE s \in Seq(Fitting)
  OBVIOUS
<1>1. Elems(s) \subseteq Good
  BY LenProperties, ElementOfSeq DEF Elems
<1> QED
  BY <1>1, SeqOver DEF Good, Fitting

(* The rows of a buffer without unencodable ones make a block.             *)
LEMMA EncodableIsGood ==
  ASSUME pending \in Seq(Fitting), Encodable
  PROVE  pending \in Seq(Good)
<1>1. Elems(pending) \subseteq Fitting
  BY LenProperties, ElementOfSeq DEF Elems
<1>2. Elems(pending) \subseteq Good
  BY <1>1 DEF Encodable, Good, Fitting
<1> QED
  BY <1>2, SeqOver

LEMMA ElemsOfNone == Elems(<<>>) = {}
BY DEF Elems

LEMMA ElemsOfConcat ==
  ASSUME NEW s \in Seq(Fitting), NEW u \in Seq(Fitting)
  PROVE  Elems(s \o u) = Elems(s) \cup Elems(u)
<1>1. /\ s \o u \in Seq(Fitting) /\ Len(s \o u) = Len(s) + Len(u)
      /\ Len(s) \in Nat /\ Len(u) \in Nat
      /\ DOMAIN s = 1 .. Len(s) /\ DOMAIN u = 1 .. Len(u)
      /\ DOMAIN (s \o u) = 1 .. Len(s) + Len(u)
  BY ConcatProperties, LenProperties
<1>2. \A i \in 1 .. Len(s) + Len(u) :
         (s \o u)[i] = IF i <= Len(s) THEN s[i] ELSE u[i - Len(s)]
  BY ConcatProperties
<1>3. \A i \in 1 .. Len(s) : (s \o u)[i] = s[i] /\ i \in 1 .. Len(s) + Len(u)
  BY <1>1, <1>2
<1>4. \A i \in 1 .. Len(u) : (s \o u)[i + Len(s)] = u[i] /\ i + Len(s) \in 1 .. Len(s) + Len(u)
  BY <1>1, <1>2
<1>5. Elems(s \o u) \subseteq Elems(s) \cup Elems(u)
  BY <1>1, <1>2 DEF Elems
<1>6. Elems(s) \subseteq Elems(s \o u)
  BY <1>1, <1>3 DEF Elems
<1>7. Elems(u) \subseteq Elems(s \o u)
  BY <1>1, <1>4 DEF Elems
<1> QED
  BY <1>5, <1>6, <1>7

-----------------------------------------------------------------------------
(* The steps                                                               *)

(* The sequences of the invariant, by name.                                *)
LEMMA Sequences ==
  ASSUME BatchInv
  PROVE  /\ pending \in Seq(Fitting) /\ accepted \in Seq(Fitting)
         /\ block \in Seq(Good) /\ staged \in Seq(Good)
         /\ table \in Seq(Good) /\ flushed \in Seq(Good)
         /\ block \in Seq(Fitting) /\ staged \in Seq(Fitting)
         /\ table \in Seq(Fitting) /\ flushed \in Seq(Fitting)
BY GoodFits DEF BatchInv, TypeOK, RowSeq, BlockSeq, Fitting, Good

LEMMA InitInv == Init => BatchInv
<1> SUFFICES ASSUME Init PROVE BatchInv
  OBVIOUS
<1>1. <<>> \in Seq(Fitting) /\ <<>> \in Seq(Good) /\ Elems(<<>>) = {}
  BY EmptySeq, ElemsOfNone
<1>2. IsPrefixOf(<<>>, <<>>) /\ <<>> \o <<>> = <<>>
  BY <1>1, PrefixOfConcat, ConcatEmptySeq
<1>3. TypeOK
  <2>1. pending \in RowSeq /\ accepted \in RowSeq
    BY <1>1 DEF Init, RowSeq, Fitting
  <2>2. {block, staged, table, flushed} \subseteq BlockSeq
    BY <1>1 DEF Init, BlockSeq, Good
  <2>3. flushes \in 0 .. MaxFlushes
    BY DEF Init
  <2> QED
    BY <2>1, <2>2, <2>3 DEF Init, TypeOK
<1>4. BufferOK
  BY <1>2 DEF Init, BufferOK, NoRowForgotten
<1>5. RowsOK
  BY <1>1, <1>2 DEF Init, RowsOK, ServerOK, StoredInOrder
<1> QED
  BY <1>3, <1>4, <1>5 DEF BatchInv

LEMMA AppendInv ==
  ASSUME ~ Shared, BatchInv, NEW r \in Rows, DoAppend(r)
  PROVE  BatchInv'
<1>1. /\ r \in Fitting /\ alive /\ pc = "user"
      /\ pending' = Append(pending, r) /\ accepted' = Append(accepted, r)
      /\ UNCHANGED <<pc, block, session, staged, table, broken, alive, flushed, doubtful, flushes>>
  BY DEF DoAppend, CanAppend, Fits, Fitting, server
<1>2. /\ pending' \in Seq(Fitting) /\ accepted' \in Seq(Fitting) /\ <<r>> \in Seq(Fitting)
      /\ pending' = pending \o <<r>> /\ accepted' = accepted \o <<r>>
  BY <1>1, Sequences, AppendProperties, AppendIsConcat
<1>3. TypeOK'
  BY <1>1, <1>2 DEF BatchInv, TypeOK, RowSeq, BlockSeq, Fitting
<1>4. accepted' = flushed' \o pending'
  <2>1. accepted = flushed \o pending
    BY <1>1 DEF BatchInv, BufferOK, NoRowForgotten
  <2>2. (flushed \o pending) \o <<r>> = flushed \o (pending \o <<r>>)
    <3>1. flushed \in Seq(Fitting) /\ pending \in Seq(Fitting)
      BY Sequences
    <3> QED
      BY <1>2, <3>1, ConcatAssociative
  <2> QED
    BY <1>1, <1>2, <2>1, <2>2
<1>5. IsPrefixOf(flushed', accepted')
  BY <1>1, Sequences, PrefixOfLonger DEF BatchInv, BufferOK
<1>6. BufferOK'
  BY <1>1, <1>4, <1>5 DEF BatchInv, BufferOK, NoRowForgotten
<1>7. Elems(accepted) \subseteq Elems(accepted')
  <2>1. accepted \in Seq(Fitting)
    BY Sequences
  <2> QED
    BY <1>2, <2>1, ElemsOfConcat
<1>8. ~ doubtful' => IsPrefixOf(flushed', table') /\ IsPrefixOf(table', accepted')
  BY <1>1, Sequences, PrefixOfLonger DEF BatchInv, RowsOK, StoredInOrder
<1>9. RowsOK'
  BY <1>1, <1>7, <1>8 DEF BatchInv, RowsOK, ServerOK, StoredInOrder
<1> QED
  BY <1>3, <1>6, <1>9 DEF BatchInv

(* What the server can do with the rows of the block, whatever it reads.   *)
Moves ==
  /\ session' \in {"none", "open", "dead"}
  /\ staged' \in {staged, block, <<>>}
  /\ table' \in {table, table \o staged, table \o block}

LEMMA DriftMoves ==
  ASSUME BatchInv, Drift
  PROVE  Moves /\ (session # "dead" => session' # "dead")
BY DEF BatchInv, TypeOK, Drift, GiveUp, Commit, Moves, server

(* The table and the server hold rows of the Batch, in any exchange.       *)
LEMMA MovesKeepRows ==
  ASSUME BatchInv, Moves, UNCHANGED accepted
  PROVE  /\ staged' \in Seq(Good) /\ table' \in Seq(Good)
         /\ Elems(staged') \cup Elems(table') \subseteq Elems(accepted')
<1>1. /\ table \in Seq(Good) /\ staged \in Seq(Good) /\ block \in Seq(Good)
      /\ table \in Seq(Fitting) /\ staged \in Seq(Fitting) /\ block \in Seq(Fitting)
  BY Sequences
<1>2. <<>> \in Seq(Good) /\ Elems(<<>>) = {}
  BY EmptySeq, ElemsOfNone
<1>3. table \o staged \in Seq(Good) /\ table \o block \in Seq(Good)
  BY <1>1, ConcatProperties
<1>4. /\ Elems(table \o staged) = Elems(table) \cup Elems(staged)
      /\ Elems(table \o block) = Elems(table) \cup Elems(block)
  BY <1>1, ElemsOfConcat
<1>5. Elems(table) \cup Elems(staged) \cup Elems(block) \subseteq Elems(accepted)
  BY DEF BatchInv, RowsOK, StoredInOrder
<1>6. staged' \in Seq(Good) /\ Elems(staged') \subseteq Elems(accepted')
  BY <1>1, <1>2, <1>5 DEF Moves
<1>7. table' \in Seq(Good) /\ Elems(table') \subseteq Elems(accepted')
  BY <1>1, <1>3, <1>4, <1>5 DEF Moves
<1> QED
  BY <1>6, <1>7

(* A step of the flush or of its handler that has not returned keeps the   *)
(* invariant if, in a session that is not doubtful, the server and the     *)
(* table still fit the block.                                              *)
LEMMA NotReturned ==
  ASSUME BatchInv, Moves, UNCHANGED <<pending, alive, accepted, flushed, flushes>>,
         pc # "user", alive,
         pc' \in {"user", "SendInsertBlock", "EndInsert", "closeInsert"},
         broken' \in BOOLEAN, doubtful' \in BOOLEAN,
         block' \in {block, <<>>} \/ (Encodable /\ block' = pending),
         pc' = "user" => block' = <<>>,
         pc' \in {"SendInsertBlock", "EndInsert"} => block' = pending,
         ~ doubtful' => /\ ServerOK'
                        /\ IsPrefixOf(flushed, table') /\ IsPrefixOf(table', accepted)
  PROVE  BatchInv'
<1>1. /\ pending \in Seq(Fitting) /\ flushed \in Seq(Fitting) /\ block \in Seq(Good)
      /\ accepted = flushed \o pending
  BY Sequences DEF BatchInv, BufferOK, NoRowForgotten
<1>2. Elems(pending) \subseteq Elems(accepted)
  BY <1>1, ElemsOfConcat
<1>3. block' \in Seq(Good) /\ Elems(block') \subseteq Elems(accepted)
  <2>1. <<>> \in Seq(Good) /\ Elems(<<>>) = {}
    BY EmptySeq, ElemsOfNone
  <2>2. CASE block' \in {block, <<>>}
    BY <1>1, <2>1, <2>2 DEF BatchInv, RowsOK
  <2>3. CASE Encodable /\ block' = pending
    BY <1>1, <1>2, <2>3, EncodableIsGood
  <2> QED
    BY <2>2, <2>3
<1>4. /\ staged' \in Seq(Good) /\ table' \in Seq(Good)
      /\ Elems(staged') \cup Elems(table') \subseteq Elems(accepted')
  BY MovesKeepRows
<1>5. TypeOK'
  BY <1>3, <1>4 DEF BatchInv, TypeOK, RowSeq, BlockSeq, Good, Moves
<1>6. BufferOK'
  BY DEF BatchInv, BufferOK, NoRowForgotten
<1>7. RowsOK'
  BY <1>3, <1>4 DEF RowsOK, StoredInOrder
<1> QED
  BY <1>5, <1>6, <1>7 DEF BatchInv

(* The catch block: it throws, or goes on with the second EndInsert.       *)
LEMMA CaughtSteps ==
  ASSUME BatchInv, NEW e, Caught(e)
  PROVE  /\ UNCHANGED pending /\ broken' \in BOOLEAN
         /\ \/ pc' = "user" /\ block' = <<>>
            \/ pc' = "closeInsert" /\ UNCHANGED block /\ pc # "closeInsert"
BY DEF Caught, Throws, BatchInv, TypeOK

LEMMA FlushBeginsInv ==
  ASSUME BatchInv, FlushBegins \/ Destroy
  PROVE  BatchInv'
<1>1. /\ UNCHANGED <<block, session, staged, table, broken, accepted, flushed, doubtful>>
      /\ pc = "user" /\ pc' \in {"user", "BeginInsert"} /\ alive' \in BOOLEAN
      /\ pending' \in {pending, <<>>} /\ (alive' => UNCHANGED pending /\ alive)
      /\ (pc' = "BeginInsert" => alive')
  BY DEF FlushBegins, Destroy, server, history, BatchInv, TypeOK
<1>2. flushes' \in 0 .. MaxFlushes
  BY DEF FlushBegins, Destroy, history, BatchInv, TypeOK
<1>3. pending' \in Seq(Fitting)
  BY <1>1, Sequences, EmptySeq
<1>4. TypeOK'
  BY <1>1, <1>2, <1>3 DEF BatchInv, TypeOK, RowSeq, BlockSeq, Fitting
<1>5. BufferOK'
  BY <1>1 DEF BatchInv, BufferOK, NoRowForgotten
<1>6. RowsOK'
  BY <1>1 DEF BatchInv, RowsOK, ServerOK, StoredInOrder
<1> QED
  BY <1>4, <1>5, <1>6 DEF BatchInv

(* The block is built, or cannot be.                                       *)
LEMMA BeginInsertInv ==
  ASSUME BatchInv, BeginInsertOk
  PROVE  BatchInv'
<1>1. /\ pc = "BeginInsert" /\ session # "dead" /\ alive /\ block = <<>>
      /\ UNCHANGED <<pending, alive, accepted, flushed, flushes, broken, doubtful>>
      /\ broken' \in BOOLEAN /\ doubtful' \in BOOLEAN
      /\ \/ Encodable /\ pc' = "SendInsertBlock" /\ block' = pending
         \/ pc' = "closeInsert" /\ block' = <<>>
  BY DEF BeginInsertOk, history, BatchInv, BufferOK, TypeOK
<1>2. Moves
  BY DriftMoves DEF BeginInsertOk, Moves
<1>3. ~ doubtful' => /\ ServerOK'
                     /\ IsPrefixOf(flushed, table') /\ IsPrefixOf(table', accepted)
  BY <1>1 DEF BeginInsertOk, BatchInv, RowsOK, ServerOK, StoredInOrder
<1> QED
  BY <1>1, <1>2, <1>3, NotReturned

LEMMA SendInsertBlockInv ==
  ASSUME BatchInv, SendInsertBlockOk
  PROVE  BatchInv'
<1>1. /\ pc = "SendInsertBlock" /\ session # "dead" /\ alive
      /\ UNCHANGED <<pending, alive, accepted, flushed, flushes, broken, doubtful, block>>
      /\ broken' \in BOOLEAN /\ doubtful' \in BOOLEAN
      /\ pc' = "EndInsert" /\ block' = pending
  BY DEF SendInsertBlockOk, history, BatchInv, BufferOK, TypeOK
<1>2. Moves
  BY DriftMoves DEF SendInsertBlockOk, Moves, BatchInv, TypeOK
<1>3. ~ doubtful' => /\ ServerOK'
                     /\ IsPrefixOf(flushed, table') /\ IsPrefixOf(table', accepted)
  BY <1>1 DEF SendInsertBlockOk, BatchInv, RowsOK, ServerOK, StoredInOrder
<1> QED
  BY <1>1, <1>2, <1>3, NotReturned

(* A flush that returns: its rows move from the buffer to the table.       *)
LEMMA EndInsertInv ==
  ASSUME BatchInv, EndInsertOk
  PROVE  BatchInv'
<1>1. /\ pc = "EndInsert" /\ session # "dead" /\ pc' = "user"
      /\ pending' = <<>> /\ block' = <<>>
      /\ flushed' = flushed \o block
      /\ UNCHANGED <<broken, alive, accepted, doubtful, flushes>>
  BY DEF EndInsertOk, Cleared
<1>2. block = pending /\ alive /\ accepted = flushed \o pending
  BY <1>1 DEF BatchInv, BufferOK, NoRowForgotten
<1>3. Moves
  BY DriftMoves DEF EndInsertOk, Commit, Moves
<1>4. /\ staged' \in Seq(Good) /\ table' \in Seq(Good)
      /\ Elems(staged') \cup Elems(table') \subseteq Elems(accepted')
  BY <1>1, <1>3, MovesKeepRows
<1>5. /\ <<>> \in Seq(Good) /\ <<>> \in Seq(Fitting) /\ Elems(<<>>) = {}
      /\ flushed' \in Seq(Good) /\ flushed' \in Seq(Fitting)
  <2>1. flushed \in Seq(Good) /\ block \in Seq(Good)
    BY Sequences
  <2>2. flushed \o block \in Seq(Good)
    BY <2>1, ConcatProperties
  <2> QED
    BY <1>1, <2>2, EmptySeq, ElemsOfNone, GoodFits
<1>6. TypeOK'
  BY <1>1, <1>3, <1>4, <1>5 DEF BatchInv, TypeOK, RowSeq, BlockSeq, Fitting, Good, Moves
<1>7. accepted' = flushed' \o pending' /\ flushed' = accepted'
  BY <1>1, <1>2, <1>5, ConcatEmptySeq
<1>8. IsPrefixOf(flushed', flushed')
  BY <1>5, PrefixOfConcat
<1>9. BufferOK'
  BY <1>1, <1>7, <1>8 DEF BufferOK, NoRowForgotten
<1>10. ~ doubtful' => ServerOK' /\ table' = flushed'
  BY <1>1 DEF BatchInv, RowsOK, ServerOK, EndInsertOk, Commit
<1>11. RowsOK'
  BY <1>1, <1>4, <1>5, <1>7, <1>8, <1>10 DEF RowsOK, StoredInOrder
<1> QED
  BY <1>6, <1>9, <1>11 DEF BatchInv

(* Where the rows of the block may have been stored without the Batch      *)
(* knowing, they go on where the table stops.                              *)
LEMMA ConnectionLostInv ==
  ASSUME BatchInv, ConnectionLost
  PROVE  BatchInv'
<1>1. /\ pc # "user" /\ alive /\ session' = "dead" /\ staged' = <<>>
      /\ UNCHANGED <<alive, accepted, flushed, doubtful, flushes>>
      /\ doubtful' \in BOOLEAN
  BY DEF ConnectionLost, history, BatchInv, BufferOK, TypeOK
<1>2. UNCHANGED pending /\ broken' \in BOOLEAN /\ pc' = "user" /\ block' = <<>>
  <2>1. Poisons("connection")
    BY DEF Poisons
  <2> QED
    BY <2>1 DEF ConnectionLost, Caught, Throws, BatchInv, TypeOK
<1>3. PICK s \in IF session = "open" THEN {<<>>, staged, block} ELSE {<<>>} : table' = table \o s
  BY DEF ConnectionLost
<1>4. table \o <<>> = table
  <2>1. table \in Seq(Good)
    BY Sequences
  <2> QED
    BY <2>1, ConcatEmptySeq
<1>5. Moves
  BY <1>1, <1>3, <1>4 DEF Moves
<1>6. ~ doubtful => IsPrefixOf(flushed, table') /\ IsPrefixOf(table', accepted)
  <2>1. CASE table' = table
    BY <2>1 DEF BatchInv, RowsOK, StoredInOrder
  <2>2. CASE ~ doubtful /\ table' # table
    <3>1. session = "open" /\ s \in {staged, block} /\ s # <<>>
      BY <1>3, <1>4, <2>2
    <3>2. s = pending /\ table = flushed
      BY <1>1, <2>2, <3>1 DEF BatchInv, BufferOK, RowsOK, ServerOK, TypeOK
    <3>3. table' = accepted /\ accepted = flushed \o pending
      BY <1>1, <1>3, <3>2 DEF BatchInv, BufferOK, NoRowForgotten
    <3>4. flushed \in Seq(Fitting) /\ pending \in Seq(Fitting) /\ accepted \in Seq(Fitting)
      BY Sequences
    <3> QED
      BY <3>3, <3>4, PrefixOfConcat
  <2> QED
    BY <2>1, <2>2
<1>7. ~ doubtful' => /\ ServerOK'
                     /\ IsPrefixOf(flushed, table') /\ IsPrefixOf(table', accepted)
  BY <1>1, <1>2, <1>6 DEF ServerOK
<1> QED
  BY <1>1, <1>2, <1>5, <1>7, NotReturned

(* The server gives up the insert; what the flushes reported stays.        *)
LEMMA ServerRefusesInv ==
  ASSUME BatchInv, ServerRefuses
  PROVE  BatchInv'
<1>1. /\ pc # "user" /\ alive /\ session # "dead" /\ Caught("server")
      /\ UNCHANGED <<alive, accepted, flushed, doubtful, flushes>>
      /\ doubtful' \in BOOLEAN
  BY DEF ServerRefuses, history, BatchInv, BufferOK, TypeOK
<1>2. /\ UNCHANGED pending /\ broken' \in BOOLEAN
      /\ \/ pc' = "user" /\ block' = <<>>
         \/ pc' = "closeInsert" /\ UNCHANGED block
  BY <1>1, CaughtSteps
<1>3. Moves
  BY DriftMoves DEF ServerRefuses, GiveUp, Moves
<1>4. ~ doubtful' => /\ ServerOK'
                     /\ IsPrefixOf(flushed, table') /\ IsPrefixOf(table', accepted)
  BY <1>1, <1>2 DEF ServerRefuses, GiveUp, BatchInv, RowsOK, ServerOK, StoredInOrder
<1> QED
  BY <1>1, <1>2, <1>3, <1>4, NotReturned

(* After any other exception the session is doubtful, unless it was dead.  *)
LEMMA OutOfStepInv ==
  ASSUME BatchInv, NEW e \in ReadErrors, OutOfStep(e)
  PROVE  BatchInv'
<1>1. /\ pc # "user" /\ alive /\ Caught(e)
      /\ UNCHANGED <<alive, accepted, flushed, flushes>>
      /\ doubtful' \in BOOLEAN
  BY DEF OutOfStep, BatchInv, BufferOK, TypeOK
<1>2. /\ UNCHANGED pending /\ broken' \in BOOLEAN
      /\ \/ pc' = "user" /\ block' = <<>>
         \/ pc' = "closeInsert" /\ UNCHANGED block
  BY <1>1, CaughtSteps
<1>3. Moves
  BY DriftMoves DEF OutOfStep, Moves, server, BatchInv, TypeOK
<1>4. ~ doubtful' => /\ ServerOK'
                     /\ IsPrefixOf(flushed, table') /\ IsPrefixOf(table', accepted)
  BY <1>1, <1>2 DEF OutOfStep, server, BatchInv, RowsOK, ServerOK, StoredInOrder
<1> QED
  BY <1>1, <1>2, <1>3, <1>4, NotReturned

(* The second EndInsert finds nothing of the block at the server.          *)
LEMMA CloseInv ==
  ASSUME BatchInv, CloseOk
  PROVE  BatchInv'
<1>1. /\ pc = "closeInsert" /\ alive /\ pc' = "user" /\ block' = <<>>
      /\ UNCHANGED <<pending, alive, accepted, flushed, doubtful, flushes>>
      /\ broken' \in BOOLEAN /\ doubtful' \in BOOLEAN
  BY DEF CloseOk, Throws, history, BatchInv, BufferOK, TypeOK
<1>2. \/ session = "dead" /\ UNCHANGED server
      \/ session # "dead" /\ doubtful /\ Drift
      \/ session # "dead" /\ ~ doubtful /\ (Commit \/ GiveUp)
  BY DEF CloseOk
<1>3. Moves
  BY <1>2, DriftMoves DEF Commit, GiveUp, Moves, server, BatchInv, TypeOK
<1>4. ~ doubtful => table' = table /\ staged' = <<>> /\ (session # "dead" => session' # "dead")
                    /\ (session' # "dead" => session # "dead")
  <2>1. ~ doubtful => staged = <<>>
    BY <1>1 DEF BatchInv, RowsOK, ServerOK
  <2>2. table \o <<>> = table
    <3>1. table \in Seq(Good)
      BY Sequences
    <3> QED
      BY <3>1, ConcatEmptySeq
  <2> QED
    BY <1>2, <2>1, <2>2 DEF Commit, GiveUp, server
<1>5. ~ doubtful' => /\ ServerOK'
                     /\ IsPrefixOf(flushed, table') /\ IsPrefixOf(table', accepted)
  BY <1>1, <1>4 DEF BatchInv, RowsOK, ServerOK, StoredInOrder
<1> QED
  BY <1>1, <1>3, <1>5, NotReturned

LEMMA StepInv == ~ Shared /\ BatchInv /\ [Next]_vars => BatchInv'
<1> SUFFICES ASSUME ~ Shared, BatchInv, [Next]_vars
             PROVE  BatchInv'
  OBVIOUS
<1>1. CASE \E r \in Rows : DoAppend(r)
  BY <1>1, AppendInv
<1>2. CASE FlushBegins \/ FlushStep \/ Destroy
  BY <1>2, FlushBeginsInv, BeginInsertInv, SendInsertBlockInv, EndInsertInv,
     ConnectionLostInv, ServerRefusesInv, OutOfStepInv, CloseInv DEF FlushStep
<1>3. CASE UNCHANGED vars
  BY <1>3 DEF vars, BatchInv, TypeOK, BufferOK, RowsOK, ServerOK, NoRowForgotten, StoredInOrder
<1> QED
  BY <1>1, <1>2, <1>3 DEF Next, Done

-----------------------------------------------------------------------------
(* Theorems                                                                *)

(* The buffer, the block, the server and the history fit together, in a    *)
(* Batch that no other coroutine appends to.                               *)
THEOREM BatchInvariant == ~ Shared /\ Spec => []BatchInv
<1>1. CASE Shared
  BY <1>1
<1>2. CASE ~ Shared
  <2>1. BatchInv /\ [Next]_vars => BatchInv'
    BY <1>2, StepInv
  <2> QED
    BY <2>1, InitInv, PTL DEF Spec
<1> QED
  BY <1>1, <1>2

(* Every variable keeps its type: no row of a wrong width is ever taken,   *)
(* and none with a cell that its column rejects reaches a block, the       *)
(* server or the table.                                                    *)
THEOREM BatchTypeCorrect == ~ Shared /\ Spec => []TypeOK
<1>1. BatchInv => TypeOK
  BY DEF BatchInv
<1> QED
  BY <1>1, BatchInvariant, PTL

(* No flush, failed or not, loses a row that append() accepted.            *)
THEOREM BatchRemembers == ~ Shared /\ Spec => []NoRowForgotten
<1>1. BatchInv => NoRowForgotten
  BY DEF BatchInv, BufferOK
<1> QED
  BY <1>1, BatchInvariant, PTL

(* Only what was appended is stored.  While the client has read every      *)
(* answer to its end, what was reported is stored, and what is stored is   *)
(* an initial part of what was appended, through failed and repeated       *)
(* flushes: after server exceptions, which are taken to mean that nothing  *)
(* was stored, and after lost connections.                                 *)
THEOREM TableIsPrefix == ~ Shared /\ Spec => []StoredInOrder
<1>1. BatchInv => StoredInOrder
  BY DEF BatchInv, RowsOK
<1> QED
  BY <1>1, BatchInvariant, PTL

=============================================================================
