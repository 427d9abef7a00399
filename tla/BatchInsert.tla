---------------------------- MODULE BatchInsert ----------------------------
(***************************************************************************)
(* The rows of one Batch: what append() buffers, what a flush() puts in a  *)
(* block, what the server stores, and what the Batch still remembers after *)
(* each outcome.  ClientPool has the connection; this module has the data. *)
(*                                                                         *)
(* flush() suspends its coroutine three times, in BeginInsert, in          *)
(* SendInsertBlock and in EndInsert.  The block is built from the buffer   *)
(* between the first two, without a suspension.                            *)
(***************************************************************************)
EXTENDS Naturals, Sequences, ChErrors

CONSTANTS
  Rows,        \* the rows the program appends, each once
  Unfit,       \* rows with a wrong number of values
  Unencodable, \* rows with a cell that its column rejects
  Refused,     \* rows the server refuses when the insert ends
  ReadErrors,  \* exceptions that a call of clickhouse-cpp may raise
  Shared,      \* do other coroutines append while one flushes
  MaxFlushes   \* bound: flushes that reach the server

ASSUME RowsAssumption == Unfit \cup Unencodable \cup Refused \subseteq Rows
ASSUME BatchErrorsAssumption == ReadErrors \subseteq ErrorClasses
ASSUME BatchBoundsAssumption == Shared \in BOOLEAN /\ MaxFlushes \in Nat

VARIABLES
  pending,   \* b->pending, the rows buffered and not yet flushed
  pc,        \* where the coroutine that flushes is
  block,     \* the rows of the block it has built
  session,   \* the insert session on the connection
  staged,    \* the rows the server has received in it
  table,     \* the rows the server has stored, in order
  broken,    \* b->broken
  alive,     \* does the Batch object exist
  accepted,  \* history: the rows append() accepted, in order
  flushed,   \* history: the rows in blocks of the flushes that returned
  doubtful,  \* history: the client stopped in the middle of an answer
  flushes    \* history: how many flushes began

server == <<session, staged, table>>
history == <<accepted, flushed, doubtful, flushes>>
vars == <<pending, pc, block, session, staged, table, broken, alive, accepted,
          flushed, doubtful, flushes>>

Elems(s) == {s[i] : i \in DOMAIN s}

IsPrefixOf(s, u) == Len(s) <= Len(u) /\ s = SubSeq(u, 1, Len(s))

(* The rows in the buffer have one value per column; those in a block also *)
(* have values that their columns take.                                    *)
RowSeq == Seq(Rows \ Unfit)
BlockSeq == Seq(Rows \ (Unfit \cup Unencodable))

TypeOK ==
  /\ pending \in RowSeq /\ accepted \in RowSeq
  /\ {block, staged, table, flushed} \subseteq BlockSeq
  /\ pc \in {"user", "BeginInsert", "SendInsertBlock", "EndInsert",
             "closeInsert"}
  /\ session \in {"none", "open", "dead"}
  /\ broken \in BOOLEAN /\ alive \in BOOLEAN /\ doubtful \in BOOLEAN
  /\ flushes \in 0 .. MaxFlushes

Init ==
  /\ pending = <<>> /\ block = <<>> /\ staged = <<>> /\ table = <<>>
  /\ accepted = <<>> /\ flushed = <<>> /\ flushes = 0
  /\ pc = "user" /\ session = "none"
  /\ broken = FALSE /\ alive = TRUE /\ doubtful = FALSE

-----------------------------------------------------------------------------
(* append(): no network.  A row of the wrong width is rejected at once and *)
(* leaves no trace.                                                        *)
(* Mutant: the width of the row is not compared with the columns.          *)
Fits_Unchecked(r) == TRUE

Fits(r) == r \notin Unfit

CanAppend == alive /\ (Shared \/ pc = "user")

DoAppend(r) ==
  /\ CanAppend
  /\ r \notin Elems(accepted)
  /\ Fits(r)
  /\ pending' = Append(pending, r)
  /\ accepted' = Append(accepted, r)
  /\ UNCHANGED <<pc, block, server, broken, alive, flushed, doubtful,
                 flushes>>

(* flush(): nothing to do when nothing is buffered.  Whether an earlier    *)
(* flush broke the connection is not looked at.                            *)
FlushBegins ==
  /\ alive /\ pc = "user" /\ pending # <<>> /\ flushes < MaxFlushes
  /\ pc' = "BeginInsert"
  /\ flushes' = flushes + 1
  /\ UNCHANGED <<pending, block, server, broken, alive, accepted, flushed,
                 doubtful>>

(* Mutant: a failed flush drops the rows, as a successful one does.        *)
Throws_Drops(brk) ==
  /\ pc' = "user"
  /\ broken' = (broken \/ brk)
  /\ block' = <<>>
  /\ pending' = <<>>

(* The handler has thrown: the rows stay in the buffer for another flush.  *)
Throws(brk) ==
  /\ pc' = "user"
  /\ broken' = (broken \/ brk)
  /\ block' = <<>>
  /\ UNCHANGED pending

(* The catch block of ch_send_block: a poisoning exception is final, any   *)
(* other one is followed by a second EndInsert, whose own exception,       *)
(* whatever it is, marks the connection broken.                            *)
Caught(e) ==
  IF Poisons(e) \/ pc = "closeInsert"
    THEN Throws(TRUE)
    ELSE pc' = "closeInsert" /\ UNCHANGED <<pending, block, broken>>

(* The server ends the insert and stores what it received.                 *)
Accepts(s) == Elems(s) \cap Refused = {}
Commit == table' = table \o staged /\ staged' = <<>> /\ session' = "none"

(* The server gives up the insert, or there is none.                       *)
GiveUp == session' = "none" /\ staged' = <<>> /\ UNCHANGED table

(* Once the client has stopped in the middle of an answer it takes the     *)
(* rest of it for the answer to its next request: what the server does in  *)
(* any exchange no longer depends on what the client reads in it.          *)
Drift ==
  \/ UNCHANGED server \/ GiveUp
  \/ session' = "open" /\ staged' = <<>> /\ UNCHANGED table
  \/ session = "open" /\ staged' = block /\ UNCHANGED <<session, table>>
  \/ session = "open" /\ Accepts(staged) /\ Commit

(* The columns are built from the rows buffered at this moment.            *)
Encodable == Elems(pending) \cap Unencodable = {}

(* The sample block came.  The rows make a block of its columns, or the    *)
(* table has another number of columns than the Batch, or a cell cannot be *)
(* converted.                                                              *)
BeginInsertOk ==
  /\ pc = "BeginInsert" /\ session # "dead"
  /\ IF doubtful THEN Drift ELSE session' = "open" /\ staged' = <<>> /\ UNCHANGED table
  /\ \/ Encodable /\ pc' = "SendInsertBlock" /\ block' = pending
     \/ pc' = "closeInsert" /\ UNCHANGED block
  /\ UNCHANGED <<pending, broken, alive, history>>

(* Mutant: flush() returns when the block is written, without EndInsert.   *)
SendInsertBlockOk_Returns ==
  /\ pc = "SendInsertBlock" /\ session # "dead"
  /\ staged' = block
  /\ pending' = <<>> /\ flushed' = flushed \o block
  /\ pc' = "user" /\ block' = <<>>
  /\ UNCHANGED <<session, table, broken, alive, accepted, doubtful, flushes>>

SendInsertBlockOk ==
  /\ pc = "SendInsertBlock" /\ session # "dead"
  /\ IF doubtful THEN Drift ELSE staged' = block /\ UNCHANGED <<session, table>>
  /\ pc' = "EndInsert"
  /\ UNCHANGED <<pending, block, broken, alive, history>>

(* Sent: the buffer is released and a new one takes its place.             *)
Cleared == <<>>

EndInsertOk ==
  /\ pc = "EndInsert" /\ session # "dead"
  /\ IF doubtful THEN Drift ELSE Accepts(staged) /\ Commit
  /\ pending' = Cleared
  /\ flushed' = flushed \o block
  /\ pc' = "user" /\ block' = <<>>
  /\ UNCHANGED <<broken, alive, accepted, doubtful, flushes>>

(* A transport failure kills the session.  If it was lost once the block   *)
(* was on its way, the rows may have been stored all the same.             *)
ConnectionLost ==
  /\ pc # "user" /\ "connection" \in ReadErrors
  /\ \E s \in IF session = "open" THEN {<<>>, staged, block} ELSE {<<>>} :
       Accepts(s) /\ table' = table \o s
  /\ session' = "dead" /\ staged' = <<>>
  /\ Caught("connection")
  /\ UNCHANGED <<alive, history>>

(* A server exception ends the insert and stores nothing.  EndInsert gets  *)
(* one for rows that the server refuses, or for a reason of the moment.    *)
ServerRefuses ==
  /\ pc \in {"BeginInsert", "EndInsert", "closeInsert"} /\ session # "dead"
  /\ "server" \in ReadErrors \/ (pc = "EndInsert" /\ ~ Accepts(staged))
  /\ IF doubtful THEN Drift ELSE GiveUp
  /\ Caught("server")
  /\ UNCHANGED <<alive, history>>

(* Any other exception stops in the middle of an answer, or of the block:  *)
(* the connection is still there, and a later flush may use it.            *)
OutOfStep(e) ==
  /\ pc # "user" /\ e \notin {"connection", "server"}
  /\ pc = "SendInsertBlock" => Poisons(e)
  /\ IF session = "dead" THEN UNCHANGED <<server, doubtful>>
                         ELSE Drift /\ doubtful' = TRUE
  /\ Caught(e)
  /\ UNCHANGED <<alive, accepted, flushed, flushes>>

(* The second EndInsert closes the session that is still open, storing     *)
(* what the server had received, and does nothing otherwise.               *)
CloseOk ==
  /\ pc = "closeInsert"
  /\ CASE session = "dead" -> UNCHANGED server
       [] session # "dead" /\ doubtful -> Drift
       [] OTHER -> IF session = "open" /\ Accepts(staged) THEN Commit ELSE GiveUp
  /\ Throws(FALSE)
  /\ UNCHANGED <<alive, history>>

(* The Batch is destroyed: unflushed rows are discarded.                   *)
Destroy ==
  /\ alive /\ pc = "user"
  /\ alive' = FALSE /\ pending' = <<>>
  /\ UNCHANGED <<pc, block, server, broken, history>>

Done == ~ alive /\ UNCHANGED vars

FlushStep ==
  \/ BeginInsertOk \/ SendInsertBlockOk \/ EndInsertOk
  \/ ConnectionLost \/ ServerRefuses \/ CloseOk
  \/ \E e \in ReadErrors : OutOfStep(e)

Next ==
  \/ \E r \in Rows : DoAppend(r)
  \/ FlushBegins \/ FlushStep \/ Destroy \/ Done

Spec == Init /\ [][Next]_vars

-----------------------------------------------------------------------------
(* Properties                                                              *)

(* While the Batch lives, each row that append() accepted was sent by a    *)
(* flush that returned, or is still counted as not yet flushed: no flush,  *)
(* failed or not, loses a row, sends one twice or reorders them.           *)
NoRowForgotten == alive => accepted = flushed \o pending

(* Nothing is stored that was not appended.  What flush() reported is      *)
(* stored, and what is stored is an initial part of what was appended, in  *)
(* that order, with no gap and no duplicate, also when a flush failed and  *)
(* was repeated: after a server exception the rows were not stored, and a  *)
(* lost connection leaves open whether they were, but then no later flush  *)
(* can store them again.  The exception is a client that has stopped in    *)
(* the middle of an answer: the Batch keeps both its rows and its          *)
(* connection, and a repeated flush may store rows twice.                  *)
StoredInOrder ==
  /\ Elems(table) \subseteq Elems(accepted)
  /\ ~ doubtful => IsPrefixOf(flushed, table) /\ IsPrefixOf(table, accepted)

(* The invariant behind the theorems of BatchInsert_proofs: the block under *)
(* way is the buffer, the server has received no more than that, and while *)
(* the session is not dead the table is what the flushes have reported.    *)
BufferOK ==
  /\ NoRowForgotten
  /\ IsPrefixOf(flushed, accepted)
  /\ pc # "user" => alive
  /\ pc \in {"user", "BeginInsert"} => block = <<>>
  /\ pc \in {"SendInsertBlock", "EndInsert"} => block = pending

ServerOK ==
  /\ pc # "EndInsert" => staged = <<>>
  /\ pc = "EndInsert" => staged = block
  /\ pc = "closeInsert" /\ session = "open" => block = <<>>
  /\ session = "dead" => staged = <<>>
  /\ session # "dead" => table = flushed

RowsOK ==
  /\ Elems(block) \cup Elems(staged) \subseteq Elems(accepted)
  /\ ~ doubtful => ServerOK
  /\ StoredInOrder

BatchInv == TypeOK /\ BufferOK /\ RowsOK

=============================================================================
