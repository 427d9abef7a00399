---------------------------- MODULE ResultStream ----------------------------
(***************************************************************************)
(* One Result: the query that starts it, the block and row cursor of       *)
(* ch_result, the calls fetch, fetchAll, fetchOne and foreach that share   *)
(* the cursor, the iterator fields of the PHP object, the Summary, and the *)
(* return of the connection.  ClientPool has many Results and one counter  *)
(* of rows for each; this module has one Result and its rows.              *)
(*                                                                         *)
(* Rows are numbered in the order in which the server sends them.  A call  *)
(* is suspended in BeginExecute or NextBlock; "loop" is the head of the    *)
(* loop in ch_result_next, where nothing else runs.  Calls do not overlap  *)
(* (ch_client.cpp:888), but any coroutine may make the next one.           *)
(***************************************************************************)
EXTENDS Naturals, Sequences, ChErrors

CONSTANTS
  MaxRows,       \* bound: rows in a block
  MaxPackets,    \* bound: packets the server sends before the end
  StreamErrors,  \* exceptions that BeginExecute and NextBlock may raise
  DecodeErrors   \* exceptions that the decoding of a bad row may raise

ASSUME StreamBoundsAssumption == MaxRows \in Nat /\ MaxPackets \in Nat
ASSUME StreamErrorsAssumption ==
  StreamErrors \subseteq ErrorClasses /\ DecodeErrors \subseteq ErrorClasses

VARIABLES
  life,      \* of the ch_result: "starting", "live", "failed" or "freed"
  pc,        \* where the call in progress is
  op,        \* the call in progress
  block,     \* the block adopted last: its first row, its rows, its bad row
  row,       \* the cursor in it
  done,      \* the three flags of ch_result
  broken,
  released,
  summary,   \* the counters of ch_summary_t
  current,   \* the iterator's lookahead row
  count,     \* its pos + 1 (pos starts at -1)
  valid,
  started,
  acc,       \* fetchAll's array so far
  looping,   \* is the program between two steps of a foreach
  stream,    \* has the server sent the end of the stream
  sent,      \* how many rows it has sent
  packets,   \* how many packets it has sent
  fate,      \* history: the connection is "held", "idle" or "dropped"
  returns,   \* history: how many times it was given back
  handed,    \* history: the rows that ch_result_next returned
  iterated,  \* history: those of them that went to the iterator
  fetched,   \* history: the rows that fetch, fetchOne and fetchAll returned
  shown,     \* history: the rows that a foreach body has seen
  told       \* history: "end" once a call has reported the end, "error"
             \* once a call has raised an exception

flags == <<done, broken, released, fate, returns>>
server == <<stream, sent, packets>>
iterator == <<current, count, valid, started>>
reader == <<iterator, acc, looping>>
history == <<handed, iterated, fetched, shown, told>>
vars == <<life, pc, op, block, row, done, broken, released, summary, current,
          count, valid, started, acc, looping, stream, sent, packets, fate,
          returns, handed, iterated, fetched, shown, told>>

Fetches == {"fetch", "fetchOne", "fetchAll"}

NoRow == 0
NoBlock == [first |-> 1, rows |-> 0, bad |-> 0]

CallType ==
  /\ life \in {"starting", "live", "failed", "freed"}
  /\ pc \in {"user", "BeginExecute", "NextBlock", "loop"}
  /\ op \in {"none", "query", "advance"} \cup Fetches
  /\ told \in {"nothing", "end", "error"}

ResultType ==
  /\ block \in [first : Nat \ {0}, rows : Nat, bad : Nat]
  /\ row \in 0 .. block.rows
  /\ done \in BOOLEAN /\ broken \in BOOLEAN /\ released \in BOOLEAN
  /\ summary \in [read : Nat, total : Nat, limit : BOOLEAN, elapsed : Nat]
  /\ stream \in {"open", "ended"} /\ sent \in Nat /\ packets \in Nat
  /\ fate \in {"held", "idle", "dropped"} /\ returns \in Nat

ReaderType ==
  /\ current \in Nat /\ count \in Nat
  /\ valid \in BOOLEAN /\ started \in BOOLEAN /\ looping \in BOOLEAN
  /\ acc \in Seq(Nat) /\ handed \in Seq(Nat)
  /\ iterated \in Seq(Nat) /\ fetched \in Seq(Nat)
  /\ shown \subseteq Nat

TypeOK == CallType /\ ResultType /\ ReaderType

(* query() has a connection and makes a ch_result.                         *)
Init ==
  /\ life = "starting" /\ pc = "BeginExecute" /\ op = "query"
  /\ block = NoBlock /\ row = 0
  /\ done = FALSE /\ broken = FALSE /\ released = FALSE
  /\ summary = [read |-> 0, total |-> 0, limit |-> FALSE, elapsed |-> 0]
  /\ current = NoRow /\ count = 0 /\ valid = FALSE /\ started = FALSE
  /\ acc = <<>> /\ looping = FALSE
  /\ stream = "open" /\ sent = 0 /\ packets = 0
  /\ fate = "held" /\ returns = 0
  /\ handed = <<>> /\ iterated = <<>> /\ fetched = <<>> /\ shown = {} /\ told = "nothing"

-----------------------------------------------------------------------------
(* The end of the stream, and the way back of the connection               *)

Release(brk) ==
  IF released
    THEN UNCHANGED <<released, fate, returns>>
    ELSE /\ released' = TRUE
         /\ fate' = IF brk THEN "dropped" ELSE "idle"
         /\ returns' = returns + 1

(* Mutant: elapsed is stamped each time.                                   *)
Stamped_Always == [summary EXCEPT !.elapsed = @ + 1]

(* elapsed is stamped when done becomes true and never again; its value is *)
(* the number of stamps.                                                   *)
Stamped == IF done THEN summary ELSE [summary EXCEPT !.elapsed = @ + 1]

(* Mutant: a decoding error ends the call but not the stream.              *)
Finish_NotDone(brk) ==
  /\ UNCHANGED <<done, summary>>
  /\ broken' = brk
  /\ Release(brk)

Finish(brk) ==
  /\ done' = TRUE
  /\ summary' = Stamped
  /\ broken' = brk
  /\ Release(brk)

-----------------------------------------------------------------------------
(* What each call does with a row, the end, or an exception                *)

Leave == pc' = "user" /\ op' = "none"

(* fetch and fetchOne return the row (fetchOne its first column), fetchAll *)
(* adds it to its array and asks for another, the iterator keeps it.       *)
CallerGets(r) ==
  /\ handed' = Append(handed, r)
  /\ CASE op = "fetchAll" ->
            /\ acc' = Append(acc, r)
            /\ UNCHANGED <<pc, op, iterator, iterated, fetched>>
       [] op = "advance" ->
            /\ Leave
            /\ current' = r /\ count' = count + 1 /\ valid' = TRUE
            /\ iterated' = Append(iterated, r)
            /\ UNCHANGED <<started, acc, fetched>>
       [] OTHER ->
            /\ Leave
            /\ fetched' = Append(fetched, r)
            /\ UNCHANGED <<iterator, acc, iterated>>

(* Mutant: the iterator stays valid at the end.                            *)
Invalidated_Kept == valid

Invalidated == valid /\ op # "advance"

(* fetch and fetchOne return null, fetchAll what it has, valid() is false. *)
CallerIsTold ==
  /\ Leave
  /\ fetched' = fetched \o acc /\ acc' = <<>>
  /\ valid' = Invalidated
  /\ told' = IF told = "nothing" THEN "end" ELSE told
  /\ UNCHANGED <<current, count, started, handed, iterated>>

(* An exception leaves the call: fetchAll's array is gone.                 *)
CallerCatches ==
  /\ Leave
  /\ acc' = <<>>
  /\ valid' = Invalidated
  /\ told' = "error"
  /\ UNCHANGED <<current, count, started, handed, iterated, fetched>>

-----------------------------------------------------------------------------
(* The server's packets, while a call is suspended                         *)

BeginExecuteOk ==
  /\ pc = "BeginExecute"
  /\ pc' = "NextBlock"
  /\ UNCHANGED <<life, op, block, row, flags, summary, reader, server, history>>

Packet ==
  /\ pc = "NextBlock" /\ stream = "open" /\ packets < MaxPackets
  /\ packets' = packets + 1

(* OnProgress and OnProfile run inside NextBlock and only count.           *)
ProgressArrives ==
  /\ Packet
  /\ \E t \in 0 .. MaxRows :
       summary' = [read |-> summary.read + 1,
                   total |-> IF t > summary.total THEN t ELSE summary.total,
                   limit |-> summary.limit, elapsed |-> summary.elapsed]
  /\ UNCHANGED <<life, pc, op, block, row, flags, reader, stream, sent, history>>

ProfileArrives ==
  /\ Packet
  /\ \E calculated \in BOOLEAN :
       summary' = [summary EXCEPT !.limit = @ \/ calculated]
  /\ UNCHANGED <<life, pc, op, block, row, flags, reader, stream, sent, history>>

(* Mutant: the cursor is not set back.                                     *)
LoadBlock_KeepsRow(b) == block' = b /\ UNCHANGED row

LoadBlock(b) == block' = b /\ row' = 0

(* A block of n rows; row number bad of it cannot be decoded (0: none).    *)
Block(n, bad) == [first |-> sent + 1, rows |-> n, bad |-> bad]

(* Mutant: the first block is adopted even when it is empty.               *)
Primes_Any(b) == TRUE

(* ch_result_start drops empty blocks and returns with the first other.    *)
Primes(b) == b.rows > 0

BlockArrives(n, bad) ==
  /\ Packet
  /\ sent' = sent + n
  /\ CASE op = "query" /\ Primes(Block(n, bad)) ->
            LoadBlock(Block(n, bad)) /\ Leave /\ life' = "live"
       [] op = "query" /\ ~ Primes(Block(n, bad)) ->
            UNCHANGED <<block, row, pc, op, life>>
       [] OTHER ->
            LoadBlock(Block(n, bad)) /\ pc' = "loop" /\ UNCHANGED <<op, life>>
  /\ UNCHANGED <<flags, summary, reader, stream, history>>

(* Mutant: the end of the stream is waited for again.                      *)
StreamEnds_Ignored ==
  /\ pc = "NextBlock"
  /\ stream' = "ended"
  /\ UNCHANGED <<life, pc, op, block, row, flags, summary, reader, sent, packets,
                 history>>

StreamEnds ==
  /\ pc = "NextBlock" /\ stream = "open"
  /\ stream' = "ended"
  /\ Finish(broken)
  /\ IF op = "query"
       THEN /\ life' = "live" /\ Leave
            /\ UNCHANGED <<iterator, acc, handed, iterated, fetched, told>>
       ELSE CallerIsTold /\ UNCHANGED life
  /\ UNCHANGED <<block, row, looping, sent, packets, shown>>

(* BeginExecute or NextBlock throws; query() then deletes the ch_result.   *)
ReadFails(e) ==
  /\ pc \in {"BeginExecute", "NextBlock"} /\ e \in StreamErrors
  /\ Finish(Poisons(e))
  /\ CallerCatches
  /\ life' = IF op = "query" THEN "failed" ELSE life
  /\ looping' = FALSE
  /\ UNCHANGED <<block, row, server, shown>>

-----------------------------------------------------------------------------
(* The loop of ch_result_next                                              *)

(* Mutant: the cursor stays.                                               *)
Advanced_Not == row

Advanced == row + 1

TakeRow ==
  /\ pc = "loop" /\ row < block.rows /\ row + 1 # block.bad
  /\ row' = Advanced
  /\ CallerGets(block.first + row)
  /\ UNCHANGED <<life, block, flags, summary, looping, server, shown, told>>

(* The cursor stays on a row that cannot be decoded.                       *)
TakeBadRow(e) ==
  /\ pc = "loop" /\ row < block.rows /\ row + 1 = block.bad
  /\ e \in DecodeErrors
  /\ Finish(Poisons(e))
  /\ CallerCatches
  /\ looping' = FALSE
  /\ UNCHANGED <<life, block, row, server, shown>>

AtEnd ==
  /\ pc = "loop" /\ row >= block.rows /\ done
  /\ CallerIsTold
  /\ UNCHANGED <<life, block, row, flags, summary, looping, server, shown>>

(* Mutant: done is not looked at before the socket is read.                *)
Pull_Unchecked ==
  /\ pc = "loop" /\ row >= block.rows
  /\ pc' = "NextBlock"
  /\ UNCHANGED <<life, op, block, row, flags, summary, reader, server, history>>

Pull ==
  /\ pc = "loop" /\ row >= block.rows /\ ~ done
  /\ pc' = "NextBlock"
  /\ UNCHANGED <<life, op, block, row, flags, summary, reader, server, history>>

-----------------------------------------------------------------------------
(* The calls of the program                                                *)

Idle == life = "live" /\ pc = "user"

Fetch(m) ==
  /\ Idle /\ m \in Fetches
  /\ pc' = "loop" /\ op' = m
  /\ looping' = FALSE
  /\ UNCHANGED <<life, block, row, flags, summary, iterator, acc, server,
                 history>>

(* ch_result_object_advance drops current before it asks for a row and     *)
(* leaves valid as it is until it has an answer.                           *)
Advance ==
  /\ pc' = "loop" /\ op' = "advance"
  /\ current' = NoRow /\ started' = TRUE
  /\ UNCHANGED <<count, valid>>

(* Mutant: every rewind asks for a row.                                    *)
Rewind_Always == Advance

(* Only the first rewind asks for a row.                                   *)
Rewind == IF started THEN UNCHANGED <<pc, op, iterator>> ELSE Advance

(* foreach: rewind(), then valid() and current() before the body, next()   *)
(* after it.  A break leaves the loop with current where it is.            *)
ForeachBegins ==
  /\ Idle /\ ~ looping
  /\ looping' = TRUE
  /\ Rewind
  /\ UNCHANGED <<life, block, row, flags, summary, acc, server, history>>

Body ==
  /\ Idle /\ looping /\ valid
  /\ current \notin shown
  /\ shown' = shown \cup {current}
  /\ UNCHANGED <<life, pc, op, block, row, flags, summary, reader, server, handed,
                 iterated, fetched, told>>

ForeachNext ==
  /\ Idle /\ looping /\ valid /\ current \in shown
  /\ Advance
  /\ UNCHANGED <<life, block, row, flags, summary, acc, looping, server, history>>

ForeachEnds ==
  /\ Idle /\ looping /\ (valid => current \in shown)
  /\ looping' = FALSE
  /\ UNCHANGED <<life, pc, op, block, row, flags, summary, iterator, acc, server,
                 history>>

(* Mutant: an abandoned stream is given back as if it had been read.       *)
Abandoned_Clean == broken

(* A stream that was not read to its end leaves unread blocks.             *)
Abandoned == broken \/ ~ done

(* The Result object is destroyed.                                         *)
Destroy ==
  /\ Idle
  /\ life' = "freed"
  /\ IF released
       THEN UNCHANGED <<broken, released, fate, returns>>
       ELSE broken' = Abandoned /\ Release(Abandoned)
  /\ current' = NoRow /\ valid' = FALSE /\ looping' = FALSE
  /\ UNCHANGED <<pc, op, block, row, done, summary, count, started, acc, server,
                 history>>

-----------------------------------------------------------------------------
(* The Result is gone: nothing is left to do.                              *)
Gone == life \in {"failed", "freed"} /\ UNCHANGED vars

Answer ==
  \/ BeginExecuteOk \/ ProgressArrives \/ ProfileArrives \/ StreamEnds
  \/ \E n \in 0 .. MaxRows : \E bad \in 0 .. n : BlockArrives(n, bad)

LoopStep ==
  \/ TakeRow \/ AtEnd \/ Pull
  \/ \E e \in ErrorClasses : TakeBadRow(e)

Next ==
  \/ Answer \/ LoopStep
  \/ \E e \in ErrorClasses : ReadFails(e)
  \/ \E m \in Fetches : Fetch(m)
  \/ ForeachBegins \/ Body \/ ForeachNext \/ ForeachEnds
  \/ Destroy \/ Gone

Spec == Init /\ [][Next]_vars

(* A read that does not fail gets an answer in the end: an assumption on   *)
(* the network and the server, as reads wait without a timeout.            *)
FairSpec == Spec /\ WF_vars(Answer) /\ WF_vars(LoopStep)

-----------------------------------------------------------------------------
(* Properties                                                              *)

Elems(s) == {s[i] : i \in DOMAIN s}

(* The rows come out of ch_result_next in the order in which the server    *)
(* sent them, none skipped and none repeated, whatever the sizes of the    *)
(* blocks (empty ones included) and whichever calls take them.             *)
RowsInOrder == \A i \in DOMAIN handed : handed[i] = i

(* No row gets lost between the calls that share the cursor: each row that *)
(* was taken from the stream went to one fetch call or to the iterator and *)
(* not to both, and one that went to the iterator is current until a loop  *)
(* body has seen it.  (An exception in fetchAll discards its rows.)        *)
NoRowLost ==
  /\ Elems(fetched) \cap Elems(iterated) = {}
  /\ Elems(iterated) \subseteq shown \cup {current} \/ life = "freed"
  /\ told # "error" =>
       Elems(handed) = Elems(fetched) \cup Elems(iterated) \cup Elems(acc)

(* The socket is read only while the connection is with the Result: once   *)
(* it was given back, another coroutine may have it.  It is given back at  *)
(* most once, also when failures follow each other, and always by the end. *)
ReadsOnlyItsLease ==
  /\ pc \in {"BeginExecute", "NextBlock"} => returns = 0
  /\ returns <= 1
  /\ life \in {"failed", "freed"} => returns = 1

(* A connection with blocks left to read is not given back for reuse by a  *)
(* Result that no exception has ended, abandoned ones included.            *)
ReusedOnlyWhenRead ==
  fate = "idle" /\ told # "error" => stream = "ended"

(* When query() has returned, the statement has run on the server: its     *)
(* first row is there, or the end of its stream.                           *)
RunsBeforeReturn == life = "live" => sent > 0 \/ done

(* null, or the end of a foreach, without an exception before it means     *)
(* that the program has got every row the server sent.                     *)
EndMeansAll == told = "end" => stream = "ended" /\ Len(handed) = sent

(* While no advance is suspended, valid() means that current() is the row  *)
(* the iterator took last, and key() counts these rows from 0.             *)
CurrentIsLatest ==
  op # "advance" /\ valid =>
    count = Len(iterated) /\ count > 0 /\ current = iterated[count]

(* Once a call has reported the end, or an exception, no call returns      *)
(* another row.                                                            *)
NothingAfterTheEnd == [][told # "nothing" => handed' = handed]_vars

(* The Summary does not change any more when the Result is done, whatever  *)
(* calls and failures follow.                                              *)
SummaryIsFinal == [][done => summary' = summary]_vars

(* Every call returns or raises.                                           *)
CallReturns == pc # "user" ~> pc = "user"

(* The invariant behind the theorems of ResultStream_proofs: where the     *)
(* cursor stands, and what the flags and the history say about each other. *)
CursorOK ==
  /\ sent + 1 = block.first + block.rows
  /\ Len(handed) + 1 = block.first + row
  /\ RowsInOrder
  /\ done => row = block.rows \/ (told = "error" /\ row + 1 = block.bad)
  /\ pc \in {"BeginExecute", "NextBlock"} => row = block.rows

FlagsOK ==
  /\ returns = IF released THEN 1 ELSE 0
  /\ done => released
  /\ released /\ life \in {"starting", "live"} => done
  /\ life \in {"failed", "freed"} => released /\ pc = "user"
  /\ life = "starting" <=> op = "query"
  /\ life = "starting" <=> pc = "BeginExecute" \/ (pc = "NextBlock" /\ op = "query")
  /\ pc \in {"BeginExecute", "NextBlock"} => ~ done
  /\ told # "nothing" => done
  /\ stream = "ended" => done
  /\ done /\ told # "error" => stream = "ended"

StreamInv == TypeOK /\ CursorOK /\ FlagsOK

(* The invariant behind the theorems on the rows and the iterator: whose   *)
(* row each one is, and what the lookahead row and its counter refer to.   *)
RowsKept ==
  /\ Elems(fetched) \cup Elems(iterated) \cup Elems(acc) \subseteq 1 .. Len(handed)
  /\ Elems(fetched) \cap Elems(iterated) = {}
  /\ Elems(acc) \cap (Elems(fetched) \cup Elems(iterated)) = {}
  /\ told # "error" =>
       1 .. Len(handed) \subseteq Elems(fetched) \cup Elems(iterated) \cup Elems(acc)
  /\ acc # <<>> => op = "fetchAll"

IteratorOK ==
  /\ pc = "user" <=> op = "none"
  /\ count = Len(iterated)
  /\ ~ started => iterated = <<>>
  /\ op = "advance" => started /\ current = NoRow
  /\ valid /\ op # "advance" => count > 0 /\ current = iterated[count]
  /\ Elems(iterated) \subseteq shown \cup {current} \/ life = "freed"

ReuseOK ==
  /\ fate = "held" <=> ~ released
  /\ ReusedOnlyWhenRead
  /\ RunsBeforeReturn

ReaderInv == RowsKept /\ IteratorOK /\ ReuseOK

ResultInv == StreamInv /\ ReaderInv

(* The Result keeps the promises of RowStream.                             *)
Contract == INSTANCE RowStream WITH
  made <- sent,
  out <- handed,
  phase <- IF ~ released THEN "open"
           ELSE IF told = "error" THEN "failed"
           ELSE IF stream = "ended" THEN "ended" ELSE "abandoned",
  held <- ~ released

KeepsPromise == Contract!Spec

=============================================================================
