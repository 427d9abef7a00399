----------------------------- MODULE ClientPool -----------------------------
(***************************************************************************)
(* One TrueAsync\ClickHouse\Client: its hidden connection pool, the        *)
(* coroutines that call it, and the Result and Batch objects it hands out. *)
(*                                                                         *)
(* Coroutines are scheduled cooperatively: a step of this module is the    *)
(* code between two points where a coroutine can be suspended, that is     *)
(* inside acquire, the pool's factory, or a call of clickhouse-cpp that    *)
(* reads or writes the socket.  pc[t] names the call t is suspended in.    *)
(*                                                                         *)
(* The pool ABI of TrueAsync and clickhouse-cpp are external: they are     *)
(* modelled from the way this code uses them.                              *)
(***************************************************************************)
EXTENDS Naturals, FiniteSets, ChErrors

CONSTANTS
  Coroutines,    \* coroutines that use the client
  Conns,         \* slots of the pool: pool_max connections at most
  Handles,       \* bound: Result and Batch objects alive at one time
  User,          \* the PHP variable(s) that refer to the Client
  Nil,           \* no connection, no handle
  MaxRows,       \* bound: rows in a block, rows pending in a batch
  ReadErrors,    \* exceptions that a call of clickhouse-cpp may raise
  DecodeErrors,  \* exceptions raised while a row of a block is decoded
  HoldAndWait    \* may a coroutine acquire while it owns a Result or Batch

ASSUME SetsAssumption ==
  /\ Nil \notin Coroutines \cup Conns \cup Handles
  /\ User \notin Coroutines \cup Handles
  /\ Coroutines \cap Handles = {}
  /\ Coroutines # {}
ASSUME BoundsAssumption == MaxRows \in Nat \ {0}
ASSUME ErrorsAssumption ==
  ReadErrors \subseteq ErrorClasses /\ DecodeErrors \subseteq ErrorClasses
ASSUME HoldAssumption == HoldAndWait \in BOOLEAN

VARIABLES
  poolState,  \* obj->pool: not created, open, closed by the user, freed
  refs,       \* who holds a reference on the Client object
  lease,      \* each slot: no connection, being opened, idle, leased
  wire,       \* what is on the socket of each connection
  pc,         \* where each coroutine is
  op,         \* the method each coroutine is in
  hd,         \* the handle that method works on (or will return)
  at,         \* the connection held by the frame of a Client method
  obj         \* the Result and Batch objects

pool == <<poolState, refs, lease>>
frame == <<pc, op, hd, at>>
vars == <<poolState, refs, lease, wire, pc, op, hd, at, obj>>

Methods == {"query", "insert", "insertBatch"}

(* Suspension points inside clickhouse-cpp, on the socket.                 *)
IOPoints == {"BeginExecute", "NextBlock", "BeginInsert", "SendInsertBlock",
             "EndInsert", "closeInsert"}

Handle == [kind : {"none", "result", "batch"}, conn : Conns \cup {Nil},
           owner : Coroutines \cup {Nil}, rows : 0 .. MaxRows,
           done : BOOLEAN, broken : BOOLEAN, released : BOOLEAN]

NoObject == [kind |-> "none", conn |-> Nil, owner |-> Nil, rows |-> 0,
             done |-> FALSE, broken |-> FALSE, released |-> FALSE]

TypeOK ==
  /\ poolState \in {"none", "open", "closed", "freed"}
  /\ refs \subseteq {User} \cup Coroutines \cup Handles
  /\ lease \in [Conns -> {"absent", "opening", "idle", "leased"}]
  /\ wire \in [Conns -> {"ready", "query", "insert", "dirty"}]
  /\ pc \in [Coroutines -> {"user", "acquire", "factory"} \cup IOPoints]
  /\ op \in [Coroutines -> {"none", "fetch", "flush"} \cup Methods]
  /\ hd \in [Coroutines -> Handles \cup {Nil}]
  /\ at \in [Coroutines -> Conns \cup {Nil}]
  /\ obj \in [Handles -> Handle]

-----------------------------------------------------------------------------
(* Helpers                                                                 *)

(* A coroutine starts a method on handle h / leaves its method.            *)
Enter(t, label, m, h, c) ==
  /\ pc' = [pc EXCEPT ![t] = label]
  /\ op' = [op EXCEPT ![t] = m]
  /\ hd' = [hd EXCEPT ![t] = h]
  /\ at' = [at EXCEPT ![t] = c]

Leave(t) == Enter(t, "user", "none", Nil, Nil)

Suspend(t, label) == Enter(t, label, op[t], hd[t], at[t])

(* The connection the socket call of t works on.                           *)
ConnOf(t) == IF op[t] \in {"fetch", "flush"} THEN obj[hd[t]].conn ELSE at[t]

(* Objects of t that exist, and whether one of them pins a connection.     *)
Live(h) == obj[h].kind # "none"
Pins(h) == Live(h) /\ ~ obj[h].released
Owned(t) == {h \in Handles : Live(h) /\ obj[h].owner = t}

(* A handle that no method in progress is going to return.                 *)
Free(h) == ~ Live(h) /\ \A t \in Coroutines : hd[t] # h

(* A request sent on a socket: on a connection that is not between two     *)
(* queries what comes back cannot be told apart any more.                  *)
Sent(c, w) == IF wire[c] = "ready" THEN w ELSE "dirty"
SetWire(c, w) == wire' = [wire EXCEPT ![c] = w]

(* Mutant: before_release accepts everything, as the other callbacks do.   *)
BeforeRelease_Accept(brk) == TRUE

(* ZEND_ASYNC_POOL_RELEASE: before_release refuses a broken connection and *)
(* a closed pool keeps none; a pool that was freed cannot take it back.    *)
BeforeRelease(brk) == ~ brk
Released(c, brk) ==
  IF poolState = "freed" THEN lease
  ELSE [lease EXCEPT ![c] = IF poolState = "open" /\ BeforeRelease(brk)
                              THEN "idle" ELSE "absent"]

(* ZEND_ASYNC_POOL_CLOSE: the idle connections are destroyed at once.      *)
WithoutIdle(ls) == [c \in Conns |-> IF ls[c] = "idle" THEN "absent" ELSE ls[c]]

(* Drop the reference x on the Client; the last one frees it.  ls is the   *)
(* state of the slots at that point of the handler.                        *)
DropClientRef(x, ls) ==
  /\ refs' = refs \ {x}
  /\ IF refs \ {x} = {}
       THEN poolState' = "freed" /\ lease' = WithoutIdle(ls)
       ELSE UNCHANGED poolState /\ lease' = ls

-----------------------------------------------------------------------------
Init ==
  /\ poolState = "none"
  /\ refs = {User}
  /\ lease = [c \in Conns |-> "absent"]
  /\ wire = [c \in Conns |-> "ready"]
  /\ pc = [t \in Coroutines |-> "user"]
  /\ op = [t \in Coroutines |-> "none"]
  /\ hd = [t \in Coroutines |-> Nil]
  /\ at = [t \in Coroutines |-> Nil]
  /\ obj = [h \in Handles |-> NoObject]

(* query, insert and insertBatch begin alike: the pool is created on first *)
(* use, then a connection is acquired.  The frame of the method refers to  *)
(* the Client.  h is the object that query and insertBatch will return.    *)
EnsurePool == poolState' = IF poolState = "none" THEN "open" ELSE poolState

Call(t, m, h) ==
  /\ pc[t] = "user" /\ User \in refs
  /\ HoldAndWait \/ \A k \in Owned(t) : ~ Pins(k)
  /\ IF m = "insert" THEN h = Nil ELSE h \in Handles /\ Free(h)
  /\ EnsurePool
  /\ refs' = refs \cup {t}
  /\ Enter(t, "acquire", m, h, Nil)
  /\ UNCHANGED <<lease, wire, obj>>

(* acquire has returned c: query and insert go on to the socket, while     *)
(* insertBatch only wraps the connection and returns.                      *)
NewBatch(t, c) ==
  [kind |-> "batch", conn |-> c, owner |-> t, rows |-> 0,
   done |-> FALSE, broken |-> FALSE, released |-> FALSE]

NewResult(t, c, n, finished) ==
  [kind |-> "result", conn |-> c, owner |-> t, rows |-> n,
   done |-> finished, broken |-> FALSE, released |-> finished]

(* Mutant: the GC_ADDREF on the Client is missing.                         *)
ReturnObject_NoAddref(t, o) ==
  /\ obj' = [obj EXCEPT ![hd[t]] = o]
  /\ refs' = refs \ {t}
  /\ Leave(t)

(* The method returns object o, which refers to the Client.                *)
ReturnObject(t, o) ==
  /\ obj' = [obj EXCEPT ![hd[t]] = o]
  /\ refs' = (refs \cup {hd[t]}) \ {t}
  /\ Leave(t)

Acquired(t, c) ==
  /\ lease' = [lease EXCEPT ![c] = "leased"]
  /\ IF op[t] = "insertBatch"
       THEN ReturnObject(t, NewBatch(t, c))
       ELSE /\ Enter(t, IF op[t] = "query" THEN "BeginExecute"
                        ELSE "BeginInsert", op[t], hd[t], c)
            /\ UNCHANGED <<refs, obj>>
  /\ UNCHANGED poolState

(* acquire throws: nothing was taken.                                      *)
AcquireThrows(t) ==
  /\ DropClientRef(t, lease)
  /\ Leave(t)
  /\ UNCHANGED <<wire, obj>>

(* The pool hands out an idle connection, before_acquire accepting all.    *)
AcquireIdle(t, c) ==
  /\ pc[t] = "acquire" /\ poolState = "open" /\ lease[c] = "idle"
  /\ Acquired(t, c)
  /\ UNCHANGED wire

(* None is idle and the pool may grow: the factory connects, suspending t. *)
AcquireOpen(t, c) ==
  /\ pc[t] = "acquire" /\ poolState = "open" /\ lease[c] = "absent"
  /\ \A d \in Conns : lease[d] # "idle"
  /\ lease' = [lease EXCEPT ![c] = "opening"]
  /\ Enter(t, "factory", op[t], hd[t], c)
  /\ UNCHANGED <<poolState, refs, wire, obj>>

OpenOk(t) ==
  /\ pc[t] = "factory"
  /\ SetWire(at[t], "ready")
  /\ Acquired(t, at[t])

OpenFails(t) ==
  /\ pc[t] = "factory"
  /\ DropClientRef(t, [lease EXCEPT ![at[t]] = "absent"])
  /\ Leave(t)
  /\ UNCHANGED <<wire, obj>>

AcquireClosed(t) ==
  /\ pc[t] = "acquire" /\ poolState = "closed"
  /\ AcquireThrows(t)

(* All pool_max connections are busy: acquire waits.  It is given no       *)
(* timeout, so only a cancellation ends the wait without a connection.     *)
MustWait == \A c \in Conns : lease[c] \notin {"idle", "absent"}

AcquireCancelled(t) ==
  /\ pc[t] = "acquire" /\ poolState = "open" /\ MustWait
  /\ AcquireThrows(t)

-----------------------------------------------------------------------------
(* Client::query: ch_result_start sends the query and primes the Result    *)
(* with the first block that has rows.  Empty blocks leave t where it is.  *)
QueryBegin(t) ==
  /\ pc[t] = "BeginExecute"
  /\ SetWire(at[t], Sent(at[t], "query"))
  /\ Suspend(t, "NextBlock")
  /\ UNCHANGED <<pool, obj>>

QueryBlock(t, n) ==
  /\ pc[t] = "NextBlock" /\ op[t] = "query"
  /\ ReturnObject(t, NewResult(t, at[t], n, FALSE))
  /\ UNCHANGED <<poolState, lease, wire>>

(* End of stream before any row: the connection goes back at once.         *)
StreamEnd(c) == SetWire(c, IF wire[c] = "dirty" THEN "dirty" ELSE "ready")

QueryNoRows(t) ==
  /\ pc[t] = "NextBlock" /\ op[t] = "query"
  /\ StreamEnd(at[t])
  /\ lease' = Released(at[t], FALSE)
  /\ ReturnObject(t, NewResult(t, at[t], 0, TRUE))
  /\ UNCHANGED poolState

(* BeginExecute only writes, so it fails with the transport.               *)
QueryFails(t, e) ==
  /\ op[t] = "query"
  /\ \/ pc[t] = "NextBlock"
     \/ pc[t] = "BeginExecute" /\ Poisons(e)
  /\ SetWire(at[t], WireAfter(e, wire[at[t]]))
  /\ DropClientRef(t, Released(at[t], Poisons(e)))
  /\ Leave(t)
  /\ UNCHANGED obj

-----------------------------------------------------------------------------
(* Result: ch_result_next gives the rows of the current block, then pulls  *)
(* the next one.  A Result that is done and empty returns without a step.  *)
OwnResult(t, h) ==
  pc[t] = "user" /\ h \in Owned(t) /\ obj[h].kind = "result"

FetchRow(t, h) ==
  /\ OwnResult(t, h) /\ obj[h].rows > 0
  /\ obj' = [obj EXCEPT ![h].rows = @ - 1]
  /\ UNCHANGED <<pool, wire, frame>>

Pull(t, h) ==
  /\ OwnResult(t, h) /\ obj[h].rows = 0 /\ ~ obj[h].done
  /\ Enter(t, "NextBlock", "fetch", h, Nil)
  /\ UNCHANGED <<pool, wire, obj>>

Pulling(t) == pc[t] = "NextBlock" /\ op[t] = "fetch"

(* A block of n rows arrives and its first row is returned.                *)
PullBlock(t, n) ==
  /\ Pulling(t)
  /\ obj' = [obj EXCEPT ![hd[t]].rows = n - 1]
  /\ Leave(t)
  /\ UNCHANGED <<pool, wire>>

(* Mutant: the released flag is not set.                                   *)
FinishResult_NotFlagged(h, brk, n) ==
  /\ lease' = IF obj[h].released THEN lease ELSE Released(obj[h].conn, brk)
  /\ obj' = [obj EXCEPT ![h].done = TRUE, ![h].broken = brk, ![h].rows = n]
  /\ UNCHANGED <<poolState, refs>>

(* ch_result_finish and ch_result_release: the first time only, the Result *)
(* gives its connection back, n rows of the last block still to be read.   *)
FinishResult(h, brk, n) ==
  /\ lease' = IF obj[h].released THEN lease ELSE Released(obj[h].conn, brk)
  /\ obj' = [obj EXCEPT ![h].done = TRUE, ![h].broken = brk,
                        ![h].released = TRUE, ![h].rows = n]
  /\ UNCHANGED <<poolState, refs>>

PullEnd(t) ==
  /\ Pulling(t)
  /\ StreamEnd(ConnOf(t))
  /\ FinishResult(hd[t], FALSE, 0)
  /\ Leave(t)

PullFails(t, e) ==
  /\ Pulling(t)
  /\ SetWire(ConnOf(t), WireAfter(e, wire[ConnOf(t)]))
  /\ FinishResult(hd[t], Poisons(e), 0)
  /\ Leave(t)

(* A row that is buffered, or the first of a block of n rows that arrives, *)
(* cannot be decoded: the same handler ends the Result, with whatever the  *)
(* server has still to send left on the socket.                            *)
DecodeFails(t, h, n, e) ==
  /\ \/ OwnResult(t, h) /\ obj[h].rows > 0 /\ n = obj[h].rows
     \/ Pulling(t) /\ hd[t] = h /\ n > 0
  /\ FinishResult(h, Poisons(e), n)
  /\ Leave(t)
  /\ UNCHANGED wire

-----------------------------------------------------------------------------
(* Client::insert and Batch::flush share ch_send_block.                    *)
OwnBatch(t, h) ==
  pc[t] = "user" /\ h \in Owned(t) /\ obj[h].kind = "batch"

Append(t, h) ==
  /\ OwnBatch(t, h) /\ obj[h].rows < MaxRows
  /\ obj' = [obj EXCEPT ![h].rows = @ + 1]
  /\ UNCHANGED <<pool, wire, frame>>

(* An empty batch has nothing to send.                                     *)
Flush(t, h) ==
  /\ OwnBatch(t, h) /\ obj[h].rows > 0
  /\ Enter(t, "BeginInsert", "flush", h, Nil)
  /\ UNCHANGED <<pool, wire, obj>>

InsertBegun(t, label) ==
  /\ pc[t] = "BeginInsert"
  /\ SetWire(ConnOf(t), Sent(ConnOf(t), "insert"))
  /\ Suspend(t, label)
  /\ UNCHANGED <<pool, obj>>

BeginInsertOk(t) == InsertBegun(t, "SendInsertBlock")

(* The sample block came but the rows do not fit it, or a cell cannot be   *)
(* converted: the handler closes the insert session.                       *)
BuildFails(t) == InsertBegun(t, "closeInsert")

SendOk(t) ==
  /\ pc[t] = "SendInsertBlock"
  /\ Suspend(t, "EndInsert")
  /\ UNCHANGED <<pool, wire, obj>>

(* Mutant: insert returns on failure before it releases the connection.    *)
InsertReturns_EarlyReturn(t, brk) ==
  /\ op[t] = "insert"
  /\ DropClientRef(t, IF brk THEN lease ELSE Released(at[t], brk))
  /\ Leave(t)
  /\ UNCHANGED obj

(* ch_send_block is over.  insert releases its connection in any case; a   *)
(* batch keeps it, and its rows unless they were sent.                     *)
InsertReturns(t, brk) ==
  /\ op[t] = "insert"
  /\ DropClientRef(t, Released(at[t], brk))
  /\ Leave(t)
  /\ UNCHANGED obj

(* Mutant: the flag tells of the last flush only.                          *)
FlushReturns_LastOnly(t, brk, left) ==
  /\ op[t] = "flush"
  /\ obj' = [obj EXCEPT ![hd[t]].broken = brk, ![hd[t]].rows = left]
  /\ Leave(t)
  /\ UNCHANGED pool

FlushReturns(t, brk, left) ==
  /\ op[t] = "flush"
  /\ obj' = [obj EXCEPT ![hd[t]].broken = @ \/ brk, ![hd[t]].rows = left]
  /\ Leave(t)
  /\ UNCHANGED pool

EndOk(t) ==
  /\ pc[t] = "EndInsert"
  /\ StreamEnd(ConnOf(t))
  /\ InsertReturns(t, FALSE) \/ FlushReturns(t, FALSE, 0)

InsertThrows(t, brk) ==
  \/ InsertReturns(t, brk)
  \/ FlushReturns(t, brk, obj[hd[t]].rows)

(* The catch block: a poisoning error is final, any other one is followed  *)
(* by an attempt to close the insert session.  SendInsertBlock only writes.*)
SendBlockFails(t, e) ==
  /\ \/ pc[t] \in {"BeginInsert", "EndInsert"}
     \/ pc[t] = "SendInsertBlock" /\ Poisons(e)
  /\ SetWire(ConnOf(t), WireAfter(e, wire[ConnOf(t)]))
  /\ IF Poisons(e)
       THEN InsertThrows(t, TRUE)
       ELSE Suspend(t, "closeInsert") /\ UNCHANGED <<pool, obj>>

CloseOk(t) ==
  /\ pc[t] = "closeInsert"
  /\ StreamEnd(ConnOf(t))
  /\ InsertThrows(t, FALSE)

(* Whatever the second EndInsert raises marks the connection broken, also  *)
(* a server exception, after which nothing is left on the socket.          *)
CloseFails(t, e) ==
  /\ pc[t] = "closeInsert"
  /\ SetWire(ConnOf(t), WireAfter(e, wire[ConnOf(t)]))
  /\ InsertThrows(t, TRUE)

-----------------------------------------------------------------------------
(* Mutant: a Result abandoned in mid-stream is not marked broken.          *)
Abandoned_NotDirty(h) == obj[h].broken

(* The end of objects.  A handle first gives its connection back, if it    *)
(* still has one, and then drops its reference on the Client.              *)
Abandoned(h) ==
  IF obj[h].kind = "result" THEN ~ obj[h].done ELSE obj[h].broken

(* Mutant: the released flag is not consulted.                             *)
Destroy_Again(t, h) ==
  /\ pc[t] = "user" /\ h \in Owned(t)
  /\ DropClientRef(h, Released(obj[h].conn, Abandoned(h)))
  /\ obj' = [obj EXCEPT ![h] = NoObject]
  /\ UNCHANGED <<wire, frame>>

Destroy(t, h) ==
  /\ pc[t] = "user" /\ h \in Owned(t)
  /\ DropClientRef(h, IF Pins(h) THEN Released(obj[h].conn, Abandoned(h))
                      ELSE lease)
  /\ obj' = [obj EXCEPT ![h] = NoObject]
  /\ UNCHANGED <<wire, frame>>

DropClient ==
  /\ User \in refs
  /\ DropClientRef(User, lease)
  /\ UNCHANGED <<wire, frame, obj>>

(* getPool()->close(): the user closes the pool of a Client in use.        *)
UserClosePool ==
  /\ User \in refs /\ poolState \in {"none", "open"}
  /\ poolState' = "closed"
  /\ lease' = WithoutIdle(lease)
  /\ UNCHANGED <<refs, wire, frame, obj>>

(* The script is over: not a deadlock.                                     *)
Terminated ==
  /\ User \notin refs
  /\ \A t \in Coroutines : pc[t] = "user" /\ Owned(t) = {}
  /\ UNCHANGED vars

Acquire(t) ==
  AcquireClosed(t) \/ \E c \in Conns : AcquireIdle(t, c) \/ AcquireOpen(t, c)

QueryStep(t) ==
  \/ QueryBegin(t) \/ QueryNoRows(t)
  \/ \E n \in 1 .. MaxRows : QueryBlock(t, n)
  \/ \E e \in ReadErrors : QueryFails(t, e)

PullStep(t) ==
  \/ PullEnd(t)
  \/ \E n \in 1 .. MaxRows : PullBlock(t, n)
  \/ \E e \in ReadErrors : PullFails(t, e)

InsertStep(t) ==
  \/ BeginInsertOk(t) \/ BuildFails(t) \/ SendOk(t) \/ EndOk(t)
  \/ CloseOk(t)
  \/ \E e \in ReadErrors : SendBlockFails(t, e) \/ CloseFails(t, e)

(* What the network and the scheduler bring a suspended coroutine.         *)
Resume(t) == OpenOk(t) \/ OpenFails(t) \/ QueryStep(t) \/ PullStep(t)
               \/ InsertStep(t)

(* What the PHP code of a coroutine does next.                             *)
UseHandle(t, h) ==
  \/ FetchRow(t, h) \/ Pull(t, h) \/ Append(t, h) \/ Flush(t, h)
  \/ Destroy(t, h)
  \/ \E e \in DecodeErrors, n \in 1 .. MaxRows : DecodeFails(t, h, n, e)

Next ==
  \/ \E t \in Coroutines :
       \/ \E m \in Methods, h \in Handles \cup {Nil} : Call(t, m, h)
       \/ Acquire(t) \/ AcquireCancelled(t)
       \/ Resume(t)
       \/ \E h \in Handles : UseHandle(t, h)
  \/ DropClient \/ UserClosePool \/ Terminated

Spec == Init /\ [][Next]_vars

(* The server answers or the connection breaks; the pool serves its        *)
(* waiters; a coroutine that owns a Result or Batch ends by dropping it.   *)
Fairness ==
  \A t \in Coroutines :
    /\ WF_vars(Resume(t))
    /\ SF_vars(Acquire(t))
    /\ \A h \in Handles : SF_vars(Destroy(t, h))

FairSpec == Spec /\ Fairness

-----------------------------------------------------------------------------
(* Properties                                                              *)

Holders(c) == {t \in Coroutines : at[t] = c}
                \cup {h \in Handles : Pins(h) /\ obj[h].conn = c}

(* Every connection that is leased or being opened has exactly one holder: *)
(* the frame of a Client method, or a Result or Batch that has not given   *)
(* it back; no other connection has any.  Neither a leak (every early      *)
(* return and every error path of query, insert, fetch, flush and the      *)
(* destructors releases) nor a double release.                             *)
LeaseHasOneHolder ==
  \A c \in Conns :
    IF lease[c] \in {"opening", "leased"}
      THEN \E x \in Coroutines \cup Handles : Holders(c) = {x}
      ELSE Holders(c) = {}

(* Two coroutines are never suspended in calls of clickhouse-cpp on one    *)
(* connection: their packets would interleave on the socket.               *)
ExclusiveUse ==
  \A t, u \in Coroutines :
    pc[t] \in IOPoints /\ pc[u] \in IOPoints /\ t # u => ConnOf(t) # ConnOf(u)

(* When the Client is freed no connection survives it: every object that   *)
(* holds one keeps the Client alive, and gives it back before it lets the  *)
(* Client go.                                                              *)
FreedClientLeavesNothing ==
  poolState = "freed" => \A c \in Conns : lease[c] = "absent"

(* A connection in the idle list has nothing left to read on its socket:   *)
(* the decision made from the class of the exception and from done is the  *)
(* right one on every path that gives a connection back.                   *)
IdleIsClean == \A c \in Conns : lease[c] = "idle" => wire[c] = "ready"

(* A query or an insert only starts on a connection between two queries.   *)
(* A batch keeps its connection after a failed flush, and the pool never   *)
(* sees that connection before the next one.                               *)
StartsClean ==
  \A t \in Coroutines :
    pc[t] \in {"BeginExecute", "BeginInsert"} => wire[ConnOf(t)] = "ready"

(* A Batch that will not give its connection back for reuse.               *)
MarkedBroken(c) == \E h \in Handles : Pins(h) /\ obj[h].broken /\ obj[h].conn = c

Closing(c) == \E t \in Coroutines : pc[t] = "closeInsert" /\ ConnOf(t) = c

(* A connection is given up, destroyed by an open pool or marked broken in *)
(* its Batch, only when something is left on its socket: an end of stream, *)
(* a server exception or a rejected row keeps it.  There is one exception, *)
(* in the catch block of ch_send_block: when closing the insert fails too, *)
(* even with a server exception, a clean connection is lost.               *)
OnlyUncleanDropped ==
  [][\A c \in Conns :
       /\ lease[c] = "leased" /\ ~ MarkedBroken(c)
       /\ \/ lease'[c] = "absent" /\ poolState = "open" /\ poolState' = "open"
          \/ MarkedBroken(c)'
       => wire'[c] # "ready" \/ Closing(c)]_vars

(* A coroutine that waits for a connection gets one, or an exception.      *)
AcquireReturns ==
  \A t \in Coroutines : pc[t] = "acquire" ~> pc[t] # "acquire"

=============================================================================
