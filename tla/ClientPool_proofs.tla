------------------------- MODULE ClientPool_proofs -------------------------
(***************************************************************************)
(* The ownership of connections in ClientPool, proved for any number of    *)
(* coroutines, handles and slots, any errors the client library may raise  *)
(* and any contract about holding and waiting: IInv is an invariant, and   *)
(* the ownership properties follow from it.                                *)
(***************************************************************************)
EXTENDS ClientPoolInv, TLAPS

USE SetsAssumption, BoundsAssumption

LeaseStates == {"absent", "opening", "idle", "leased"}
WireStates == {"ready", "query", "insert", "dirty"}

-----------------------------------------------------------------------------
(* What the helpers preserve                                               *)

(* Giving a connection back leaves every slot in one of its states.        *)
LEMMA ReleasedType ==
  ASSUME NEW c, NEW brk, lease \in [Conns -> LeaseStates]
  PROVE  Released(c, brk) \in [Conns -> LeaseStates]
BY DEF Released, LeaseStates

(* So does letting go of the Client.                                       *)
LEMMA DropType ==
  ASSUME TypeOK, NEW x, NEW ls \in [Conns -> LeaseStates], DropClientRef(x, ls)
  PROVE  /\ poolState' \in {"none", "open", "closed", "freed"}
         /\ refs' \subseteq {User} \cup Coroutines \cup Handles
         /\ lease' \in [Conns -> LeaseStates]
BY DEF DropClientRef, WithoutIdle, TypeOK, LeaseStates

(* Whatever the outcome of a socket call, the wire is in a known state.    *)
LEMMA WireType ==
  ASSUME TypeOK, NEW c,
         \/ \E w \in WireStates : SetWire(c, w)
         \/ \E w \in {"query", "insert"} : SetWire(c, Sent(c, w))
         \/ StreamEnd(c)
         \/ \E e \in ErrorClasses : SetWire(c, WireAfter(e, wire[c]))
         \/ UNCHANGED wire
  PROVE  wire' \in [Conns -> WireStates]
BY DEF TypeOK, SetWire, Sent, StreamEnd, WireAfter, WireStates

-----------------------------------------------------------------------------
(* Steps that several handlers share                                       *)

(* acquire succeeded: t, which waited for slot c or was opening it, either *)
(* holds it in its frame or has wrapped it in a Batch.                     *)
LEMMA AcquiredInv ==
  ASSUME IInv, NEW t \in Coroutines, NEW c \in Conns,
         \/ pc[t] = "acquire" /\ lease[c] = "idle"
         \/ pc[t] = "factory" /\ at[t] = c,
         Acquired(t, c), wire' \in [Conns -> WireStates]
  PROVE  IInv'
<1> USE DEF Acquired, Enter
<1>1. /\ op[t] \in Methods /\ t \in refs
      /\ \A h \in Handles : Pins(h) => obj[h].conn # c
      /\ \A u \in Coroutines : u # t => at[u] # c
  BY DEF IInv, TypeOK, FramesOK, FrameOf, FrameLeases, ObjectLeases
<1>2. CASE op[t] = "insertBatch"
  <2> USE <1>2 DEF ReturnObject, NewBatch, Leave
  <2>0. hd[t] \in Handles /\ ~ Live(hd[t])
    BY DEF IInv, TypeOK, FramesOK, FrameOf, HandleOf
  <2>1. TypeOK'
    <3>1. NewBatch(t, c) \in Handle
      BY DEF Handle
    <3>2. obj' \in [Handles -> Handle]
      <4> HIDE DEF NewBatch
      <4> QED
        BY <3>1 DEF IInv, TypeOK
    <3>3. lease' \in [Conns -> LeaseStates]
      BY DEF IInv, TypeOK, LeaseStates
    <3> QED
      BY <2>0, <3>2, <3>3 DEF IInv, TypeOK, LeaseStates, WireStates
  <2>2. FramesOK'
    BY <2>0, <1>1 DEF IInv, TypeOK, FramesOK, FrameOf, HandleOf, Methods,
                      Live, Pins
  <2>3. ObjectsOK'
    BY <2>0, <1>1 DEF IInv, TypeOK, ObjectsOK, Live
  <2>4. FrameLeases'
    BY <1>1 DEF IInv, TypeOK, FrameLeases
  <2>5. ObjectLeases'
    BY <2>0, <1>1 DEF IInv, TypeOK, ObjectsOK, ObjectLeases, Pins, Live
  <2>6. LeasesHeld'
    <3> SUFFICES ASSUME NEW d \in Conns, lease'[d] \in {"opening", "leased"}
                 PROVE  \/ \E u \in Coroutines : at'[u] = d
                        \/ \E h \in Handles : Pins(h)' /\ obj'[h].conn = d
      BY DEF LeasesHeld
    <3>1. CASE d = c
      BY <2>0, <3>1 DEF IInv, TypeOK, Pins, Live
    <3>2. CASE d # c
      <4>1. lease[d] \in {"opening", "leased"} /\ at[t] # d
        BY <3>2 DEF IInv, TypeOK, FramesOK, FrameOf
      <4> QED
        BY <4>1, <2>0 DEF IInv, TypeOK, LeasesHeld, Pins, Live
    <3> QED
      BY <3>1, <3>2
  <2>7. PoolOK'
    <3>1. poolState' = poolState /\ refs # {} /\ refs' # {}
      BY <1>1, <2>0
    <3>2. \A d \in Conns : lease'[d] = "idle" => lease[d] = "idle"
      BY DEF IInv, TypeOK
    <3> QED
      BY <3>1, <3>2 DEF IInv, PoolOK
  <2> QED
    BY <2>1, <2>2, <2>3, <2>4, <2>5, <2>6, <2>7 DEF IInv
<1>3. CASE op[t] # "insertBatch"
  <2> USE <1>3
  <2>1. TypeOK'
    <3>1. /\ pc' \in [Coroutines -> {"user", "acquire", "factory"} \cup IOPoints]
          /\ lease' \in [Conns -> LeaseStates]
      BY DEF IInv, TypeOK, IOPoints, LeaseStates
    <3> QED
      BY <3>1 DEF IInv, TypeOK, LeaseStates, WireStates
  <2>2. FramesOK'
    BY <1>1 DEF IInv, TypeOK, FramesOK, FrameOf, HandleOf, Methods, Live, Pins
  <2>3. ObjectsOK'
    BY DEF IInv, ObjectsOK, Live
  <2>4. FrameLeases'
    BY <1>1 DEF IInv, TypeOK, FrameLeases, Methods
  <2>5. ObjectLeases'
    BY <1>1 DEF IInv, TypeOK, ObjectsOK, ObjectLeases, Pins, Live
  <2>6. LeasesHeld'
    <3> SUFFICES ASSUME NEW d \in Conns, lease'[d] \in {"opening", "leased"}
                 PROVE  \/ \E u \in Coroutines : at'[u] = d
                        \/ \E h \in Handles : Pins(h)' /\ obj'[h].conn = d
      BY DEF LeasesHeld
    <3>1. CASE d = c
      BY <3>1 DEF IInv, TypeOK
    <3>2. CASE d # c
      <4>1. lease[d] \in {"opening", "leased"} /\ at[t] # d
        BY <3>2 DEF IInv, TypeOK, FramesOK, FrameOf
      <4> QED
        BY <4>1 DEF IInv, TypeOK, LeasesHeld, Pins, Live
    <3> QED
      BY <3>1, <3>2
  <2>7. PoolOK'
    BY DEF IInv, TypeOK, PoolOK
  <2> QED
    BY <2>1, <2>2, <2>3, <2>4, <2>5, <2>6, <2>7 DEF IInv
<1> QED
  BY <1>2, <1>3

(* A Client method gives the connection of its frame back and returns.     *)
LEMMA GiveBackInv ==
  ASSUME IInv, NEW t \in Coroutines, NEW brk, pc[t] \in IOPoints,
         op[t] \in Methods, DropClientRef(t, Released(at[t], brk)), Leave(t),
         UNCHANGED obj, wire' \in [Conns -> WireStates]
  PROVE  IInv'
<1> USE DEF DropClientRef, WithoutIdle, Released, BeforeRelease, Leave, Enter
<1>1. /\ at[t] \in Conns /\ lease[at[t]] = "leased" /\ t \in refs
      /\ \A h \in Handles : Pins(h) => obj[h].conn # at[t]
      /\ \A u \in Coroutines : u # t => at[u] # at[t]
  BY DEF IInv, TypeOK, FramesOK, FrameOf, FrameLeases, ObjectLeases,
         IOPoints, Methods
<1>2. TypeOK'
  <2> HIDE DEF DropClientRef, Released
  <2>1. Released(at[t], brk) \in [Conns -> LeaseStates]
    BY ReleasedType DEF IInv, TypeOK, LeaseStates
  <2> QED
    BY <2>1, DropType DEF IInv, TypeOK, LeaseStates, WireStates
<1>3. FramesOK'
  BY DEF IInv, TypeOK, FramesOK, FrameOf, HandleOf, Methods, Live, Pins
<1>4. ObjectsOK'
  BY DEF IInv, ObjectsOK, Live
<1>5. FrameLeases'
  BY <1>1 DEF IInv, TypeOK, FrameLeases
<1>6. ObjectLeases'
  BY <1>1 DEF IInv, TypeOK, ObjectsOK, ObjectLeases, Pins, Live
<1>7. LeasesHeld'
  <2> SUFFICES ASSUME NEW c \in Conns, lease'[c] \in {"opening", "leased"}
               PROVE  \/ \E u \in Coroutines : at'[u] = c
                      \/ \E h \in Handles : Pins(h)' /\ obj'[h].conn = c
    BY DEF LeasesHeld
  <2>1. poolState # "freed"
    BY <1>1 DEF IInv, PoolOK
  <2>2. c # at[t] /\ lease[c] = lease'[c]
    BY <1>1, <2>1 DEF IInv, TypeOK
  <2> QED
    BY <2>2 DEF IInv, TypeOK, LeasesHeld, Pins, Live
<1>8. PoolOK'
  BY <1>1 DEF IInv, TypeOK, PoolOK
<1> QED
  BY <1>2, <1>3, <1>4, <1>5, <1>6, <1>7, <1>8 DEF IInv

(* A Result is finished, by its end of stream or by an error.              *)
LEMMA FinishInv ==
  ASSUME IInv, NEW t \in Coroutines, NEW h \in Owned(t), NEW brk \in BOOLEAN,
         NEW n \in 0 .. MaxRows, obj[h].kind = "result",
         pc[t] = "user" \/ hd[t] = h,
         FinishResult(h, brk, n), Leave(t), op[t] \in {"none", "fetch"},
         wire' \in [Conns -> WireStates]
  PROVE  IInv'
<1> USE DEF FinishResult, Released, BeforeRelease, Leave, Enter, Owned
<1>1. h \in Handles /\ Live(h) /\ obj[h].conn \in Conns /\ h \in refs
  BY DEF IInv, ObjectsOK, Live
<1>2. TypeOK'
  <2> HIDE DEF Released
  <2>1. Released(obj[h].conn, brk) \in [Conns -> LeaseStates]
    BY ReleasedType DEF IInv, TypeOK, LeaseStates
  <2>2. obj' \in [Handles -> Handle]
    <3> DEFINE r == [obj[h] EXCEPT !.done = TRUE, !.broken = brk,
                                   !.released = TRUE, !.rows = n]
    <3>1. obj[h] \in Handle
      BY <1>1 DEF IInv, TypeOK
    <3>2. r \in Handle
      BY <3>1 DEF Handle
    <3>3. obj' = [obj EXCEPT ![h] = r]
      BY <1>1 DEF IInv, TypeOK
    <3> QED
      BY <3>2, <3>3 DEF IInv, TypeOK
  <2> QED
    BY <2>1, <2>2 DEF IInv, TypeOK, LeaseStates, WireStates
<1>3. FramesOK'
  BY <1>1 DEF IInv, TypeOK, FramesOK, FrameOf, HandleOf, Methods, Live, Pins
<1>4. ObjectsOK'
  BY DEF IInv, TypeOK, ObjectsOK, Live
<1>5. FrameLeases'
  BY <1>1 DEF IInv, TypeOK, FramesOK, FrameOf, FrameLeases, ObjectLeases,
              Pins, Methods
<1>6. ObjectLeases'
  BY <1>1 DEF IInv, TypeOK, FramesOK, FrameOf, ObjectsOK, ObjectLeases, Pins,
              Live, Methods
<1>7. LeasesHeld'
  <2> SUFFICES ASSUME NEW c \in Conns, lease'[c] \in {"opening", "leased"}
               PROVE  \/ \E u \in Coroutines : at'[u] = c
                      \/ \E k \in Handles : Pins(k)' /\ obj'[k].conn = c
    BY DEF LeasesHeld
  <2>1. poolState # "freed"
    BY <1>1 DEF IInv, PoolOK
  <2>2. lease[c] = lease'[c] /\ (Pins(h) => c # obj[h].conn)
    BY <1>1, <2>1 DEF IInv, TypeOK, Pins
  <2>3. CASE \E u \in Coroutines : at[u] = c
    BY <2>3 DEF IInv, TypeOK, FramesOK, FrameOf
  <2>4. CASE \E k \in Handles : Pins(k) /\ obj[k].conn = c
    <3> PICK k \in Handles : Pins(k) /\ obj[k].conn = c
      BY <2>4
    <3>1. k # h
      BY <2>2
    <3> QED
      BY <3>1 DEF IInv, TypeOK, Pins, Live
  <2> QED
    BY <2>2, <2>3, <2>4 DEF IInv, LeasesHeld
<1>8. PoolOK'
  BY <1>1 DEF IInv, TypeOK, PoolOK
<1> QED
  BY <1>2, <1>3, <1>4, <1>5, <1>6, <1>7, <1>8 DEF IInv

(* A flush is over: the Batch keeps its connection, broken or not.         *)
LEMMA FlushReturnsInv ==
  ASSUME IInv, NEW t \in Coroutines, NEW brk \in BOOLEAN,
         NEW left \in 0 .. MaxRows, FlushReturns(t, brk, left),
         wire' \in [Conns -> WireStates]
  PROVE  IInv'
<1> USE DEF Leave, Enter, pool
<1>1. TypeOK'
  <2> USE DEF FlushReturns
  <2> DEFINE r == [obj[hd[t]] EXCEPT !.broken = @ \/ brk, !.rows = left]
  <2>1. hd[t] \in Handles
    BY DEF IInv, TypeOK, FramesOK, FrameOf
  <2>2. obj[hd[t]] \in Handle
    BY <2>1 DEF IInv, TypeOK
  <2>3. r \in Handle
    BY <2>2 DEF Handle
  <2>4. obj' = [obj EXCEPT ![hd[t]] = r]
    BY <2>1 DEF IInv, TypeOK
  <2>5. obj' \in [Handles -> Handle]
    <3> HIDE DEF r, FlushReturns
    <3> QED
      BY <2>3, <2>4 DEF IInv, TypeOK
  <2> QED
    BY <2>5 DEF IInv, TypeOK, WireStates
<1>2. /\ op[t] = "flush" /\ Leave(t) /\ UNCHANGED pool
      /\ \A h \in Handles :
           /\ Live(h)' = Live(h) /\ Pins(h)' = Pins(h)
           /\ obj'[h].kind = obj[h].kind /\ obj'[h].conn = obj[h].conn
           /\ obj'[h].owner = obj[h].owner
           /\ obj'[h].done = obj[h].done /\ obj'[h].released = obj[h].released
  BY DEF FlushReturns, IInv, TypeOK, Handle, Live, Pins
<1>3. FramesOK'
  <2>1. \A u \in Coroutines : FrameOf(u)'
    BY <1>2 DEF IInv, TypeOK, FramesOK, FrameOf, Methods
  <2>2. \A u \in Coroutines : HandleOf(u)'
    BY <1>2 DEF IInv, TypeOK, FramesOK, FrameOf, HandleOf, Methods
  <2>3. \A u, v \in Coroutines : hd'[u] = hd'[v] /\ hd'[u] # Nil => u = v
    BY <1>2 DEF IInv, TypeOK, FramesOK
  <2> QED
    BY <2>1, <2>2, <2>3 DEF FramesOK
<1>4. ObjectsOK' /\ PoolOK'
  BY <1>2 DEF IInv, ObjectsOK, PoolOK
<1>5. at' = at /\ \A u \in Coroutines : at[u] # Nil => pc'[u] = pc[u]
  BY <1>2 DEF IInv, TypeOK, FramesOK, FrameOf, Methods
<1>6. FrameLeases'
  BY <1>2, <1>5 DEF IInv, FrameLeases
<1>7. ObjectLeases' /\ LeasesHeld'
  BY <1>2, <1>5 DEF IInv, ObjectLeases, LeasesHeld
<1> QED
  BY <1>1, <1>3, <1>4, <1>6, <1>7 DEF IInv

(* A coroutine goes from one call on the socket to the next.               *)
LEMMA SuspendInv ==
  ASSUME IInv, NEW t \in Coroutines, NEW label,
         \/ pc[t] = "BeginExecute" /\ label = "NextBlock"
         \/ /\ pc[t] \in {"BeginInsert", "SendInsertBlock", "EndInsert"}
            /\ label \in {"SendInsertBlock", "EndInsert", "closeInsert"},
         Suspend(t, label), UNCHANGED <<poolState, refs, lease, obj>>,
         wire' \in [Conns -> WireStates]
  PROVE  IInv'
<1> USE DEF Suspend, Enter
<1>1. TypeOK'
  BY DEF IInv, TypeOK, IOPoints, WireStates
<1>2. FramesOK'
  BY DEF IInv, TypeOK, FramesOK, FrameOf, HandleOf, Methods, Live, Pins
<1>3. ObjectsOK' /\ PoolOK' /\ ObjectLeases'
  BY DEF IInv, TypeOK, ObjectsOK, PoolOK, ObjectLeases, Live, Pins
<1>4. FrameLeases' /\ LeasesHeld'
  BY DEF IInv, TypeOK, FrameLeases, LeasesHeld, Live, Pins
<1> QED
  BY <1>1, <1>2, <1>3, <1>4 DEF IInv

-----------------------------------------------------------------------------
(* IInv is inductive                                                       *)

(* A Client that was just constructed satisfies the invariant.             *)
LEMMA InitInv == Init => IInv
<1> SUFFICES ASSUME Init PROVE IInv
  OBVIOUS
<1>1. TypeOK
  BY DEF Init, TypeOK, Handle, NoObject, IOPoints, Methods
<1>2. FramesOK
  BY DEF Init, FramesOK, FrameOf, HandleOf, Methods, Live, NoObject
<1>3. ObjectsOK
  BY DEF Init, ObjectsOK, Live, NoObject
<1>4. FrameLeases /\ ObjectLeases /\ LeasesHeld
  BY DEF Init, FrameLeases, ObjectLeases, LeasesHeld, Pins, Live, NoObject
<1>5. PoolOK
  BY DEF Init, PoolOK
<1> QED
  BY <1>1, <1>2, <1>3, <1>4, <1>5 DEF IInv

(* A call of query, insert or insertBatch preserves it.                    *)
LEMMA CallInv ==
  ASSUME IInv, NEW t \in Coroutines, NEW m \in Methods,
         NEW h \in Handles \cup {Nil}, Call(t, m, h)
  PROVE  IInv'
<1> USE DEF Call, Enter, EnsurePool, Free
<1>1. TypeOK'
  BY DEF IInv, TypeOK, Methods
<1>2. FramesOK'
  BY DEF IInv, TypeOK, FramesOK, FrameOf, HandleOf, Methods, Live, Pins
<1>3. ObjectsOK'
  BY DEF IInv, TypeOK, ObjectsOK, Live
<1>4. FrameLeases'
  BY DEF IInv, TypeOK, FramesOK, FrameOf, FrameLeases, IOPoints
<1>5. ObjectLeases'
  BY DEF IInv, TypeOK, FramesOK, FrameOf, ObjectsOK, ObjectLeases, Pins, Live
<1>6. LeasesHeld'
  BY DEF IInv, TypeOK, FramesOK, FrameOf, LeasesHeld, Pins, Live
<1>7. PoolOK'
  BY DEF IInv, TypeOK, PoolOK
<1> QED
  BY <1>1, <1>2, <1>3, <1>4, <1>5, <1>6, <1>7 DEF IInv

(* So does acquire when the pool hands out an idle connection,             *)
LEMMA AcquireIdleInv ==
  ASSUME IInv, NEW t \in Coroutines, NEW c \in Conns, AcquireIdle(t, c)
  PROVE  IInv'
<1>1. wire' \in [Conns -> WireStates]
  BY DEF AcquireIdle, IInv, TypeOK, WireStates
<1> QED
  BY <1>1, AcquiredInv DEF AcquireIdle

(* or grows by one that the factory begins to open.                        *)
LEMMA AcquireOpenInv ==
  ASSUME IInv, NEW t \in Coroutines, NEW c \in Conns, AcquireOpen(t, c)
  PROVE  IInv'
<1> USE DEF AcquireOpen, Enter
<1>1. TypeOK'
  BY DEF IInv, TypeOK
<1>2. FramesOK'
  BY DEF IInv, TypeOK, FramesOK, FrameOf, HandleOf, Methods, Live, Pins
<1>3. ObjectsOK' /\ PoolOK'
  BY DEF IInv, TypeOK, ObjectsOK, PoolOK, Live
<1>4. FrameLeases'
  BY DEF IInv, TypeOK, FrameLeases
<1>5. ObjectLeases'
  BY DEF IInv, TypeOK, ObjectsOK, ObjectLeases, Pins, Live
<1>6. LeasesHeld'
  BY DEF IInv, TypeOK, FramesOK, FrameOf, LeasesHeld, Pins, Live
<1> QED
  BY <1>1, <1>2, <1>3, <1>4, <1>5, <1>6 DEF IInv

(* The factory returns a connection.                                       *)
LEMMA OpenOkInv ==
  ASSUME IInv, NEW t \in Coroutines, OpenOk(t)
  PROVE  IInv'
<1>1. at[t] \in Conns
  BY DEF OpenOk, IInv, TypeOK, FramesOK, FrameOf, Methods
<1>2. wire' \in [Conns -> WireStates]
  BY DEF OpenOk, SetWire, IInv, TypeOK, WireStates
<1> QED
  BY <1>1, <1>2, AcquiredInv DEF OpenOk

(* The factory throws, and the slot is empty again.                        *)
LEMMA OpenFailsInv ==
  ASSUME IInv, NEW t \in Coroutines, OpenFails(t)
  PROVE  IInv'
<1> USE DEF OpenFails, DropClientRef, WithoutIdle, Leave, Enter
<1>1. TypeOK'
  BY DEF IInv, TypeOK
<1>2. FramesOK'
  BY DEF IInv, TypeOK, FramesOK, FrameOf, HandleOf, Methods, Live, Pins
<1>3. ObjectsOK'
  BY DEF IInv, ObjectsOK, Live
<1>4. FrameLeases'
  BY DEF IInv, TypeOK, FrameLeases
<1>5. ObjectLeases'
  BY DEF IInv, TypeOK, FramesOK, FrameOf, FrameLeases, ObjectsOK,
         ObjectLeases, Pins, Live, Methods
<1>6. LeasesHeld'
  BY DEF IInv, TypeOK, FramesOK, FrameOf, LeasesHeld, Pins, Live, Methods
<1>7. PoolOK'
  BY DEF IInv, TypeOK, FramesOK, FrameOf, PoolOK, Methods
<1> QED
  BY <1>1, <1>2, <1>3, <1>4, <1>5, <1>6, <1>7 DEF IInv

(* acquire throws: the frame held nothing.                                 *)
LEMMA AcquireThrowsInv ==
  ASSUME IInv, NEW t \in Coroutines, pc[t] = "acquire", AcquireThrows(t)
  PROVE  IInv'
<1> USE DEF AcquireThrows, DropClientRef, WithoutIdle, Leave, Enter
<1>1. TypeOK'
  BY DEF IInv, TypeOK
<1>2. FramesOK'
  BY DEF IInv, TypeOK, FramesOK, FrameOf, HandleOf, Methods, Live, Pins
<1>3. ObjectsOK'
  BY DEF IInv, ObjectsOK, Live
<1>4. FrameLeases'
  BY DEF IInv, TypeOK, FramesOK, FrameOf, FrameLeases
<1>5. ObjectLeases'
  BY DEF IInv, TypeOK, ObjectsOK, ObjectLeases, Pins, Live
<1>6. LeasesHeld'
  BY DEF IInv, TypeOK, FramesOK, FrameOf, LeasesHeld, Pins, Live
<1>7. PoolOK'
  BY DEF IInv, TypeOK, PoolOK
<1> QED
  BY <1>1, <1>2, <1>3, <1>4, <1>5, <1>6, <1>7 DEF IInv

(* query returns a Result that holds the connection of its frame.          *)
LEMMA QueryBlockInv ==
  ASSUME IInv, NEW t \in Coroutines, NEW n \in 1 .. MaxRows, QueryBlock(t, n)
  PROVE  IInv'
<1> USE DEF QueryBlock, ReturnObject, NewResult, Leave, Enter
<1>0. hd[t] \in Handles /\ ~ Live(hd[t]) /\ at[t] \in Conns /\ t \in refs
  BY DEF IInv, TypeOK, FramesOK, FrameOf, HandleOf, Methods
<1>1. TypeOK'
  <2>1. NewResult(t, at[t], n, FALSE) \in Handle
    BY <1>0 DEF Handle
  <2>2. obj' \in [Handles -> Handle]
    <3> HIDE DEF NewResult
    <3> QED
      BY <2>1 DEF IInv, TypeOK
  <2> QED
    BY <1>0, <2>2 DEF IInv, TypeOK
<1>2. FramesOK'
  BY <1>0 DEF IInv, TypeOK, FramesOK, FrameOf, HandleOf, Methods, Live, Pins
<1>3. ObjectsOK'
  BY <1>0 DEF IInv, TypeOK, ObjectsOK, Live
<1>4. FrameLeases'
  BY DEF IInv, TypeOK, FrameLeases
<1>5. ObjectLeases'
  BY <1>0 DEF IInv, TypeOK, FrameLeases, ObjectsOK, ObjectLeases, Live, Pins
<1>6. LeasesHeld'
  BY <1>0 DEF IInv, TypeOK, LeasesHeld, Live, Pins
<1>7. PoolOK'
  BY <1>0 DEF IInv, PoolOK
<1> QED
  BY <1>1, <1>2, <1>3, <1>4, <1>5, <1>6, <1>7 DEF IInv

(* query returns a finished Result and gives the connection back.          *)
LEMMA QueryNoRowsInv ==
  ASSUME IInv, NEW t \in Coroutines, QueryNoRows(t)
  PROVE  IInv'
<1> USE DEF QueryNoRows, Released, BeforeRelease, ReturnObject, NewResult,
            Leave, Enter
<1>0. /\ hd[t] \in Handles /\ ~ Live(hd[t]) /\ t \in refs
      /\ at[t] \in Conns /\ lease[at[t]] = "leased" /\ poolState # "freed"
      /\ \A h \in Handles : Pins(h) => obj[h].conn # at[t]
      /\ \A u \in Coroutines : u # t => at[u] # at[t]
  BY DEF IInv, TypeOK, FramesOK, FrameOf, HandleOf, Methods, PoolOK,
         FrameLeases, ObjectLeases
<1>1. TypeOK'
  <2>1. NewResult(t, at[t], 0, TRUE) \in Handle
    BY <1>0 DEF Handle
  <2>2. obj' \in [Handles -> Handle]
    <3> HIDE DEF NewResult
    <3> QED
      BY <2>1 DEF IInv, TypeOK
  <2>3. lease' \in [Conns -> LeaseStates]
    BY DEF IInv, TypeOK, LeaseStates
  <2>4. wire' \in [Conns -> WireStates]
    BY WireType DEF IInv
  <2> QED
    BY <1>0, <2>2, <2>3, <2>4 DEF IInv, TypeOK, LeaseStates, WireStates
<1>2. FramesOK'
  BY <1>0 DEF IInv, TypeOK, FramesOK, FrameOf, HandleOf, Methods, Live, Pins
<1>3. ObjectsOK'
  BY <1>0 DEF IInv, TypeOK, ObjectsOK, Live
<1>4. FrameLeases'
  BY <1>0 DEF IInv, TypeOK, FrameLeases
<1>5. ObjectLeases'
  BY <1>0 DEF IInv, TypeOK, FrameLeases, ObjectsOK, ObjectLeases, Live, Pins
<1>6. LeasesHeld'
  <2> SUFFICES ASSUME NEW c \in Conns, lease'[c] \in {"opening", "leased"}
               PROVE  \/ \E u \in Coroutines : at'[u] = c
                      \/ \E h \in Handles : Pins(h)' /\ obj'[h].conn = c
    BY DEF LeasesHeld
  <2>1. c # at[t] /\ lease[c] = lease'[c]
    BY <1>0 DEF IInv, TypeOK
  <2> QED
    BY <1>0, <2>1 DEF IInv, TypeOK, LeasesHeld, Pins, Live
<1>7. PoolOK'
  <2>1. refs # {} /\ refs' # {} /\ poolState' = poolState
    BY <1>0
  <2>2. poolState = "closed" => \A c \in Conns : lease'[c] = "idle" =>
                                                lease[c] = "idle"
    BY <1>0 DEF IInv, TypeOK
  <2> QED
    BY <1>0, <2>1, <2>2 DEF IInv, PoolOK
<1> QED
  BY <1>1, <1>2, <1>3, <1>4, <1>5, <1>6, <1>7 DEF IInv

(* The remaining steps of query, fetch, insert and flush are instances of  *)
(* the shared ones.                                                        *)
LEMMA QueryStepInv ==
  ASSUME IInv, NEW t \in Coroutines, QueryStep(t)
  PROVE  IInv'
<1>1. CASE QueryBegin(t)
  <2>1. wire' \in [Conns -> WireStates]
    BY <1>1, WireType DEF QueryBegin, IInv
  <2> QED
    BY <1>1, <2>1, SuspendInv DEF QueryBegin, pool
<1>2. ASSUME NEW e \in ReadErrors, QueryFails(t, e) PROVE IInv'
  <2>1. wire' \in [Conns -> WireStates]
    BY <1>2, WireType, ErrorsAssumption DEF QueryFails, IInv
  <2>2. pc[t] \in IOPoints /\ op[t] \in Methods
    BY <1>2 DEF QueryFails, IOPoints, Methods
  <2> QED
    BY <1>2, <2>1, <2>2, GiveBackInv DEF QueryFails
<1> QED
  BY <1>1, <1>2, QueryBlockInv, QueryNoRowsInv DEF QueryStep

(* A Result begins to read its next block.                                 *)
LEMMA PullInv ==
  ASSUME IInv, NEW t \in Coroutines, NEW h \in Handles, Pull(t, h)
  PROVE  IInv'
<1> USE DEF Pull, OwnResult, Owned, Enter, pool
<1>1. TypeOK'
  BY DEF IInv, TypeOK, IOPoints
<1>2. FramesOK'
  BY DEF IInv, TypeOK, FramesOK, FrameOf, HandleOf, ObjectsOK, Methods, Live,
         Pins
<1>3. ObjectsOK' /\ PoolOK'
  BY DEF IInv, ObjectsOK, PoolOK, Live
<1>4. FrameLeases'
  BY DEF IInv, TypeOK, FramesOK, FrameOf, FrameLeases
<1>5. ObjectLeases' /\ LeasesHeld'
  BY DEF IInv, TypeOK, FramesOK, FrameOf, ObjectsOK, ObjectLeases, LeasesHeld,
         Live, Pins
<1> QED
  BY <1>1, <1>2, <1>3, <1>4, <1>5 DEF IInv

(* A Batch begins to flush.                                                *)
LEMMA FlushInv ==
  ASSUME IInv, NEW t \in Coroutines, NEW h \in Handles, Flush(t, h)
  PROVE  IInv'
<1> USE DEF Flush, OwnBatch, Owned, Enter, pool
<1>1. TypeOK'
  BY DEF IInv, TypeOK, IOPoints
<1>2. FramesOK'
  BY DEF IInv, TypeOK, FramesOK, FrameOf, HandleOf, ObjectsOK, Methods, Live,
         Pins
<1>3. ObjectsOK' /\ PoolOK'
  BY DEF IInv, ObjectsOK, PoolOK, Live
<1>4. FrameLeases'
  BY DEF IInv, TypeOK, FramesOK, FrameOf, FrameLeases
<1>5. ObjectLeases' /\ LeasesHeld'
  BY DEF IInv, TypeOK, FramesOK, FrameOf, ObjectsOK, ObjectLeases, LeasesHeld,
         Live, Pins
<1> QED
  BY <1>1, <1>2, <1>3, <1>4, <1>5 DEF IInv

(* Only the number of buffered rows changes.                               *)
LEMMA RowsInv ==
  ASSUME IInv, NEW h \in Handles, NEW n \in 0 .. MaxRows,
         obj' = [obj EXCEPT ![h].rows = n], UNCHANGED <<pool, wire, frame>>
  PROVE  IInv'
<1> USE DEF pool, frame
<1>1. TypeOK'
  BY DEF IInv, TypeOK, Handle
<1>2. FramesOK'
  BY DEF IInv, TypeOK, FramesOK, FrameOf, HandleOf, Live, Pins
<1>3. ObjectsOK' /\ PoolOK'
  BY DEF IInv, TypeOK, ObjectsOK, PoolOK, Live
<1>4. FrameLeases'
  BY DEF IInv, FrameLeases
<1>5. ObjectLeases' /\ LeasesHeld'
  BY DEF IInv, TypeOK, ObjectLeases, LeasesHeld, Live, Pins
<1> QED
  BY <1>1, <1>2, <1>3, <1>4, <1>5 DEF IInv

(* A Result receives a block.                                              *)
LEMMA PullBlockInv ==
  ASSUME IInv, NEW t \in Coroutines, NEW n \in 1 .. MaxRows, PullBlock(t, n)
  PROVE  IInv'
<1> USE DEF PullBlock, Pulling, Leave, Enter, pool
<1>1. TypeOK'
  <2>1. hd[t] \in Handles /\ n - 1 \in 0 .. MaxRows
    BY DEF IInv, TypeOK, FramesOK, FrameOf
  <2>2. [obj[hd[t]] EXCEPT !.rows = n - 1] \in Handle
    BY <2>1 DEF IInv, TypeOK, Handle
  <2>3. obj' \in [Handles -> Handle]
    BY <2>1, <2>2 DEF IInv, TypeOK
  <2> QED
    BY <2>3 DEF IInv, TypeOK
<1>2. FramesOK'
  BY DEF IInv, TypeOK, FramesOK, FrameOf, HandleOf, Methods, Live, Pins
<1>3. ObjectsOK' /\ PoolOK'
  BY DEF IInv, TypeOK, ObjectsOK, PoolOK, Live
<1>4. FrameLeases'
  BY DEF IInv, TypeOK, FramesOK, FrameOf, FrameLeases
<1>5. ObjectLeases' /\ LeasesHeld'
  BY DEF IInv, TypeOK, FramesOK, FrameOf, ObjectLeases, LeasesHeld, Live, Pins,
         Methods
<1> QED
  BY <1>1, <1>2, <1>3, <1>4, <1>5 DEF IInv

(* Every outcome of the read of a block preserves the invariant.           *)
LEMMA PullStepInv ==
  ASSUME IInv, NEW t \in Coroutines, PullStep(t)
  PROVE  IInv'
<1>1. Pulling(t) => hd[t] \in Owned(t) /\ obj[hd[t]].kind = "result"
  BY DEF Pulling, IInv, TypeOK, FramesOK, FrameOf, HandleOf, Owned, Pins
<1>2. CASE PullEnd(t)
  <2>1. wire' \in [Conns -> WireStates]
    BY <1>2, WireType DEF PullEnd, IInv
  <2>2. 0 \in 0 .. MaxRows
    OBVIOUS
  <2> QED
    BY <1>1, <1>2, <2>1, <2>2, FinishInv DEF PullEnd, Pulling
<1>3. ASSUME NEW e \in ReadErrors, PullFails(t, e) PROVE IInv'
  <2>1. wire' \in [Conns -> WireStates]
    BY <1>3, WireType, ErrorsAssumption DEF PullFails, IInv
  <2>2. Poisons(e) \in BOOLEAN
    BY DEF Poisons
  <2> QED
    BY <1>1, <1>3, <2>1, <2>2, FinishInv DEF PullFails, Pulling
<1> QED
  BY <1>2, <1>3, PullBlockInv DEF PullStep

(* A row that cannot be decoded ends the Result.                           *)
LEMMA DecodeFailsInv ==
  ASSUME IInv, NEW t \in Coroutines, NEW h \in Handles,
         NEW n \in 1 .. MaxRows, NEW e \in DecodeErrors, DecodeFails(t, h, n, e)
  PROVE  IInv'
<1>1. h \in Owned(t) /\ obj[h].kind = "result" /\ (pc[t] = "user" \/ hd[t] = h)
  BY DEF DecodeFails, OwnResult, Pulling, IInv, TypeOK, FramesOK, FrameOf,
         HandleOf, Owned, Pins
<1>2. op[t] \in {"none", "fetch"} /\ n \in 0 .. MaxRows
  BY DEF DecodeFails, OwnResult, Pulling, IInv, FramesOK, FrameOf
<1>3. wire' \in [Conns -> WireStates]
  BY DEF DecodeFails, IInv, TypeOK, WireStates
<1>4. Poisons(e) \in BOOLEAN
  BY DEF Poisons
<1> QED
  BY <1>1, <1>2, <1>3, <1>4, FinishInv DEF DecodeFails

(* insert returns or throws.                                               *)
LEMMA InsertReturnsInv ==
  ASSUME IInv, NEW t \in Coroutines, NEW brk \in BOOLEAN, pc[t] \in IOPoints,
         InsertReturns(t, brk), wire' \in [Conns -> WireStates]
  PROVE  IInv'
<1>1. op[t] \in Methods
  BY DEF InsertReturns, Methods
<1> QED
  BY <1>1, GiveBackInv DEF InsertReturns

(* The failure of ch_send_block, for insert and for flush.                 *)
LEMMA InsertThrowsInv ==
  ASSUME IInv, NEW t \in Coroutines, NEW brk \in BOOLEAN, pc[t] \in IOPoints,
         InsertThrows(t, brk), wire' \in [Conns -> WireStates]
  PROVE  IInv'
<1>1. CASE InsertReturns(t, brk)
  BY <1>1, InsertReturnsInv
<1>2. CASE FlushReturns(t, brk, obj[hd[t]].rows)
  <2>1. hd[t] \in Handles
    BY <1>2 DEF FlushReturns, IInv, TypeOK, FramesOK, FrameOf
  <2>2. obj[hd[t]].rows \in 0 .. MaxRows
    BY <2>1 DEF IInv, TypeOK, Handle
  <2> QED
    BY <1>2, <2>2, FlushReturnsInv
<1> QED
  BY <1>1, <1>2 DEF InsertThrows

(* Every outcome of a socket call of ch_send_block.                        *)
LEMMA InsertStepInv ==
  ASSUME IInv, NEW t \in Coroutines, InsertStep(t)
  PROVE  IInv'
<1>1. ASSUME NEW l \in {"SendInsertBlock", "closeInsert"}, InsertBegun(t, l)
      PROVE  IInv'
  <2>1. wire' \in [Conns -> WireStates]
    BY <1>1, WireType DEF InsertBegun, IInv
  <2> QED
    BY <1>1, <2>1, SuspendInv DEF InsertBegun, pool
<1>2. CASE SendOk(t)
  <2>1. wire' \in [Conns -> WireStates]
    BY <1>2, WireType DEF SendOk, IInv
  <2> QED
    BY <1>2, <2>1, SuspendInv DEF SendOk, pool
<1>3. CASE EndOk(t)
  <2>1. wire' \in [Conns -> WireStates] /\ pc[t] \in IOPoints
    BY <1>3, WireType DEF EndOk, IInv, IOPoints
  <2>2. 0 \in 0 .. MaxRows
    OBVIOUS
  <2> QED
    BY <1>3, <2>1, <2>2, InsertReturnsInv, FlushReturnsInv DEF EndOk
<1>4. ASSUME NEW e \in ReadErrors, SendBlockFails(t, e) PROVE IInv'
  <2>1. wire' \in [Conns -> WireStates] /\ pc[t] \in IOPoints
    BY <1>4, WireType, ErrorsAssumption DEF SendBlockFails, IInv, IOPoints
  <2>2. CASE Poisons(e)
    BY <1>4, <2>1, <2>2, InsertThrowsInv DEF SendBlockFails
  <2>3. CASE ~ Poisons(e)
    BY <1>4, <2>1, <2>3, SuspendInv DEF SendBlockFails, pool
  <2> QED
    BY <2>2, <2>3
<1>5. CASE CloseOk(t)
  <2>1. wire' \in [Conns -> WireStates] /\ pc[t] \in IOPoints
    BY <1>5, WireType DEF CloseOk, IInv, IOPoints
  <2> QED
    BY <1>5, <2>1, InsertThrowsInv DEF CloseOk
<1>6. ASSUME NEW e \in ReadErrors, CloseFails(t, e) PROVE IInv'
  <2>1. wire' \in [Conns -> WireStates] /\ pc[t] \in IOPoints
    BY <1>6, WireType, ErrorsAssumption DEF CloseFails, IInv, IOPoints
  <2> QED
    BY <1>6, <2>1, InsertThrowsInv DEF CloseFails
<1> QED
  BY <1>1, <1>2, <1>3, <1>4, <1>5, <1>6
  DEF InsertStep, BeginInsertOk, BuildFails

(* The destructors of Result and Batch.                                    *)
LEMMA DestroyInv ==
  ASSUME IInv, NEW t \in Coroutines, NEW h \in Handles, Destroy(t, h)
  PROVE  IInv'
<1> USE DEF Destroy, DropClientRef, Released, BeforeRelease, WithoutIdle,
            frame, NoObject, Owned, Live, Pins
<1>1. TypeOK'
  <2> DEFINE ls == IF Pins(h) THEN Released(obj[h].conn, Abandoned(h))
                   ELSE lease
  <2> HIDE DEF DropClientRef, Released
  <2>1. ls \in [Conns -> LeaseStates]
    BY ReleasedType DEF IInv, TypeOK, LeaseStates
  <2>2. DropClientRef(h, ls)
    BY DEF Destroy
  <2>3. obj' \in [Handles -> Handle]
    BY DEF IInv, TypeOK, Handle
  <2> QED
    BY <2>1, <2>2, <2>3, DropType DEF IInv, TypeOK, LeaseStates
<1>2. FramesOK'
  BY DEF IInv, TypeOK, FramesOK, FrameOf, HandleOf, Methods
<1>3. ObjectsOK'
  BY DEF IInv, TypeOK, ObjectsOK
<1>4. FrameLeases'
  BY DEF IInv, TypeOK, FramesOK, FrameOf, FrameLeases, ObjectsOK, ObjectLeases
<1>5. ObjectLeases'
  BY DEF IInv, TypeOK, ObjectsOK, ObjectLeases
<1>6. LeasesHeld'
  <2> SUFFICES ASSUME NEW c \in Conns, lease'[c] \in {"opening", "leased"}
               PROVE  \/ \E u \in Coroutines : at'[u] = c
                      \/ \E k \in Handles : Pins(k)' /\ obj'[k].conn = c
    BY DEF LeasesHeld
  <2>1. poolState # "freed"
    BY DEF IInv, ObjectsOK, PoolOK
  <2>2. lease[c] = lease'[c] /\ (Pins(h) => c # obj[h].conn)
    BY <2>1 DEF IInv, TypeOK, ObjectsOK
  <2>3. CASE \E u \in Coroutines : at[u] = c
    BY <2>3
  <2>4. CASE \E k \in Handles : Pins(k) /\ obj[k].conn = c
    <3> PICK k \in Handles : Pins(k) /\ obj[k].conn = c
      BY <2>4
    <3>1. k # h
      BY <2>2
    <3> QED
      BY <3>1 DEF IInv, TypeOK
  <2> QED
    BY <2>2, <2>3, <2>4 DEF IInv, LeasesHeld
<1>7. PoolOK'
  BY DEF IInv, TypeOK, PoolOK, ObjectsOK
<1> QED
  BY <1>1, <1>2, <1>3, <1>4, <1>5, <1>6, <1>7 DEF IInv

(* FetchRow, Append, Pull, Flush, DecodeFails and Destroy together.        *)
LEMMA UseHandleInv ==
  ASSUME IInv, NEW t \in Coroutines, NEW h \in Handles, UseHandle(t, h)
  PROVE  IInv'
<1>1. obj[h].rows \in 0 .. MaxRows
  BY DEF IInv, TypeOK, Handle
<1>2. CASE FetchRow(t, h)
  <2>1. obj[h].rows - 1 \in 0 .. MaxRows
    BY <1>1, <1>2 DEF FetchRow
  <2> QED
    BY <1>2, <2>1, RowsInv DEF FetchRow
<1>3. CASE Append(t, h)
  <2>1. obj[h].rows + 1 \in 0 .. MaxRows
    BY <1>1, <1>3 DEF Append
  <2> QED
    BY <1>3, <2>1, RowsInv DEF Append
<1> QED
  BY <1>2, <1>3, PullInv, FlushInv, DestroyInv, DecodeFailsInv DEF UseHandle

(* The program lets go of its Client.                                      *)
LEMMA DropClientInv ==
  ASSUME IInv, DropClient
  PROVE  IInv'
<1> USE DEF DropClient, DropClientRef, WithoutIdle, frame
<1>1. TypeOK'
  BY DEF IInv, TypeOK
<1>2. FramesOK'
  BY DEF IInv, TypeOK, FramesOK, FrameOf, HandleOf, Live, Pins
<1>3. ObjectsOK'
  BY DEF IInv, ObjectsOK, Live
<1>4. FrameLeases' /\ ObjectLeases'
  BY DEF IInv, TypeOK, FrameLeases, ObjectsOK, ObjectLeases, Live, Pins
<1>5. LeasesHeld'
  BY DEF IInv, TypeOK, LeasesHeld, Live, Pins
<1>6. PoolOK'
  BY DEF IInv, TypeOK, PoolOK
<1> QED
  BY <1>1, <1>2, <1>3, <1>4, <1>5, <1>6 DEF IInv

(* The program closes the pool that getPool gave it.                       *)
LEMMA UserClosePoolInv ==
  ASSUME IInv, UserClosePool
  PROVE  IInv'
<1> USE DEF UserClosePool, WithoutIdle, frame
<1>1. TypeOK'
  BY DEF IInv, TypeOK
<1>2. FramesOK' /\ ObjectsOK'
  BY DEF IInv, FramesOK, FrameOf, HandleOf, ObjectsOK, Live, Pins
<1>3. FrameLeases' /\ ObjectLeases'
  BY DEF IInv, TypeOK, FrameLeases, ObjectsOK, ObjectLeases, Live, Pins
<1>4. LeasesHeld'
  BY DEF IInv, TypeOK, LeasesHeld, Live, Pins
<1>5. PoolOK'
  BY DEF IInv, TypeOK, PoolOK
<1> QED
  BY <1>1, <1>2, <1>3, <1>4, <1>5 DEF IInv

(* Steps that change nothing.                                              *)
LEMMA StutterInv ==
  ASSUME IInv, UNCHANGED vars
  PROVE  IInv'
BY DEF vars, IInv, TypeOK, FramesOK, FrameOf, HandleOf, ObjectsOK, FrameLeases,
       ObjectLeases, LeasesHeld, PoolOK, Live, Pins

(* Every step of the system preserves the invariant.                       *)
LEMMA NextInv ==
  ASSUME IInv, [Next]_vars
  PROVE  IInv'
<1>1. ASSUME NEW t \in Coroutines, Acquire(t) \/ AcquireCancelled(t)
      PROVE  IInv'
  BY <1>1, AcquireIdleInv, AcquireOpenInv, AcquireThrowsInv
  DEF Acquire, AcquireClosed, AcquireCancelled
<1>2. ASSUME NEW t \in Coroutines, Resume(t) PROVE IInv'
  BY <1>2, OpenOkInv, OpenFailsInv, QueryStepInv, PullStepInv, InsertStepInv
  DEF Resume
<1> QED
  BY <1>1, <1>2, CallInv, UseHandleInv, DropClientInv, UserClosePoolInv,
     StutterInv
  DEF Next, Terminated

-----------------------------------------------------------------------------
(* The strengthened invariant holds in every reachable state.              *)
THEOREM OwnershipInvariant == Spec => []IInv
BY InitInv, NextInv, PTL DEF Spec

(* The variables keep their types.                                         *)
THEOREM TypeCorrect == Spec => []TypeOK
<1>1. IInv => TypeOK
  BY DEF IInv
<1> QED
  BY <1>1, OwnershipInvariant, PTL

(* A connection has a holder exactly while it is leased or being opened,   *)
(* and never two.                                                          *)
LEMMA OneHolder == IInv => LeaseHasOneHolder
<1> SUFFICES ASSUME IInv, NEW c \in Conns
             PROVE  IF lease[c] \in {"opening", "leased"}
                    THEN \E x \in Coroutines \cup Handles : Holders(c) = {x}
                    ELSE Holders(c) = {}
  BY DEF LeaseHasOneHolder
<1>1. CASE lease[c] \notin {"opening", "leased"}
  BY <1>1 DEF IInv, TypeOK, FrameLeases, ObjectLeases, Holders
<1>2. CASE lease[c] \in {"opening", "leased"}
  <2>1. CASE \E t \in Coroutines : at[t] = c
    <3> PICK t \in Coroutines : at[t] = c
      BY <2>1
    <3>1. Holders(c) = {t}
      BY DEF Holders, IInv, TypeOK, FrameLeases, ObjectLeases
    <3> QED
      BY <1>2, <3>1
  <2>2. CASE \E h \in Handles : Pins(h) /\ obj[h].conn = c
    <3> PICK h \in Handles : Pins(h) /\ obj[h].conn = c
      BY <2>2
    <3>1. Holders(c) = {h}
      BY DEF Holders, IInv, TypeOK, ObjectLeases
    <3> QED
      BY <1>2, <3>1
  <2> QED
    BY <1>2, <2>1, <2>2 DEF IInv, LeasesHeld
<1> QED
  BY <1>1, <1>2

(* No connection is leaked, and none is held twice: every leased slot has  *)
(* exactly one holder, whatever the errors and the interleaving.           *)
THEOREM NoLeakNoDoubleHold == Spec => []LeaseHasOneHolder
BY OneHolder, OwnershipInvariant, PTL

(* Two coroutines never work on one socket.                                *)
THEOREM SocketsAreExclusive == Spec => []ExclusiveUse
<1>1. IInv => ExclusiveUse
  <2> SUFFICES ASSUME IInv, NEW t \in Coroutines, NEW u \in Coroutines, t # u,
                      pc[t] \in IOPoints, pc[u] \in IOPoints
               PROVE  ConnOf(t) # ConnOf(u)
    BY DEF ExclusiveUse
  <2>1. ASSUME NEW v \in {t, u}
        PROVE  \/ op[v] \in {"fetch", "flush"} /\ hd[v] \in Handles /\ Pins(hd[v])
               \/ op[v] \notin {"fetch", "flush"} /\ at[v] \in Conns
    BY DEF IInv, TypeOK, FramesOK, FrameOf, HandleOf, IOPoints, Methods
  <2>2. hd[t] = hd[u] => hd[t] = Nil
    BY DEF IInv, FramesOK
  <2> QED
    BY <2>1, <2>2 DEF ConnOf, IInv, TypeOK, FrameLeases, ObjectLeases
<1> QED
  BY <1>1, OwnershipInvariant, PTL

(* With the last reference every connection is gone.                       *)
LEMMA NothingLeft == IInv => FreedClientLeavesNothing
<1> SUFFICES ASSUME IInv, poolState = "freed", NEW c \in Conns
             PROVE  lease[c] = "absent"
  BY DEF FreedClientLeavesNothing
<1>1. refs = {} /\ lease[c] # "idle"
  BY DEF IInv, PoolOK
<1>2. \A t \in Coroutines : at[t] # c
  BY <1>1 DEF IInv, TypeOK, FramesOK, FrameOf, Methods
<1>3. \A h \in Handles : ~ Pins(h)
  BY <1>1 DEF IInv, ObjectsOK, Pins
<1> QED
  BY <1>1, <1>2, <1>3 DEF IInv, TypeOK, LeasesHeld

(* Nothing outlives the Client: no connection is given back to a pool that *)
(* was freed.                                                              *)
THEOREM NothingOutlivesTheClient == Spec => []FreedClientLeavesNothing
BY NothingLeft, OwnershipInvariant, PTL

=============================================================================
