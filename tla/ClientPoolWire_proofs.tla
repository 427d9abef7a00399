----------------------- MODULE ClientPoolWire_proofs -----------------------
(***************************************************************************)
(* What is on the sockets of ClientPool, proved on top of the ownership of *)
(* connections: which connections come back to the pool, and in what       *)
(* state.                                                                  *)
(***************************************************************************)
EXTENDS ClientPool_proofs

USE SetsAssumption, BoundsAssumption

-----------------------------------------------------------------------------
(* The connection a step is about                                          *)

(* A frame on a socket is alone with its connection.                       *)
LEMMA FrameAlone ==
  ASSUME IInv, NEW t \in Coroutines, op[t] \in Methods, pc[t] \in IOPoints
  PROVE  /\ at[t] \in Conns /\ ConnOf(t) = at[t] /\ lease[at[t]] = "leased"
         /\ poolState # "freed"
         /\ \A u \in Coroutines : u # t => at[u] # at[t]
         /\ \A h \in Handles : Pins(h) => obj[h].conn # at[t]
<1>1. op[t] \notin {"fetch", "flush"} /\ pc[t] \notin {"acquire", "factory"} /\ t \in refs
  BY DEF IInv, FramesOK, FrameOf, Methods, IOPoints
<1>2. at[t] # Nil /\ at[t] \in Conns
  BY <1>1 DEF IInv, TypeOK, FramesOK, FrameOf, Methods
<1> QED
  BY <1>1, <1>2 DEF IInv, PoolOK, FrameLeases, ObjectLeases, ConnOf

(* So is a Result or Batch that has not given its connection back.         *)
LEMMA ObjectAlone ==
  ASSUME IInv, NEW h \in Handles, Pins(h)
  PROVE  /\ obj[h].conn \in Conns /\ lease[obj[h].conn] = "leased"
         /\ poolState # "freed"
         /\ \A u \in Coroutines : at[u] # obj[h].conn
         /\ \A k \in Handles : Pins(k) /\ k # h => obj[k].conn # obj[h].conn
<1>1. h \in refs
  BY DEF IInv, ObjectsOK, Pins
<1> QED
  BY <1>1 DEF IInv, ObjectsOK, PoolOK, ObjectLeases, Pins

(* fetch and flush work on the connection of their object.                 *)
LEMMA HandleOfFrame ==
  ASSUME IInv, NEW t \in Coroutines, op[t] \in {"fetch", "flush"}
  PROVE  /\ hd[t] \in Handles /\ Pins(hd[t]) /\ ConnOf(t) = obj[hd[t]].conn
         /\ at[t] = Nil
         /\ obj[hd[t]].kind = IF op[t] = "fetch" THEN "result" ELSE "batch"
         /\ \A u \in Coroutines : hd[u] = hd[t] => u = t
BY DEF IInv, TypeOK, FramesOK, FrameOf, HandleOf, ConnOf

(* A Client method works on no object yet.                                 *)
LEMMA MethodHandle ==
  ASSUME IInv, NEW t \in Coroutines, op[t] \in Methods
  PROVE  /\ hd[t] \in Handles \cup {Nil}
         /\ op[t] # "insert" => hd[t] \in Handles /\ ~ Live(hd[t])
         /\ \A h \in Handles : Pins(h) => hd[t] # h
<1>1. hd[t] \in Handles \cup {Nil} /\ op[t] \in {"query", "insert", "insertBatch"}
  BY DEF IInv, TypeOK, Methods
<1>2. op[t] = "insert" <=> hd[t] = Nil
  BY <1>1 DEF IInv, FramesOK, FrameOf
<1>3. op[t] # "insert" => ~ Live(hd[t])
  BY <1>1 DEF IInv, FramesOK, HandleOf
<1> QED
  BY <1>1, <1>2, <1>3 DEF Pins, Live

(* A coroutine outside flush and the Client methods is in no Batch.        *)
LEMMA NoBatchInUse ==
  ASSUME IInv, NEW t \in Coroutines, op[t] \in {"none", "fetch"},
         NEW h \in Handles, obj[h].kind = "batch"
  PROVE  hd[t] # h
<1>1. CASE op[t] = "none"
  BY <1>1 DEF IInv, FramesOK, FrameOf
<1>2. CASE op[t] = "fetch"
  BY <1>2, HandleOfFrame
<1> QED
  BY <1>1, <1>2

(* A step of t that keeps t out of h leaves the exchange on h as it is.    *)
LEMMA SameExchange ==
  ASSUME NEW t \in Coroutines, NEW h \in Handles, hd[t] # h, hd'[t] # h,
         \A u \in Coroutines : u # t => hd'[u] = hd[u] /\ pc'[u] = pc[u]
  PROVE  Exchanging(h)' <=> Exchanging(h)
BY DEF Exchanging

(* Leaving a method, or taking another step of it, is about one coroutine. *)
LEMMA OthersStay ==
  ASSUME TypeOK, NEW t \in Coroutines, NEW l, NEW m, NEW h, NEW c, Enter(t, l, m, h, c)
  PROVE  /\ pc'[t] = l /\ op'[t] = m /\ hd'[t] = h /\ at'[t] = c
         /\ \A u \in Coroutines : u # t =>
              pc'[u] = pc[u] /\ op'[u] = op[u] /\ hd'[u] = hd[u] /\ at'[u] = at[u]
BY DEF TypeOK, Enter

-----------------------------------------------------------------------------
(* Steps that several handlers share                                       *)

(* A coroutine goes from one call on the socket to the next, with w on it. *)
LEMMA SuspendWire ==
  ASSUME IInv, WireInv, NEW t \in Coroutines, NEW label, NEW w,
         \/ pc[t] = "BeginExecute" /\ label = "NextBlock" /\ w # "ready"
         \/ /\ pc[t] \in {"BeginInsert", "SendInsertBlock", "EndInsert"}
            /\ label \in {"SendInsertBlock", "EndInsert", "closeInsert"},
         Suspend(t, label), UNCHANGED <<lease, obj>>,
         wire' = [wire EXCEPT ![ConnOf(t)] = w],
         wire[ConnOf(t)] = "dirty" => w = "dirty",
         RightErrors /\ wire[ConnOf(t)] # "dirty" => w # "dirty"
  PROVE  WireInv'
<1> USE DEF Suspend, Enter
<1>1. CASE op[t] \in Methods
  <2>1. UsedOK'
    BY <1>1, FrameAlone DEF WireInv, UsedOK, Pins, Live, IOPoints, IInv, TypeOK, FramesOK, FrameOf
  <2>2. RightErrors => CleanOK'
    BY <1>1, FrameAlone DEF WireInv, CleanOK, IdleIsClean, FramesClean, ObjectsClean, Exchanging,
       Pins, Live, IOPoints, IInv, TypeOK, FramesOK, FrameOf
  <2> QED
    BY <2>1, <2>2 DEF WireInv, RightErrors
<1>2. CASE op[t] \notin Methods
  <2>1. op[t] = "flush"
    BY <1>2 DEF IInv, TypeOK, FramesOK, FrameOf, Methods
  <2>2. UsedOK'
    BY <2>1, HandleOfFrame, ObjectAlone DEF WireInv, UsedOK, Pins, Live, IInv, TypeOK, FramesOK, FrameOf
  <2>3. RightErrors => CleanOK'
    BY <2>1, HandleOfFrame, ObjectAlone DEF WireInv, CleanOK, IdleIsClean, FramesClean,
       ObjectsClean, Exchanging, Pins, Live, IInv, TypeOK, FramesOK, FrameOf, IOPoints
  <2> QED
    BY <2>2, <2>3 DEF WireInv, RightErrors
<1> QED
  BY <1>1, <1>2

(* What is idle after a connection was given back.                         *)
LEMMA IdleAfterRelease ==
  ASSUME TypeOK, NEW c \in Conns, NEW brk, lease[c] = "leased", NEW d \in Conns,
         Released(c, brk)[d] = "idle"
  PROVE  IF d = c THEN ~ brk ELSE lease[d] = "idle"
BY DEF TypeOK, Released, BeforeRelease

LEMMA IdleAfterDrop ==
  ASSUME NEW x, NEW ls \in [Conns -> LeaseStates], DropClientRef(x, ls), NEW d \in Conns,
         lease'[d] = "idle"
  PROVE  ls[d] = "idle"
BY DEF DropClientRef, WithoutIdle

(* A Client method gives its connection back with w on the socket.         *)
LEMMA GiveBackWire ==
  ASSUME IInv, WireInv, NEW t \in Coroutines, NEW brk, NEW w,
         pc[t] \in IOPoints, op[t] \in Methods,
         DropClientRef(t, Released(at[t], brk)), Leave(t), UNCHANGED obj,
         wire' = [wire EXCEPT ![at[t]] = w],
         RightErrors /\ ~ brk => w = "ready"
  PROVE  WireInv'
<1> USE DEF Leave, Enter
<1>0. /\ hd'[t] = Nil
      /\ \A u \in Coroutines : u # t => hd'[u] = hd[u] /\ pc'[u] = pc[u]
  BY DEF IInv, TypeOK
<1>1. ASSUME NEW d \in Conns, lease'[d] = "idle"
      PROVE  IF d = at[t] THEN ~ brk ELSE lease[d] = "idle"
  <2>1. Released(at[t], brk) \in [Conns -> LeaseStates]
    BY ReleasedType DEF IInv, TypeOK, LeaseStates
  <2> QED
    BY <1>1, <2>1, FrameAlone, IdleAfterDrop, IdleAfterRelease DEF IInv
<1>2. UsedOK'
  BY FrameAlone, ObjectAlone DEF WireInv, UsedOK, Pins, Live, IInv, TypeOK, FramesOK, FrameOf
<1>3. ASSUME RightErrors PROVE CleanOK'
  <2>1. IdleIsClean'
    BY <1>1, <1>3, FrameAlone DEF WireInv, CleanOK, IdleIsClean, IInv, TypeOK
  <2>2. FramesClean'
    BY <1>3, FrameAlone DEF WireInv, CleanOK, FramesClean, IInv, TypeOK, IOPoints
  <2>3. ObjectsClean'
    <3>1. \A h \in Handles : Pins(h) => hd[t] # h
      BY MethodHandle
    <3>2. \A h \in Handles : Pins(h) => (Exchanging(h)' <=> Exchanging(h))
      BY <3>1, <1>0, SameExchange
    <3> QED
      BY <1>3, <3>2, FrameAlone, ObjectAlone DEF WireInv, CleanOK, ObjectsClean, Pins, Live, IInv, TypeOK
  <2> QED
    BY <2>1, <2>2, <2>3 DEF CleanOK
<1> QED
  BY <1>2, <1>3 DEF WireInv, RightErrors

(* A flush is over: its Batch keeps the connection, with w on the socket.  *)
LEMMA FlushReturnsWire ==
  ASSUME IInv, WireInv, NEW t \in Coroutines, NEW brk \in BOOLEAN, NEW left, NEW w,
         FlushReturns(t, brk, left), pc[t] # "BeginInsert" \/ brk,
         wire' = [wire EXCEPT ![ConnOf(t)] = w],
         w \in {"ready", "dirty"}, wire[ConnOf(t)] = "dirty" => w = "dirty",
         RightErrors /\ ~ brk /\ wire[ConnOf(t)] # "dirty" => w = "ready"
  PROVE  WireInv'
<1> USE DEF Leave, Enter, pool
<1>1. /\ op[t] = "flush" /\ Leave(t) /\ UNCHANGED pool
      /\ \A h \in Handles :
           /\ Live(h)' = Live(h) /\ Pins(h)' = Pins(h)
           /\ obj'[h].kind = obj[h].kind /\ obj'[h].conn = obj[h].conn
           /\ obj'[h].broken = IF h = hd[t] THEN obj[h].broken \/ brk ELSE obj[h].broken
  BY DEF FlushReturns, IInv, TypeOK, Handle, Live, Pins
<1>0. /\ hd'[t] = Nil
      /\ \A u \in Coroutines : u # t => hd'[u] = hd[u] /\ pc'[u] = pc[u]
  BY <1>1 DEF IInv, TypeOK
<1>2. UsedOK'
  BY <1>1, HandleOfFrame, ObjectAlone DEF WireInv, UsedOK, IInv, TypeOK, FramesOK, FrameOf
<1>3. ASSUME RightErrors PROVE CleanOK'
  <2>1. IdleIsClean'
    BY <1>1, <1>3, HandleOfFrame, ObjectAlone DEF WireInv, CleanOK, IdleIsClean, IInv, TypeOK
  <2>2. FramesClean'
    BY <1>1, <1>3, HandleOfFrame, ObjectAlone DEF WireInv, CleanOK, FramesClean, IInv, TypeOK
  <2>3. ObjectsClean'
    <3>1. \A h \in Handles : h # hd[t] => (Exchanging(h)' <=> Exchanging(h))
      BY <1>1, <1>0, HandleOfFrame, SameExchange
    <3>2. \A h \in Handles : Pins(h) /\ h # hd[t] => wire'[obj[h].conn] = wire[obj[h].conn]
      BY <1>1, HandleOfFrame, ObjectAlone DEF IInv, TypeOK
    <3>3. obj[hd[t]].broken \in BOOLEAN
      BY <1>1, HandleOfFrame DEF IInv, TypeOK, Handle
    <3>4. ~ obj[hd[t]].broken => wire[ConnOf(t)] # "dirty"
      BY <1>1, <1>3, HandleOfFrame DEF WireInv, CleanOK, ObjectsClean
    <3>5. /\ wire'[ConnOf(t)] \in {"ready", "dirty"}
          /\ ~ obj'[hd[t]].broken => wire'[ConnOf(t)] # "dirty"
      BY <1>1, <1>3, <3>3, <3>4, HandleOfFrame, ObjectAlone DEF IInv, TypeOK
    <3> QED
      BY <1>1, <1>3, <3>1, <3>2, <3>5, HandleOfFrame DEF WireInv, CleanOK, ObjectsClean
  <2> QED
    BY <2>1, <2>2, <2>3 DEF CleanOK
<1> QED
  BY <1>2, <1>3 DEF WireInv, RightErrors

(* A Result is finished and leaves w on the socket.                        *)
LEMMA FinishWire ==
  ASSUME IInv, WireInv, NEW t \in Coroutines, NEW h \in Owned(t), NEW brk \in BOOLEAN,
         NEW n, NEW w, obj[h].kind = "result", FinishResult(h, brk, n), Leave(t),
         op[t] \in {"none", "fetch"},
         wire' = IF Pins(h) THEN [wire EXCEPT ![obj[h].conn] = w] ELSE wire,
         RightErrors /\ ~ brk => w = "ready"
  PROVE  WireInv'
<1> USE DEF Leave, Enter
<1>0. /\ h \in Handles /\ Live(h) /\ at[t] = Nil /\ hd'[t] = Nil
      /\ \A u \in Coroutines : u # t => hd'[u] = hd[u] /\ pc'[u] = pc[u]
  BY DEF Owned, IInv, TypeOK, FramesOK, FrameOf
<1>1. /\ \A k \in Handles : k # h => obj'[k] = obj[k]
      /\ obj'[h].released /\ obj'[h].kind = "result"
      /\ lease' = IF obj[h].released THEN lease ELSE Released(obj[h].conn, brk)
  BY <1>0 DEF FinishResult, IInv, TypeOK, Handle
<1>2. ASSUME NEW d \in Conns, lease'[d] = "idle"
      PROVE  IF Pins(h) /\ d = obj[h].conn THEN ~ brk ELSE lease[d] = "idle"
  BY <1>0, <1>1, <1>2, ObjectAlone, IdleAfterRelease DEF IInv, Pins
<1>3. UsedOK'
  BY <1>0, <1>1, ObjectAlone DEF WireInv, UsedOK, IInv, TypeOK, FramesOK, FrameOf, Pins, Live
<1>4. ASSUME RightErrors PROVE CleanOK'
  <2>1. IdleIsClean'
    BY <1>0, <1>2, <1>4, ObjectAlone DEF WireInv, CleanOK, IdleIsClean, IInv, TypeOK
  <2>2. FramesClean'
    BY <1>0, <1>4, ObjectAlone DEF WireInv, CleanOK, FramesClean, IInv, TypeOK
  <2>3. ObjectsClean'
    <3>1. \A k \in Handles : k # h /\ Pins(k) /\ obj[k].kind = "batch" => hd[t] # k
      BY NoBatchInUse
    <3>2. \A k \in Handles : k # h /\ Pins(k) /\ obj[k].kind = "batch"
             => (Exchanging(k)' <=> Exchanging(k))
      BY <3>1, <1>0, SameExchange
    <3>3. \A k \in Handles : k # h /\ Pins(k) => wire'[obj[k].conn] = wire[obj[k].conn]
      BY <1>0, ObjectAlone DEF IInv, TypeOK
    <3> QED
      BY <1>0, <1>1, <1>4, <3>2, <3>3 DEF WireInv, CleanOK, ObjectsClean, Pins, Live
  <2> QED
    BY <2>1, <2>2, <2>3 DEF CleanOK
<1> QED
  BY <1>3, <1>4 DEF WireInv, RightErrors

(* acquire succeeded with slot c, which is clean if the errors are sound.  *)
LEMMA AcquiredWire ==
  ASSUME IInv, WireInv, NEW t \in Coroutines, NEW c \in Conns,
         \/ pc[t] = "acquire" /\ lease[c] = "idle"
         \/ pc[t] = "factory" /\ at[t] = c,
         Acquired(t, c), NEW w, wire' = [wire EXCEPT ![c] = w],
         RightErrors => w = "ready"
  PROVE  WireInv'
<1> USE DEF Acquired, Enter
<1>1. /\ op[t] \in Methods /\ hd[t] \in Handles \cup {Nil}
      /\ op[t] # "insert" => hd[t] \in Handles /\ ~ Live(hd[t])
      /\ \A h \in Handles : Pins(h) => obj[h].conn # c /\ hd[t] # h
      /\ \A u \in Coroutines : u # t => at[u] # c
  <2>1. op[t] \in Methods
    BY DEF IInv, TypeOK, FramesOK, FrameOf
  <2>2. /\ \A h \in Handles : Pins(h) => obj[h].conn # c
        /\ \A u \in Coroutines : u # t => at[u] # c
    <3> HIDE DEF Acquired, Enter
    <3> QED
      BY DEF IInv, TypeOK, FramesOK, FrameOf, FrameLeases, ObjectLeases
  <2> QED
    BY <2>1, <2>2, MethodHandle
<1>2. \A d \in Conns : lease'[d] = "idle" => lease[d] = "idle" /\ d # c
  BY DEF IInv, TypeOK
<1>3. CASE op[t] = "insertBatch"
  <2> USE <1>3 DEF ReturnObject, NewBatch, Leave
  <2>0. /\ \A h \in Handles : h # hd[t] => obj'[h] = obj[h]
        /\ obj'[hd[t]] = NewBatch(t, c)
        /\ \A u \in Coroutines : u # t => pc'[u] = pc[u] /\ op'[u] = op[u] /\ hd'[u] = hd[u] /\ at'[u] = at[u]
        /\ pc'[t] = "user" /\ op'[t] = "none" /\ hd'[t] = Nil /\ at'[t] = Nil
    BY <1>1 DEF IInv, TypeOK
  <2>1. UsedOK'
    BY <1>1, <2>0 DEF WireInv, UsedOK, IInv, TypeOK, FramesOK, FrameOf, ObjectsOK, Pins, Live
  <2>2. ASSUME RightErrors PROVE CleanOK'
    <3> HIDE DEF ReturnObject, Leave, Enter, Acquired
    <3>1. IdleIsClean'
      BY <1>2, <2>2 DEF WireInv, CleanOK, IdleIsClean, IInv, TypeOK
    <3>2. FramesClean'
      BY <1>1, <2>0, <2>2 DEF WireInv, CleanOK, FramesClean, IInv, TypeOK
    <3>3. wire'[c] = "ready"
      BY <2>2 DEF IInv, TypeOK
    <3>4. \A h \in Handles : Pins(h) => wire'[obj[h].conn] = wire[obj[h].conn]
      BY <1>1 DEF IInv, TypeOK, ObjectsOK, Pins
    <3>5. \A h \in Handles : Pins(h) => (Exchanging(h)' <=> Exchanging(h))
      BY <1>1, <2>0, SameExchange
    <3>6. ObjectsClean'
      BY <1>1, <2>0, <2>2, <3>3, <3>4, <3>5 DEF WireInv, CleanOK, ObjectsClean, Pins, Live
    <3> QED
      BY <3>1, <3>2, <3>6 DEF CleanOK
  <2> QED
    BY <2>1, <2>2 DEF WireInv, RightErrors
<1>4. CASE op[t] # "insertBatch"
  <2> USE <1>4
  <2>1. UsedOK'
    BY <1>1 DEF WireInv, UsedOK, IInv, TypeOK, FramesOK, FrameOf, ObjectsOK, Pins, Live
  <2>2. ASSUME RightErrors PROVE CleanOK'
    <3>1. IdleIsClean'
      BY <1>2, <2>2 DEF WireInv, CleanOK, IdleIsClean, IInv, TypeOK
    <3>2. FramesClean'
      BY <1>1, <2>2 DEF WireInv, CleanOK, FramesClean, IInv, TypeOK
    <3>3. \A h \in Handles : Pins(h) => wire'[obj[h].conn] = wire[obj[h].conn]
      BY <1>1 DEF IInv, TypeOK, ObjectsOK, Pins
    <3>4. \A h \in Handles : Pins(h) => (Exchanging(h)' <=> Exchanging(h))
      BY <1>1 DEF Exchanging, IInv, TypeOK
    <3>5. ObjectsClean'
      BY <2>2, <3>3, <3>4 DEF WireInv, CleanOK, ObjectsClean, Pins, Live
    <3> QED
      BY <3>1, <3>2, <3>5 DEF CleanOK
  <2> QED
    BY <2>1, <2>2 DEF WireInv, RightErrors
<1> QED
  BY <1>3, <1>4

(* Nothing happens on a socket: t enters or leaves a method whose object,  *)
(* if any, does not exist yet.                                             *)
LEMMA QuietWire ==
  ASSUME IInv, WireInv, NEW t \in Coroutines, NEW l, NEW m, NEW h, NEW c,
         Enter(t, l, m, h, c), UNCHANGED <<wire, obj>>, l \notin IOPoints,
         \A d \in Conns : lease'[d] = "idle" => lease[d] = "idle",
         \A k \in Handles : Pins(k) => hd[t] # k /\ h # k
  PROVE  WireInv'
<1>1. /\ pc'[t] = l /\ hd'[t] = h
      /\ \A u \in Coroutines : u # t =>
           pc'[u] = pc[u] /\ op'[u] = op[u] /\ hd'[u] = hd[u] /\ at'[u] = at[u]
  BY OthersStay DEF IInv
<1>2. l # "NextBlock" /\ l # "BeginExecute" /\ l # "BeginInsert"
  BY DEF IOPoints
<1>3. UsedOK'
  BY <1>1, <1>2 DEF WireInv, UsedOK, Pins, Live
<1>4. ASSUME RightErrors PROVE CleanOK'
  <2>1. IdleIsClean' /\ FramesClean'
    BY <1>1, <1>2, <1>4 DEF WireInv, CleanOK, IdleIsClean, FramesClean
  <2>2. ObjectsClean'
    <3>1. \A k \in Handles : Pins(k) => (Exchanging(k)' <=> Exchanging(k))
      BY <1>1, SameExchange
    <3> QED
      BY <1>4, <3>1 DEF WireInv, CleanOK, ObjectsClean, Pins, Live
  <2> QED
    BY <2>1, <2>2 DEF CleanOK
<1> QED
  BY <1>3, <1>4 DEF WireInv, RightErrors

(* Nor does anything when connections only disappear from the idle list.   *)
LEMMA IdleShrinksWire ==
  ASSUME WireInv, UNCHANGED <<wire, obj, pc, op, hd, at>>,
         \A d \in Conns : lease'[d] = "idle" => lease[d] = "idle"
  PROVE  WireInv'
BY DEF WireInv, UsedOK, CleanOK, IdleIsClean, FramesClean, ObjectsClean, Exchanging,
       RightErrors, Pins, Live

(* fetch and flush are entered: the object is in the state it was in.      *)
LEMMA EnterObjectWire ==
  ASSUME IInv, WireInv, NEW t \in Coroutines, NEW l, NEW m, NEW h,
         Enter(t, l, m, h, Nil), op[t] = "none", m # "query",
         UNCHANGED <<wire, obj, lease>>
  PROVE  WireInv'
<1>1. /\ op'[t] = m /\ at'[t] = Nil
      /\ \A u \in Coroutines : u # t =>
           pc'[u] = pc[u] /\ op'[u] = op[u] /\ hd'[u] = hd[u] /\ at'[u] = at[u]
  BY OthersStay DEF IInv
<1>2. hd[t] = Nil
  BY DEF IInv, FramesOK, FrameOf
<1>3. UsedOK'
  BY <1>1 DEF WireInv, UsedOK, Pins, Live
<1>4. ASSUME RightErrors PROVE CleanOK'
  <2>1. IdleIsClean' /\ FramesClean'
    BY <1>1, <1>4 DEF WireInv, CleanOK, IdleIsClean, FramesClean
  <2>2. ObjectsClean'
    <3>1. \A k \in Handles : Exchanging(k) => Exchanging(k)'
      BY <1>1, <1>2 DEF Exchanging
    <3> QED
      BY <1>4, <3>1 DEF WireInv, CleanOK, ObjectsClean, Pins, Live
  <2> QED
    BY <2>1, <2>2 DEF CleanOK
<1> QED
  BY <1>3, <1>4 DEF WireInv, RightErrors

(* The rows of an object change, and t may leave the fetch it was in.      *)
LEMMA RowsWire ==
  ASSUME IInv, WireInv, NEW t \in Coroutines, NEW h \in Handles, NEW n,
         obj' = [obj EXCEPT ![h].rows = n], UNCHANGED <<wire, lease>>,
         \/ UNCHANGED frame
         \/ Leave(t) /\ op[t] = "fetch"
  PROVE  WireInv'
<1>1. \A k \in Handles :
        /\ Pins(k)' <=> Pins(k)
        /\ obj'[k].kind = obj[k].kind /\ obj'[k].conn = obj[k].conn
        /\ obj'[k].broken = obj[k].broken
  BY DEF IInv, TypeOK, Handle, Pins, Live
<1>2. /\ \A u \in Coroutines : u # t =>
           pc'[u] = pc[u] /\ op'[u] = op[u] /\ hd'[u] = hd[u] /\ at'[u] = at[u]
      /\ \/ UNCHANGED <<pc, op, hd, at>>
         \/ pc'[t] = "user" /\ hd'[t] = Nil /\ at'[t] = Nil /\ op[t] = "fetch"
  BY OthersStay DEF IInv, Leave, frame
<1>3. UsedOK'
  BY <1>1, <1>2 DEF WireInv, UsedOK
<1>4. ASSUME RightErrors PROVE CleanOK'
  <2>1. IdleIsClean'
    BY <1>4 DEF WireInv, CleanOK, IdleIsClean
  <2>2. FramesClean'
    BY <1>2, <1>4 DEF WireInv, CleanOK, FramesClean
  <2>3. ObjectsClean'
    <3>1. \A k \in Handles : obj[k].kind = "batch" => (Exchanging(k)' <=> Exchanging(k))
      <4>1. CASE UNCHANGED <<pc, op, hd, at>>
        BY <4>1 DEF Exchanging
      <4>2. CASE hd'[t] = Nil /\ op[t] = "fetch"
        BY <1>2, <4>2, SameExchange, NoBatchInUse
      <4> QED
        BY <1>2, <4>1, <4>2
    <3> QED
      BY <1>1, <1>4, <3>1 DEF WireInv, CleanOK, ObjectsClean
  <2> QED
    BY <2>1, <2>2, <2>3 DEF CleanOK
<1> QED
  BY <1>3, <1>4 DEF WireInv, RightErrors

(* query returns a Result that keeps its connection, or one that is done.  *)
LEMMA ReturnResultWire ==
  ASSUME IInv, WireInv, NEW t \in Coroutines, NEW n, NEW finished \in BOOLEAN, NEW w,
         pc[t] = "NextBlock", op[t] = "query",
         ReturnObject(t, NewResult(t, at[t], n, finished)),
         wire' = [wire EXCEPT ![at[t]] = w],
         lease' = IF finished THEN Released(at[t], FALSE) ELSE lease,
         ~ finished => w = wire[at[t]],
         RightErrors /\ finished => w = "ready"
  PROVE  WireInv'
<1> USE DEF ReturnObject, Leave
<1>1. /\ op[t] \in Methods /\ pc[t] \in IOPoints /\ op[t] # "insert"
      /\ hd[t] \in Handles /\ ~ Live(hd[t])
  BY MethodHandle DEF Methods, IOPoints
<1>2. /\ pc'[t] = "user" /\ op'[t] = "none" /\ hd'[t] = Nil /\ at'[t] = Nil
      /\ \A u \in Coroutines : u # t =>
           pc'[u] = pc[u] /\ op'[u] = op[u] /\ hd'[u] = hd[u] /\ at'[u] = at[u]
  BY OthersStay DEF IInv
<1> PICK h \in Handles : h = hd[t]
  BY <1>1
<1>3. /\ \A k \in Handles : k # h => obj'[k] = obj[k]
      /\ obj'[h] = NewResult(t, at[t], n, finished)
  BY <1>1 DEF IInv, TypeOK
<1>4. /\ obj'[h].kind = "result" /\ obj'[h].conn = at[t]
      /\ obj'[h].broken = FALSE /\ (Pins(h)' <=> ~ finished)
  BY <1>3 DEF NewResult, Pins, Live
<1>5. \A d \in Conns : lease'[d] = "idle" =>
        IF d = at[t] THEN finished ELSE lease[d] = "idle"
  <2>1. at[t] \in Conns /\ lease[at[t]] = "leased"
    BY <1>1, FrameAlone
  <2>2. CASE finished
    BY <2>1, <2>2 DEF Released, BeforeRelease, IInv, TypeOK
  <2>3. CASE ~ finished
    BY <2>1, <2>3
  <2> QED
    BY <2>2, <2>3
<1>6. /\ at[t] \in Conns /\ wire'[at[t]] = w
      /\ \A d \in Conns : d # at[t] => wire'[d] = wire[d]
  BY <1>1, FrameAlone DEF IInv, TypeOK
<1>7. UsedOK'
  <2>1. \A u \in Coroutines : pc'[u] = "NextBlock" /\ op'[u] = "query" => wire'[at'[u]] # "ready"
    <3> SUFFICES ASSUME NEW u \in Coroutines, pc'[u] = "NextBlock", op'[u] = "query"
                 PROVE  wire'[at'[u]] # "ready"
      OBVIOUS
    <3>1. u # t /\ at'[u] = at[u] /\ pc[u] = "NextBlock" /\ op[u] = "query"
      BY <1>2
    <3>2. at[u] \in Conns /\ at[u] # at[t]
      BY <1>1, <3>1, FrameAlone DEF IOPoints, Methods
    <3> QED
      BY <1>6, <3>1, <3>2 DEF WireInv, UsedOK
  <2>2. ASSUME NEW k \in Handles, Pins(k)', obj'[k].kind = "result"
        PROVE  wire'[obj'[k].conn] # "ready" /\ ~ obj'[k].broken
    <3>1. CASE k = h
      BY <1>4, <1>6, <2>2, <3>1 DEF WireInv, UsedOK
    <3>2. CASE k # h
      <4>1. Pins(k) /\ obj'[k] = obj[k]
        BY <1>3, <2>2, <3>2 DEF Pins, Live
      <4>2. obj[k].conn \in Conns /\ obj[k].conn # at[t]
        BY <1>1, <4>1, FrameAlone, ObjectAlone
      <4> QED
        BY <1>6, <2>2, <4>1, <4>2 DEF WireInv, UsedOK
    <3> QED
      BY <3>1, <3>2
  <2> QED
    BY <2>1, <2>2 DEF UsedOK
<1>8. ASSUME RightErrors PROVE CleanOK'
  <2>1. IdleIsClean'
    BY <1>5, <1>6, <1>8 DEF WireInv, CleanOK, IdleIsClean
  <2>2. FramesClean'
    <3> SUFFICES ASSUME NEW u \in Coroutines, at'[u] # Nil
                 PROVE  /\ pc'[u] \in {"BeginExecute", "BeginInsert"} => wire'[at'[u]] = "ready"
                        /\ pc'[u] \in IOPoints => wire'[at'[u]] # "dirty"
      BY DEF FramesClean
    <3>1. u # t /\ at'[u] = at[u] /\ pc'[u] = pc[u] /\ at[u] \in Conns /\ at[u] # at[t]
      BY <1>1, <1>2, FrameAlone DEF IInv, TypeOK
    <3> QED
      BY <1>6, <1>8, <3>1 DEF WireInv, CleanOK, FramesClean
  <2>3. ObjectsClean'
    <3> SUFFICES ASSUME NEW k \in Handles, Pins(k)'
                 PROVE  /\ ~ obj'[k].broken => wire'[obj'[k].conn] # "dirty"
                        /\ obj'[k].kind = "batch" /\ ~ Exchanging(k)'
                             => wire'[obj'[k].conn] \in {"ready", "dirty"}
      BY DEF ObjectsClean
    <3>1. CASE k = h
      <4>1. wire[at[t]] # "dirty" /\ ~ finished
        BY <1>1, <1>4, <1>8, <3>1, FrameAlone DEF WireInv, CleanOK, FramesClean
      <4> QED
        BY <1>4, <1>6, <3>1, <4>1
    <3>2. CASE k # h
      <4>1. Pins(k) /\ obj'[k] = obj[k]
        BY <1>3, <3>2 DEF Pins, Live
      <4>2. obj[k].conn \in Conns /\ obj[k].conn # at[t]
        BY <1>1, <4>1, FrameAlone, ObjectAlone
      <4>3. Exchanging(k)' <=> Exchanging(k)
        BY <1>2, <3>2, SameExchange
      <4> QED
        BY <1>6, <1>8, <4>1, <4>2, <4>3 DEF WireInv, CleanOK, ObjectsClean
    <3> QED
      BY <3>1, <3>2
  <2> QED
    BY <2>1, <2>2, <2>3 DEF CleanOK
<1> QED
  BY <1>7, <1>8 DEF WireInv, RightErrors

-----------------------------------------------------------------------------
(* The handlers                                                            *)

LEMMA InitWire == Init => WireInv
BY DEF Init, WireInv, UsedOK, CleanOK, IdleIsClean, FramesClean, ObjectsClean,
       Pins, Live, NoObject

LEMMA CallWire ==
  ASSUME IInv, WireInv, NEW t \in Coroutines, NEW m \in Methods,
         NEW h \in Handles \cup {Nil}, Call(t, m, h)
  PROVE  WireInv'
<1>1. \A k \in Handles : Pins(k) => hd[t] # k /\ h # k
  BY DEF Call, Free, Pins, Live, IInv, FramesOK, FrameOf
<1> QED
  BY <1>1, QuietWire DEF Call, IOPoints

LEMMA AcquireWire ==
  ASSUME IInv, WireInv, NEW t \in Coroutines, Acquire(t) \/ AcquireCancelled(t)
  PROVE  WireInv'
<1>1. ASSUME NEW c \in Conns, AcquireIdle(t, c) PROVE WireInv'
  <2>1. wire' = [wire EXCEPT ![c] = wire[c]] /\ (RightErrors => wire[c] = "ready")
    BY <1>1 DEF AcquireIdle, WireInv, CleanOK, IdleIsClean, IInv, TypeOK
  <2> QED
    BY <1>1, <2>1, AcquiredWire DEF AcquireIdle
<1>2. pc[t] = "acquire" => op[t] \in Methods
  BY DEF IInv, FramesOK, FrameOf
<1>3. ASSUME NEW c \in Conns, AcquireOpen(t, c) PROVE WireInv'
  <2>1. \A d \in Conns : lease'[d] = "idle" => lease[d] = "idle"
    BY <1>3 DEF AcquireOpen, IInv, TypeOK
  <2> QED
    BY <1>2, <1>3, <2>1, MethodHandle, QuietWire DEF AcquireOpen, IOPoints
<1>4. ASSUME pc[t] = "acquire", AcquireThrows(t) PROVE WireInv'
  <2>1. \A d \in Conns : lease'[d] = "idle" => lease[d] = "idle"
    BY <1>4, IdleAfterDrop DEF AcquireThrows, IInv, TypeOK, LeaseStates
  <2> QED
    BY <1>2, <1>4, <2>1, MethodHandle, QuietWire DEF AcquireThrows, Leave, IOPoints
<1> QED
  BY <1>1, <1>3, <1>4 DEF Acquire, AcquireClosed, AcquireCancelled

LEMMA OpenWire ==
  ASSUME IInv, WireInv, NEW t \in Coroutines, OpenOk(t) \/ OpenFails(t)
  PROVE  WireInv'
<1>1. pc[t] = "factory" /\ op[t] \in Methods /\ at[t] \in Conns
  BY DEF OpenOk, OpenFails, IInv, TypeOK, FramesOK, FrameOf, Methods
<1>2. CASE OpenOk(t)
  BY <1>1, <1>2, AcquiredWire DEF OpenOk, SetWire
<1>3. CASE OpenFails(t)
  <2>1. [lease EXCEPT ![at[t]] = "absent"] \in [Conns -> LeaseStates]
    BY DEF IInv, TypeOK, LeaseStates
  <2>2. \A d \in Conns : lease'[d] = "idle" => lease[d] = "idle"
    <3> SUFFICES ASSUME NEW d \in Conns, lease'[d] = "idle" PROVE lease[d] = "idle"
      OBVIOUS
    <3>1. [lease EXCEPT ![at[t]] = "absent"][d] = "idle"
      BY <1>3, <2>1, IdleAfterDrop DEF OpenFails
    <3> QED
      BY <1>1, <3>1 DEF IInv, TypeOK
  <2> QED
    BY <1>1, <1>3, <2>2, MethodHandle, QuietWire DEF OpenFails, Leave, IOPoints
<1> QED
  BY <1>2, <1>3

(* What is on the socket after an exchange went on, or ended.              *)
LEMMA WireAfterExchange ==
  ASSUME NEW c, NEW e \in ReadErrors, wire[c] # "ready" \/ wire[c] = "ready"
  PROVE  /\ wire[c] = "dirty" => Sent(c, "query") = "dirty" /\ Sent(c, "insert") = "dirty"
         /\ Poisons(e) => WireAfter(e, wire[c]) = "dirty"
         /\ wire[c] = "dirty" => WireAfter(e, wire[c]) = "dirty"
         /\ RightErrors /\ ~ Poisons(e) /\ wire[c] # "dirty" => WireAfter(e, wire[c]) = "ready"
BY DEF Sent, WireAfter, Poisons, RightErrors

LEMMA QueryStepWire ==
  ASSUME IInv, WireInv, NEW t \in Coroutines, QueryStep(t)
  PROVE  WireInv'
<1>1. CASE QueryBegin(t)
  <2>1. op[t] = "query"
    BY <1>1 DEF QueryBegin, IInv, FramesOK, FrameOf
  <2>2. ConnOf(t) = at[t] /\ at[t] # Nil /\ at[t] \in Conns
    BY <1>1, <2>1, FrameAlone DEF QueryBegin, Methods, IOPoints
  <2>3. Sent(at[t], "query") # "ready"
    BY DEF Sent
  <2>4. /\ wire[at[t]] = "dirty" => Sent(at[t], "query") = "dirty"
        /\ RightErrors => Sent(at[t], "query") # "dirty"
    BY <1>1, <2>2 DEF QueryBegin, Sent, WireInv, CleanOK, FramesClean
  <2> QED
    BY <1>1, <2>2, <2>3, <2>4, SuspendWire DEF QueryBegin, SetWire, pool
<1>2. ASSUME NEW n \in 1 .. MaxRows, QueryBlock(t, n) PROVE WireInv'
  <2>1. wire' = [wire EXCEPT ![at[t]] = wire[at[t]]]
    BY <1>2 DEF QueryBlock, IInv, TypeOK
  <2> QED
    BY <1>2, <2>1, ReturnResultWire DEF QueryBlock
<1>3. CASE QueryNoRows(t)
  <2>1. at[t] \in Conns /\ at[t] # Nil
    BY <1>3, FrameAlone DEF QueryNoRows, Methods, IOPoints
  <2>2. RightErrors => wire[at[t]] # "dirty"
    BY <1>3, <2>1 DEF QueryNoRows, WireInv, CleanOK, FramesClean, IOPoints
  <2> QED
    BY <1>3, <2>2, ReturnResultWire DEF QueryNoRows, StreamEnd, SetWire
<1>4. ASSUME NEW e \in ReadErrors, QueryFails(t, e) PROVE WireInv'
  <2>1. op[t] \in Methods /\ pc[t] \in IOPoints
    BY <1>4 DEF QueryFails, Methods, IOPoints
  <2>2. at[t] \in Conns /\ at[t] # Nil
    BY <2>1, FrameAlone
  <2>3. RightErrors => wire[at[t]] # "dirty"
    BY <2>1, <2>2 DEF WireInv, CleanOK, FramesClean
  <2>4. RightErrors /\ ~ Poisons(e) => WireAfter(e, wire[at[t]]) = "ready"
    BY <2>3, WireAfterExchange
  <2> QED
    BY <1>4, <2>1, <2>4, GiveBackWire DEF QueryFails, SetWire
<1> QED
  BY <1>1, <1>2, <1>3, <1>4 DEF QueryStep

LEMMA PullStepWire ==
  ASSUME IInv, WireInv, NEW t \in Coroutines, PullStep(t)
  PROVE  WireInv'
<1>1. /\ op[t] = "fetch" /\ hd[t] \in Owned(t) /\ obj[hd[t]].kind = "result"
      /\ hd[t] \in Handles /\ Pins(hd[t]) /\ ConnOf(t) = obj[hd[t]].conn
  BY HandleOfFrame DEF PullStep, PullEnd, PullFails, PullBlock, Pulling, IInv, TypeOK, FramesOK,
     HandleOf, Owned, Pins
<1>2. RightErrors => wire[ConnOf(t)] # "dirty"
  BY <1>1 DEF WireInv, UsedOK, CleanOK, ObjectsClean
<1>3. CASE PullEnd(t)
  <2>1. PICK w : wire' = [wire EXCEPT ![ConnOf(t)] = w] /\ (RightErrors => w = "ready")
    BY <1>2, <1>3 DEF PullEnd, StreamEnd, SetWire
  <2> QED
    BY <1>1, <1>3, <2>1, FinishWire DEF PullEnd
<1>4. ASSUME NEW e \in ReadErrors, PullFails(t, e) PROVE WireInv'
  <2>1. Poisons(e) \in BOOLEAN
    BY DEF Poisons
  <2>2. RightErrors /\ ~ Poisons(e) => WireAfter(e, wire[ConnOf(t)]) = "ready"
    BY <1>2, WireAfterExchange
  <2> QED
    BY <1>1, <1>4, <2>1, <2>2, FinishWire DEF PullFails, SetWire
<1>5. ASSUME NEW n \in 1 .. MaxRows, PullBlock(t, n) PROVE WireInv'
  BY <1>1, <1>5, RowsWire DEF PullBlock, pool
<1> QED
  BY <1>3, <1>4, <1>5 DEF PullStep

LEMMA DecodeFailsWire ==
  ASSUME IInv, WireInv, NEW t \in Coroutines, NEW h \in Handles,
         NEW n \in 1 .. MaxRows, NEW e \in DecodeErrors, DecodeFails(t, h, n, e)
  PROVE  WireInv'
<1>1. h \in Owned(t) /\ obj[h].kind = "result" /\ op[t] \in {"none", "fetch"}
  BY HandleOfFrame DEF DecodeFails, OwnResult, Pulling, IInv, FramesOK, FrameOf, HandleOf,
     Owned, Pins
<1>2. Poisons(e) \in BOOLEAN
  BY DEF Poisons
<1>3. RightErrors => Poisons(e)
  BY DEF RightErrors
<1>4. PICK w : wire' = IF Pins(h) THEN [wire EXCEPT ![obj[h].conn] = w] ELSE wire
  <2>1. wire' = [wire EXCEPT ![obj[h].conn] = wire[obj[h].conn]]
    BY DEF DecodeFails, IInv, TypeOK
  <2>2. wire' = wire
    BY DEF DecodeFails
  <2> QED
    BY <2>1, <2>2
<1> QED
  BY <1>1, <1>2, <1>3, <1>4, FinishWire DEF DecodeFails

(* An insert begins on a socket that is clean or was out of step before.   *)
LEMMA InsertBeginsClean ==
  ASSUME IInv, WireInv, RightErrors, NEW t \in Coroutines, pc[t] = "BeginInsert"
  PROVE  wire[ConnOf(t)] \in {"ready", "dirty"}
<1>1. op[t] \in {"insert", "flush"}
  BY DEF IInv, FramesOK, FrameOf
<1>2. CASE op[t] = "insert"
  BY <1>2, FrameAlone DEF Methods, IOPoints, WireInv, CleanOK, FramesClean
<1>3. CASE op[t] = "flush"
  <2>1. /\ hd[t] \in Handles /\ Pins(hd[t]) /\ ConnOf(t) = obj[hd[t]].conn
        /\ obj[hd[t]].kind = "batch" /\ ~ Exchanging(hd[t])
    BY <1>3, HandleOfFrame DEF Exchanging
  <2> QED
    BY <2>1 DEF WireInv, UsedOK, CleanOK, ObjectsClean
<1> QED
  BY <1>1, <1>2, <1>3

(* insert or flush ends, with w on the socket.                             *)
LEMMA InsertEndsWire ==
  ASSUME IInv, WireInv, NEW t \in Coroutines, NEW brk \in BOOLEAN, NEW left, NEW w,
         pc[t] \in IOPoints, pc[t] # "BeginInsert" \/ brk,
         InsertReturns(t, brk) \/ FlushReturns(t, brk, left),
         wire' = [wire EXCEPT ![ConnOf(t)] = w],
         w \in {"ready", "dirty"}, wire[ConnOf(t)] = "dirty" => w = "dirty",
         RightErrors /\ ~ brk /\ wire[ConnOf(t)] # "dirty" => w = "ready"
  PROVE  WireInv'
<1>1. CASE InsertReturns(t, brk)
  <2>1. op[t] \in Methods
    BY <1>1 DEF InsertReturns, Methods
  <2>2. ConnOf(t) = at[t] /\ (RightErrors => wire[at[t]] # "dirty")
    BY <2>1, FrameAlone DEF WireInv, CleanOK, FramesClean
  <2> QED
    BY <1>1, <2>1, <2>2, GiveBackWire DEF InsertReturns
<1>2. CASE FlushReturns(t, brk, left)
  BY <1>2, FlushReturnsWire
<1> QED
  BY <1>1, <1>2

LEMMA InsertStepWire ==
  ASSUME IInv, WireInv, NEW t \in Coroutines, InsertStep(t)
  PROVE  WireInv'
<1>1. ASSUME NEW l \in {"SendInsertBlock", "closeInsert"}, InsertBegun(t, l)
      PROVE  WireInv'
  <2>1. /\ wire[ConnOf(t)] = "dirty" => Sent(ConnOf(t), "insert") = "dirty"
        /\ RightErrors /\ wire[ConnOf(t)] # "dirty" => Sent(ConnOf(t), "insert") # "dirty"
    BY <1>1, InsertBeginsClean DEF InsertBegun, Sent
  <2> QED
    BY <1>1, <2>1, SuspendWire DEF InsertBegun, SetWire, pool
<1>2. CASE SendOk(t)
  <2>1. wire' = [wire EXCEPT ![ConnOf(t)] = wire[ConnOf(t)]]
    BY <1>2 DEF SendOk, IInv, TypeOK
  <2> QED
    BY <1>2, <2>1, SuspendWire DEF SendOk, pool
<1>3. ASSUME StreamEnd(ConnOf(t))
      PROVE  \E w : /\ wire' = [wire EXCEPT ![ConnOf(t)] = w]
                    /\ w = IF wire[ConnOf(t)] = "dirty" THEN "dirty" ELSE "ready"
  BY <1>3 DEF StreamEnd, SetWire
<1>4. CASE EndOk(t)
  <2>1. pc[t] = "EndInsert" /\ pc[t] \in IOPoints
    BY <1>4 DEF EndOk, IOPoints
  <2>2. PICK w : /\ wire' = [wire EXCEPT ![ConnOf(t)] = w]
                 /\ w = IF wire[ConnOf(t)] = "dirty" THEN "dirty" ELSE "ready"
    BY <1>3, <1>4 DEF EndOk
  <2>3. InsertReturns(t, FALSE) \/ FlushReturns(t, FALSE, 0)
    BY <1>4 DEF EndOk
  <2> QED
    BY <2>1, <2>2, <2>3, InsertEndsWire
<1>5. ASSUME NEW e \in ReadErrors, SendBlockFails(t, e) PROVE WireInv'
  <2>1. /\ wire' = [wire EXCEPT ![ConnOf(t)] = WireAfter(e, wire[ConnOf(t)])]
        /\ pc[t] \in {"BeginInsert", "SendInsertBlock", "EndInsert"}
    BY <1>5 DEF SendBlockFails, SetWire
  <2>2. CASE Poisons(e)
    <3>1. WireAfter(e, wire[ConnOf(t)]) = "dirty"
      BY <2>2, WireAfterExchange
    <3>2. InsertReturns(t, TRUE) \/ FlushReturns(t, TRUE, obj[hd[t]].rows)
      BY <1>5, <2>2 DEF SendBlockFails, InsertThrows
    <3>3. pc[t] \in IOPoints
      BY <2>1 DEF IOPoints
    <3> QED
      BY <2>1, <3>1, <3>2, <3>3, InsertEndsWire
  <2>3. CASE ~ Poisons(e)
    <3>1. /\ wire[ConnOf(t)] = "dirty" => WireAfter(e, wire[ConnOf(t)]) = "dirty"
          /\ RightErrors /\ wire[ConnOf(t)] # "dirty" => WireAfter(e, wire[ConnOf(t)]) # "dirty"
      BY <2>3, WireAfterExchange
    <3>2. Suspend(t, "closeInsert") /\ UNCHANGED <<lease, obj>>
      BY <1>5, <2>3 DEF SendBlockFails, pool
    <3> QED
      BY <2>1, <3>1, <3>2, SuspendWire
  <2> QED
    BY <2>2, <2>3
<1>6. CASE CloseOk(t)
  <2>1. pc[t] = "closeInsert" /\ pc[t] \in IOPoints
    BY <1>6 DEF CloseOk, IOPoints
  <2>2. PICK w : /\ wire' = [wire EXCEPT ![ConnOf(t)] = w]
                 /\ w = IF wire[ConnOf(t)] = "dirty" THEN "dirty" ELSE "ready"
    BY <1>3, <1>6 DEF CloseOk
  <2>3. InsertReturns(t, FALSE) \/ FlushReturns(t, FALSE, obj[hd[t]].rows)
    BY <1>6 DEF CloseOk, InsertThrows
  <2> QED
    BY <2>1, <2>2, <2>3, InsertEndsWire
<1>7. ASSUME NEW e \in ReadErrors, CloseFails(t, e) PROVE WireInv'
  <2>1. pc[t] = "closeInsert" /\ pc[t] \in IOPoints
    BY <1>7 DEF CloseFails, IOPoints
  <2>2. PICK w : /\ wire' = [wire EXCEPT ![ConnOf(t)] = w]
                 /\ w \in {"ready", "dirty"} /\ (wire[ConnOf(t)] = "dirty" => w = "dirty")
    BY <1>7 DEF CloseFails, SetWire, WireAfter
  <2>3. InsertReturns(t, TRUE) \/ FlushReturns(t, TRUE, obj[hd[t]].rows)
    BY <1>7 DEF CloseFails, InsertThrows
  <2> QED
    BY <2>1, <2>2, <2>3, InsertEndsWire
<1> QED
  BY <1>1, <1>2, <1>4, <1>5, <1>6, <1>7 DEF InsertStep, BeginInsertOk, BuildFails

(* A destructor gives back only what Abandoned lets it.                    *)
LEMMA DestroyedIsRead ==
  ASSUME IInv, WireInv, NEW t \in Coroutines, NEW h \in Owned(t), pc[t] = "user", Pins(h)
  PROVE  /\ Abandoned(h) => obj[h].broken \/ wire[obj[h].conn] # "ready"
         /\ RightErrors /\ ~ Abandoned(h) => wire[obj[h].conn] = "ready"
<1>1. h \in Handles /\ Live(h) /\ obj[h].owner = t /\ ~ obj[h].released
  BY DEF Owned, Pins
<1>2. obj[h].kind \in {"result", "batch"} /\ obj[h].done \in BOOLEAN /\ obj[h].broken \in BOOLEAN
  BY <1>1 DEF IInv, TypeOK, Handle, Live
<1>3. CASE obj[h].kind = "result"
  <2>1. ~ obj[h].done
    BY <1>1, <1>3 DEF IInv, ObjectsOK
  <2> QED
    BY <1>1, <1>3, <2>1 DEF Abandoned, WireInv, UsedOK
<1>4. CASE obj[h].kind = "batch"
  <2>1. ~ Exchanging(h)
    <3> SUFFICES ASSUME NEW u \in Coroutines, hd[u] = h PROVE FALSE
      BY DEF Exchanging
    <3>1. op[u] \in {"fetch", "flush"}
      BY <1>1, MethodHandle DEF IInv, TypeOK, FramesOK, FrameOf
    <3>2. u = t
      BY <1>1, <3>1 DEF IInv, FramesOK, HandleOf
    <3> QED
      BY <3>1, <3>2 DEF IInv, FramesOK, FrameOf
  <2> QED
    BY <1>1, <1>2, <1>4, <2>1 DEF Abandoned, WireInv, UsedOK, CleanOK, ObjectsClean
<1> QED
  BY <1>2, <1>3, <1>4

LEMMA DestroyWire ==
  ASSUME IInv, WireInv, NEW t \in Coroutines, NEW h \in Handles, Destroy(t, h)
  PROVE  WireInv'
<1>1. /\ h \in Owned(t) /\ pc[t] = "user" /\ UNCHANGED <<wire, pc, op, hd, at>>
      /\ \A k \in Handles : k # h => obj'[k] = obj[k]
      /\ ~ Pins(h)'
  BY DEF Destroy, frame, NoObject, IInv, TypeOK, Pins, Live
<1>2. ASSUME NEW d \in Conns, lease'[d] = "idle"
      PROVE  IF Pins(h) /\ d = obj[h].conn THEN ~ Abandoned(h) ELSE lease[d] = "idle"
  <2> DEFINE ls == IF Pins(h) THEN Released(obj[h].conn, Abandoned(h)) ELSE lease
  <2>1. ls \in [Conns -> LeaseStates]
    BY ReleasedType DEF IInv, TypeOK, LeaseStates
  <2>2. ls[d] = "idle"
    <3> HIDE DEF ls
    <3> QED
      BY <1>2, <2>1, IdleAfterDrop DEF Destroy, ls
  <2> QED
    BY <2>2, ObjectAlone, IdleAfterRelease DEF IInv
<1>3. UsedOK'
  BY <1>1 DEF WireInv, UsedOK, Pins, Live
<1>4. ASSUME RightErrors PROVE CleanOK'
  <2>1. IdleIsClean'
    BY <1>1, <1>2, <1>4, DestroyedIsRead DEF WireInv, CleanOK, IdleIsClean
  <2>2. FramesClean' /\ ObjectsClean'
    BY <1>1, <1>4 DEF WireInv, CleanOK, FramesClean, ObjectsClean, Exchanging, Pins, Live
  <2> QED
    BY <2>1, <2>2 DEF CleanOK
<1> QED
  BY <1>3, <1>4 DEF WireInv, RightErrors

LEMMA UseHandleWire ==
  ASSUME IInv, WireInv, NEW t \in Coroutines, NEW h \in Handles, UseHandle(t, h)
  PROVE  WireInv'
<1>1. ASSUME FetchRow(t, h) \/ Append(t, h) PROVE WireInv'
  <2>1. PICK n : obj' = [obj EXCEPT ![h].rows = n]
    BY <1>1 DEF FetchRow, Append
  <2> QED
    BY <1>1, <2>1, RowsWire DEF FetchRow, Append, pool
<1>2. ASSUME Pull(t, h) \/ Flush(t, h) PROVE WireInv'
  <2>1. op[t] = "none"
    BY <1>2 DEF Pull, Flush, OwnResult, OwnBatch, IInv, FramesOK, FrameOf
  <2> QED
    BY <1>2, <2>1, EnterObjectWire DEF Pull, Flush, pool
<1> QED
  BY <1>1, <1>2, DestroyWire, DecodeFailsWire DEF UseHandle

LEMMA ClientGoesWire ==
  ASSUME IInv, WireInv, DropClient \/ UserClosePool \/ UNCHANGED vars
  PROVE  WireInv'
<1>1. CASE DropClient
  <2>1. \A d \in Conns : lease'[d] = "idle" => lease[d] = "idle"
    BY <1>1, IdleAfterDrop DEF DropClient, IInv, TypeOK, LeaseStates
  <2> QED
    BY <1>1, <2>1, IdleShrinksWire DEF DropClient, frame
<1>2. CASE UserClosePool
  <2>1. \A d \in Conns : lease'[d] = "idle" => lease[d] = "idle"
    BY <1>2 DEF UserClosePool, WithoutIdle
  <2> QED
    BY <1>2, <2>1, IdleShrinksWire DEF UserClosePool, frame
<1>3. CASE UNCHANGED vars
  BY <1>3, IdleShrinksWire DEF vars
<1> QED
  BY <1>1, <1>2, <1>3

LEMMA NextWire ==
  ASSUME IInv, WireInv, [Next]_vars
  PROVE  WireInv'
<1>1. ASSUME NEW t \in Coroutines, Resume(t) PROVE WireInv'
  BY <1>1, OpenWire, QueryStepWire, PullStepWire, InsertStepWire DEF Resume
<1> QED
  BY <1>1, CallWire, AcquireWire, UseHandleWire, ClientGoesWire DEF Next, Terminated

-----------------------------------------------------------------------------
(* What the pool loses                                                     *)

(* Connection c is destroyed as it comes back to an open pool.             *)
Dropped(c) ==
  /\ lease[c] = "leased" /\ lease'[c] = "absent"
  /\ poolState = "open" /\ poolState' = "open"

(* The release that drops c is the release of c as broken.                 *)
LEMMA DroppedByRelease ==
  ASSUME TypeOK, NEW c \in Conns, Dropped(c), NEW d, NEW brk,
         \/ lease' = Released(d, brk)
         \/ \E x : DropClientRef(x, Released(d, brk))
  PROVE  c = d /\ brk
<1>1. lease' = Released(d, brk)
  BY DEF DropClientRef, Dropped
<1> QED
  BY <1>1 DEF Dropped, Released, BeforeRelease, TypeOK

(* Letting go of the Client alone drops nothing from an open pool.         *)
LEMMA DropClientRefKeeps ==
  ASSUME NEW c \in Conns, Dropped(c), NEW x, NEW ls, DropClientRef(x, ls)
  PROVE  ls[c] = "absent"
BY DEF DropClientRef, Dropped

LEMMA FrameDrops ==
  ASSUME IInv, WireInv, NEW t \in Coroutines, NEW c \in Conns, Dropped(c),
         \/ Acquire(t) \/ AcquireCancelled(t) \/ OpenOk(t) \/ OpenFails(t)
         \/ QueryStep(t)
  PROVE  wire'[c] # "ready"
<1>1. ~ (OpenOk(t) \/ \E d \in Conns : AcquireIdle(t, d) \/ AcquireOpen(t, d))
  BY DEF OpenOk, AcquireIdle, AcquireOpen, Acquired, Dropped, IInv, TypeOK
<1>2. ~ AcquireThrows(t)
  BY DropClientRefKeeps DEF AcquireThrows, Dropped
<1>3. ~ OpenFails(t)
  <2> SUFFICES ASSUME OpenFails(t) PROVE FALSE
    OBVIOUS
  <2>1. [lease EXCEPT ![at[t]] = "absent"][c] = "absent"
    BY DropClientRefKeeps DEF OpenFails
  <2>2. at[t] = c
    BY <2>1 DEF Dropped, IInv, TypeOK
  <2> QED
    BY <2>2 DEF OpenFails, Dropped, IInv, FrameLeases
<1>4. ~ QueryNoRows(t)
  BY DroppedByRelease DEF QueryNoRows, IInv
<1>5. ~ (QueryBegin(t) \/ \E n \in 1 .. MaxRows : QueryBlock(t, n))
  BY DEF QueryBegin, QueryBlock, pool, Dropped
<1>6. ASSUME NEW e \in ReadErrors, QueryFails(t, e) PROVE wire'[c] # "ready"
  <2>1. c = at[t] /\ Poisons(e)
    BY <1>6, DroppedByRelease DEF QueryFails, IInv
  <2> QED
    BY <1>6, <2>1, WireAfterExchange DEF QueryFails, SetWire, IInv, TypeOK
<1> QED
  BY <1>1, <1>2, <1>3, <1>4, <1>5, <1>6 DEF Acquire, AcquireClosed, AcquireCancelled, QueryStep

LEMMA InsertDrops ==
  ASSUME IInv, WireInv, NEW t \in Coroutines, NEW c \in Conns, Dropped(c), InsertStep(t)
  PROVE  wire'[c] # "ready" \/ Closing(c)
<1>1. ASSUME NEW brk, InsertReturns(t, brk) \/ (\E left : FlushReturns(t, brk, left))
      PROVE  brk /\ c = at[t] /\ c = ConnOf(t)
  <2>1. ~ \E left : FlushReturns(t, brk, left)
    BY DEF FlushReturns, pool, Dropped
  <2>2. op[t] = "insert" /\ DropClientRef(t, Released(at[t], brk))
    BY <1>1, <2>1 DEF InsertReturns
  <2>3. TypeOK
    BY DEF IInv
  <2>4. c = at[t] /\ brk
    BY <2>2, <2>3, DroppedByRelease
  <2> QED
    BY <2>2, <2>4 DEF ConnOf
<1>2. ASSUME NEW l, Suspend(t, l) /\ UNCHANGED pool PROVE FALSE
  BY <1>2 DEF pool, Dropped
<1>3. ~ (EndOk(t) \/ CloseOk(t))
  BY <1>1 DEF EndOk, CloseOk, InsertThrows
<1>4. ~ (BeginInsertOk(t) \/ BuildFails(t) \/ SendOk(t))
  BY <1>2 DEF BeginInsertOk, BuildFails, SendOk, InsertBegun, pool
<1>5. ASSUME NEW e \in ReadErrors, CloseFails(t, e) PROVE Closing(c)
  BY <1>1, <1>5 DEF CloseFails, InsertThrows, Closing
<1>6. ASSUME NEW e \in ReadErrors, SendBlockFails(t, e) PROVE wire'[c] # "ready"
  <2>1. Poisons(e) /\ c = ConnOf(t)
    BY <1>1, <1>2, <1>6 DEF SendBlockFails, InsertThrows
  <2> QED
    BY <1>6, <2>1, WireAfterExchange DEF SendBlockFails, SetWire, IInv, TypeOK
<1> QED
  BY <1>3, <1>4, <1>5, <1>6 DEF InsertStep

LEMMA ResultDrops ==
  ASSUME IInv, WireInv, NEW t \in Coroutines, NEW c \in Conns, Dropped(c),
         ~ MarkedBroken(c), PullStep(t) \/ \E h \in Handles : UseHandle(t, h)
  PROVE  wire'[c] # "ready"
<1>1. ASSUME NEW h, NEW brk, NEW n, FinishResult(h, brk, n)
      PROVE  brk /\ c = obj[h].conn /\ ~ obj[h].released
  <2>1. lease' # lease
    BY DEF Dropped
  <2> QED
    BY <1>1, <2>1, DroppedByRelease DEF FinishResult, IInv
<1>2. Pulling(t) => hd[t] \in Handles /\ ConnOf(t) = obj[hd[t]].conn
  BY HandleOfFrame DEF Pulling
<1>3. ~ PullEnd(t)
  BY <1>1 DEF PullEnd
<1>4. ASSUME NEW e \in ReadErrors, PullFails(t, e) PROVE wire'[c] # "ready"
  <2>1. Poisons(e) /\ c = ConnOf(t)
    BY <1>1, <1>2, <1>4 DEF PullFails
  <2> QED
    BY <1>4, <2>1, WireAfterExchange DEF PullFails, SetWire, IInv, TypeOK
<1>5. ASSUME NEW h \in Handles, NEW n \in 1 .. MaxRows, NEW e \in DecodeErrors,
             DecodeFails(t, h, n, e)
      PROVE  wire'[c] # "ready"
  <2>1. c = obj[h].conn /\ ~ obj[h].released /\ obj[h].kind = "result"
    BY <1>1, <1>5, HandleOfFrame DEF DecodeFails, OwnResult, Pulling
  <2> QED
    BY <1>5, <2>1 DEF DecodeFails, WireInv, UsedOK, Pins, Live
<1>6. ~ \E n \in 1 .. MaxRows : PullBlock(t, n)
  BY DEF PullBlock, pool, Dropped
<1>7. ASSUME NEW h \in Handles, Destroy(t, h) PROVE wire'[c] # "ready"
  <2>1. Pins(h)
    BY <1>7, DropClientRefKeeps DEF Destroy, Dropped
  <2>2. c = obj[h].conn /\ Abandoned(h)
    BY <1>7, <2>1, DroppedByRelease DEF Destroy, IInv
  <2> QED
    BY <1>7, <2>1, <2>2, DestroyedIsRead DEF Destroy, MarkedBroken
<1>8. ASSUME NEW h \in Handles PROVE ~ (FetchRow(t, h) \/ Append(t, h) \/ Pull(t, h) \/ Flush(t, h))
  BY DEF FetchRow, Append, Pull, Flush, pool, Dropped
<1> QED
  BY <1>3, <1>4, <1>5, <1>6, <1>7, <1>8 DEF PullStep, UseHandle

(* No step destroys a connection that could have been used again.          *)
LEMMA DroppedIsUnclean ==
  ASSUME IInv, WireInv, [Next]_vars, NEW c \in Conns, Dropped(c), ~ MarkedBroken(c)
  PROVE  wire'[c] # "ready" \/ Closing(c)
<1>1. ~ UNCHANGED vars /\ ~ Terminated
  BY DEF vars, Terminated, Dropped
<1>2. ~ DropClient
  BY DropClientRefKeeps DEF DropClient, Dropped
<1>3. ~ UserClosePool
  BY DEF UserClosePool, Dropped
<1>4. ASSUME NEW t \in Coroutines, NEW m, NEW h PROVE ~ Call(t, m, h)
  BY DEF Call, Dropped
<1> QED
  BY <1>1, <1>2, <1>3, <1>4, FrameDrops, InsertDrops, ResultDrops DEF Next, Resume

-----------------------------------------------------------------------------
(* What a step marks broken                                                *)

(* The step marks no object that still has its connection.                 *)
NoNewMarks ==
  \A h \in Handles : Pins(h)' /\ obj'[h].broken =>
    Pins(h) /\ obj[h].broken /\ obj'[h].conn = obj[h].conn

LEMMA ReturnMarks ==
  ASSUME IInv, NEW t \in Coroutines, NEW o, ReturnObject(t, o), ~ o.broken
  PROVE  NoNewMarks
BY DEF NoNewMarks, ReturnObject, IInv, TypeOK, Pins, Live

LEMMA FinishMarks ==
  ASSUME IInv, NEW h \in Handles, NEW brk, NEW n, FinishResult(h, brk, n)
  PROVE  NoNewMarks
<1>1. \A k \in Handles : k # h => obj'[k] = obj[k]
  BY DEF FinishResult, IInv, TypeOK
<1>2. obj'[h].released
  BY DEF FinishResult, IInv, TypeOK, Handle
<1> QED
  BY <1>1, <1>2 DEF NoNewMarks, Pins, Live

LEMMA RowsMark ==
  ASSUME IInv, NEW h \in Handles, NEW n, obj' = [obj EXCEPT ![h].rows = n]
  PROVE  NoNewMarks
<1>1. \A k \in Handles : /\ obj'[k].broken = obj[k].broken /\ obj'[k].conn = obj[k].conn
                         /\ obj'[k].kind = obj[k].kind /\ obj'[k].released = obj[k].released
  BY DEF IInv, TypeOK, Handle
<1> QED
  BY <1>1 DEF NoNewMarks, Pins, Live

LEMMA SameMarks == UNCHANGED obj => NoNewMarks
BY DEF NoNewMarks, Pins, Live

LEMMA FlushMarks ==
  ASSUME IInv, NEW t \in Coroutines, NEW brk \in BOOLEAN, NEW left, FlushReturns(t, brk, left),
         pc[t] \in IOPoints, NEW c \in Conns, ~ MarkedBroken(c), MarkedBroken(c)'
  PROVE  brk /\ ConnOf(t) = c
<1>1. hd[t] \in Handles /\ Pins(hd[t]) /\ ConnOf(t) = obj[hd[t]].conn
  BY HandleOfFrame DEF FlushReturns
<1>2. \A k \in Handles : /\ obj'[k].broken = IF k = hd[t] THEN obj[k].broken \/ brk ELSE obj[k].broken
                         /\ obj'[k].kind = obj[k].kind /\ obj'[k].released = obj[k].released
                         /\ obj'[k].conn = obj[k].conn
  BY <1>1 DEF FlushReturns, IInv, TypeOK, Handle
<1> QED
  BY <1>1, <1>2 DEF MarkedBroken, Pins, Live

LEMMA InsertMarks ==
  ASSUME IInv, NEW t \in Coroutines, InsertStep(t),
         NEW c \in Conns, ~ MarkedBroken(c), MarkedBroken(c)'
  PROVE  wire'[c] # "ready" \/ Closing(c)
<1>0. ~ NoNewMarks /\ ~ UNCHANGED obj
  BY SameMarks DEF NoNewMarks, MarkedBroken
<1>1. ASSUME NEW brk \in BOOLEAN, pc[t] \in IOPoints,
             InsertReturns(t, brk) \/ \E left : FlushReturns(t, brk, left)
      PROVE  brk /\ ConnOf(t) = c
  BY <1>0, <1>1, FlushMarks DEF InsertReturns
<1>2. ~ (BeginInsertOk(t) \/ BuildFails(t) \/ SendOk(t))
  BY <1>0 DEF BeginInsertOk, BuildFails, SendOk, InsertBegun
<1>3. ~ (EndOk(t) \/ CloseOk(t))
  BY <1>1 DEF EndOk, CloseOk, InsertThrows, IOPoints
<1>4. ASSUME NEW e \in ReadErrors, CloseFails(t, e) PROVE Closing(c)
  BY <1>1, <1>4 DEF CloseFails, InsertThrows, Closing, IOPoints
<1>5. ASSUME NEW e \in ReadErrors, SendBlockFails(t, e) PROVE wire'[c] # "ready"
  <2>1. Poisons(e) /\ c = ConnOf(t)
    BY <1>0, <1>1, <1>5 DEF SendBlockFails, InsertThrows, IOPoints
  <2> QED
    BY <1>5, <2>1, WireAfterExchange DEF SendBlockFails, SetWire, IInv, TypeOK
<1> QED
  BY <1>2, <1>3, <1>4, <1>5 DEF InsertStep

LEMMA OtherMarks ==
  ASSUME IInv, [Next]_vars, \A t \in Coroutines : ~ InsertStep(t)
  PROVE  NoNewMarks
<1>1. ASSUME NEW t \in Coroutines, OpenOk(t) \/ \E c \in Conns : AcquireIdle(t, c)
      PROVE  NoNewMarks
  <2>1. PICK c : Acquired(t, c)
    BY <1>1 DEF OpenOk, AcquireIdle
  <2>2. ~ NewBatch(t, c).broken
    BY DEF NewBatch
  <2> QED
    BY <2>1, <2>2, ReturnMarks, SameMarks DEF Acquired
<1>2. ASSUME NEW t \in Coroutines, QueryStep(t) PROVE NoNewMarks
  <2>1. \A n, f : ~ NewResult(t, at[t], n, f).broken
    BY DEF NewResult
  <2> QED
    BY <1>2, <2>1, ReturnMarks, SameMarks DEF QueryStep, QueryBegin, QueryNoRows, QueryBlock, QueryFails
<1>3. ASSUME NEW t \in Coroutines, PullStep(t) PROVE NoNewMarks
  <2>1. hd[t] \in Handles
    BY <1>3, HandleOfFrame DEF PullStep, PullEnd, PullBlock, PullFails, Pulling
  <2> QED
    BY <1>3, <2>1, FinishMarks, RowsMark DEF PullStep, PullEnd, PullBlock, PullFails
<1>4. ASSUME NEW t \in Coroutines, NEW h \in Handles, UseHandle(t, h) PROVE NoNewMarks
  <2>1. ASSUME Destroy(t, h) PROVE NoNewMarks
    BY <2>1 DEF Destroy, NoObject, NoNewMarks, IInv, TypeOK, Pins, Live
  <2>2. ASSUME FetchRow(t, h) \/ Append(t, h) PROVE NoNewMarks
    BY <2>2, RowsMark DEF FetchRow, Append
  <2> QED
    BY <1>4, <2>1, <2>2, FinishMarks, SameMarks DEF UseHandle, Pull, Flush, DecodeFails
<1>5. ASSUME NEW t \in Coroutines, OpenFails(t) \/ AcquireCancelled(t) \/ Acquire(t)
      PROVE  NoNewMarks
  BY <1>1, <1>5, SameMarks DEF OpenFails, AcquireCancelled, AcquireThrows, Acquire, AcquireClosed, AcquireOpen
<1>6. ASSUME NEW t \in Coroutines, NEW m, NEW h, Call(t, m, h) PROVE NoNewMarks
  BY <1>6, SameMarks DEF Call
<1>7. ASSUME DropClient \/ UserClosePool \/ UNCHANGED vars PROVE NoNewMarks
  BY <1>7, SameMarks DEF DropClient, UserClosePool, vars
<1> QED
  BY <1>1, <1>2, <1>3, <1>4, <1>5, <1>6, <1>7 DEF Next, Resume, Terminated

(* A connection is marked for an exception that left something on it, or   *)
(* because closing the insert failed.                                      *)
LEMMA MarkedIsUnclean ==
  ASSUME IInv, [Next]_vars, NEW c \in Conns, ~ MarkedBroken(c), MarkedBroken(c)'
  PROVE  wire'[c] # "ready" \/ Closing(c)
<1>1. ~ NoNewMarks
  BY DEF NoNewMarks, MarkedBroken
<1> QED
  BY <1>1, OtherMarks, InsertMarks

-----------------------------------------------------------------------------
(* Theorems                                                                *)

(* The state of each socket fits what its holder is doing with it.         *)
THEOREM WireInvariant == Spec => []WireInv
BY InitWire, NextWire, OwnershipInvariant, PTL DEF Spec

(* No connection that is handed out again has anything left to read, on    *)
(* whichever path it was given back, for every set of exceptions on which  *)
(* ch_exception_poisons_connection decides rightly.                        *)
THEOREM IdleConnectionsAreClean == RightErrors /\ Spec => []IdleIsClean
<1>1. RightErrors /\ WireInv => IdleIsClean
  BY DEF WireInv, CleanOK
<1>2. CASE RightErrors
  <2>1. WireInv => IdleIsClean
    BY <1>1, <1>2
  <2> QED
    BY <2>1, WireInvariant, PTL
<1>3. CASE ~ RightErrors
  BY <1>3
<1> QED
  BY <1>2, <1>3

(* A connection that could have been used again is neither destroyed by an *)
(* open pool nor marked broken in a Batch, whatever the exceptions, unless *)
(* it was closing an insert.                                               *)
THEOREM CleanConnectionsAreKept == Spec => OnlyUncleanDropped
<1>1. IInv /\ WireInv /\ [Next]_vars =>
        [\A c \in Conns :
           /\ lease[c] = "leased" /\ ~ MarkedBroken(c)
           /\ \/ lease'[c] = "absent" /\ poolState = "open" /\ poolState' = "open"
              \/ MarkedBroken(c)'
           => wire'[c] # "ready" \/ Closing(c)]_vars
  BY DroppedIsUnclean, MarkedIsUnclean DEF Dropped
<1> QED
  BY <1>1, OwnershipInvariant, WireInvariant, PTL DEF Spec, OnlyUncleanDropped
=============================================================================
