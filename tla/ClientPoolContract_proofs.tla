---------------------- MODULE ClientPoolContract_proofs ----------------------
(***************************************************************************)
(* ClientPool implements ConnectionLeases: each handler, seen from one     *)
(* connection, is a take, a use, a return or a drop of that connection.    *)
(***************************************************************************)
EXTENDS ClientPoolContract, ClientPoolWire_proofs

USE SetsAssumption, BoundsAssumption

-----------------------------------------------------------------------------
(* The holder of a connection                                              *)

Held(c) == lease[c] \in {"opening", "leased"}

HoldersKnown ==
  \A c \in Conns :
    /\ IF Held(c) THEN HolderOf(c) \in Coroutines \cup Handles
                  ELSE HolderOf(c) = Nil
    /\ \A t \in Coroutines : at[t] = c => HolderOf(c) = t
    /\ \A h \in Handles : Pins(h) /\ obj[h].conn = c => HolderOf(c) = h

LEMMA KnownHolders == IInv => HoldersKnown
<1> SUFFICES ASSUME IInv, NEW c \in Conns
             PROVE  /\ IF Held(c) THEN HolderOf(c) \in Coroutines \cup Handles
                                  ELSE HolderOf(c) = Nil
                    /\ \A x \in Holders(c) : HolderOf(c) = x
  BY DEF HoldersKnown, Holders
<1>1. IF Held(c) THEN \E x \in Coroutines \cup Handles : Holders(c) = {x}
                 ELSE Holders(c) = {}
  BY OneHolder DEF LeaseHasOneHolder, Held
<1>2. CASE Held(c)
  <2>1. PICK x \in Coroutines \cup Handles : Holders(c) = {x}
    BY <1>1, <1>2
  <2>2. HolderOf(c) = x
    BY <2>1 DEF HolderOf
  <2> QED
    BY <1>2, <2>1, <2>2
<1>3. CASE ~ Held(c)
  BY <1>1, <1>3 DEF HolderOf
<1> QED
  BY <1>2, <1>3

LEMMA HoldersKnownNext == IInv' => HoldersKnown'
BY KnownHolders, PTL

(* Nobody takes or gives up connection d.                                  *)
SameHolders(d) ==
  /\ \A t \in Coroutines : at'[t] = d <=> at[t] = d
  /\ \A h \in Handles : (Pins(h) /\ obj[h].conn = d)' <=> (Pins(h) /\ obj[h].conn = d)

Kept(d) == SameHolders(d) /\ lease'[d] = lease[d] /\ wire'[d] = wire[d]

LEMMA SameHolder ==
  ASSUME NEW d, SameHolders(d)
  PROVE  HolderOf(d)' = HolderOf(d)
<1>1. Holders(d)' = Holders(d)
  BY DEF Holders, SameHolders
<1> QED
  BY <1>1 DEF HolderOf

(* A step of the frame of t is about one connection at most.               *)
LEMMA FrameMoves ==
  ASSUME TypeOK, NEW t \in Coroutines, NEW l, NEW m, NEW h, NEW c, NEW d \in Conns,
         Enter(t, l, m, h, c), d # c, d # at[t]
  PROVE  \A u \in Coroutines : at'[u] = d <=> at[u] = d
BY OthersStay

(* The rows, the end and the fault of an object are not its connection.    *)
SameHold(k) ==
  /\ obj'[k].kind = obj[k].kind /\ obj'[k].conn = obj[k].conn
  /\ obj'[k].released = obj[k].released

LEMMA HoldsStay ==
  ASSUME \A k \in Handles : SameHold(k), NEW d,
         \A t \in Coroutines : at'[t] = d <=> at[t] = d
  PROVE  SameHolders(d)
BY DEF SameHold, SameHolders, Pins, Live

LEMMA NothingLeftNext == IInv' => FreedClientLeavesNothing'
BY NothingLeft, PTL

-----------------------------------------------------------------------------
(* The steps of ConnectionLeases                                           *)

LifeOf == IF poolState \in {"none", "open"} THEN "open" ELSE poolState
StateOf(c) == IF lease[c] = "opening" THEN "leased" ELSE lease[c]

LEMMA NothingMoves ==
  ASSUME LifeOf' = LifeOf, \A d \in Conns : Kept(d)
  PROVE  UNCHANGED Contract!vars
<1>1. \A d \in Conns : HolderOf(d)' = HolderOf(d)
  BY SameHolder DEF Kept
<1> QED
  BY <1>1 DEF Contract!vars, Kept, LifeOf

LEMMA OneMoves ==
  ASSUME NEW c \in Conns, \A d \in Conns : d # c => Kept(d)
  PROVE  Contract!Only(c, StateOf(c)', HolderOf(c)', wire'[c] = "ready")
<1>1. \A d \in Conns : d # c => HolderOf(d)' = HolderOf(d)
  BY SameHolder DEF Kept
<1> QED
  BY <1>1 DEF Contract!Only, Kept, StateOf

LEMMA Taken ==
  ASSUME IInv', NEW c \in Conns, \A d \in Conns : d # c => Kept(d),
         poolState = "open", poolState' = "open", wire'[c] = wire[c],
         lease[c] = "absent" \/ (lease[c] = "idle" /\ wire[c] = "ready"),
         Held(c)'
  PROVE  Contract!Next
<1>1. HolderOf(c)' \in Coroutines \cup Handles
  BY HoldersKnownNext DEF HoldersKnown
<1>2. StateOf(c)' = "leased"
  BY DEF StateOf, Held
<1>3. Contract!Take(c, HolderOf(c)')
  BY <1>2, OneMoves DEF Contract!Take, Contract!Only
<1> QED
  BY <1>1, <1>3 DEF Contract!Next

(* The holder of c works on its socket, passes it on, or gives it back.    *)
LEMMA HolderMoves ==
  ASSUME IInv, IInv', WireInv', RightErrors,
         NEW c \in Conns, \A d \in Conns : d # c => Kept(d),
         poolState' = poolState, Held(c),
         Held(c)' => \/ HolderOf(c)' = HolderOf(c)
                     \/ HolderOf(c) \in Coroutines /\ HolderOf(c)' \in Handles
  PROVE  Contract!Next
<1> DEFINE cl == wire'[c] = "ready"
<1>1. Contract!Only(c, StateOf(c)', HolderOf(c)', cl)
  BY OneMoves
<1>2. StateOf(c) = "leased" /\ cl \in BOOLEAN
  BY DEF StateOf, Held
<1>3. CASE Held(c)'
  <2>1. HolderOf(c)' \in Coroutines \cup Handles
    BY <1>3, HoldersKnownNext DEF HoldersKnown
  <2>2. StateOf(c)' = "leased"
    BY <1>3 DEF StateOf, Held
  <2>3. Contract!Work(c, HolderOf(c)', cl)
    BY <1>1, <1>2, <1>3, <2>2 DEF Contract!Work, StateOf
  <2> QED
    BY <1>2, <2>1, <2>3 DEF Contract!Next
<1>4. CASE lease'[c] = "absent"
  <2>1. StateOf(c)' = "absent" /\ HolderOf(c)' = Nil
    BY <1>4, HoldersKnownNext DEF HoldersKnown, StateOf, Held
  <2>2. Contract!Drop(c, cl)
    BY <1>1, <1>2, <2>1 DEF Contract!Drop, StateOf
  <2> QED
    BY <1>2, <2>2 DEF Contract!Next
<1>5. CASE lease'[c] = "idle"
  <2>1. StateOf(c)' = "idle" /\ HolderOf(c)' = Nil
    BY <1>5, HoldersKnownNext DEF HoldersKnown, StateOf, Held
  <2>2. cl = TRUE
    BY <1>5 DEF WireInv, CleanOK, IdleIsClean, RightErrors
  <2>3. poolState \in {"none", "open"}
    BY <1>5 DEF IInv, TypeOK, PoolOK
  <2>4. Contract!Return(c)
    BY <1>1, <1>2, <2>1, <2>2, <2>3 DEF Contract!Return, Contract!Only, StateOf
  <2> QED
    BY <2>4 DEF Contract!Next
<1> QED
  BY <1>3, <1>4, <1>5 DEF Held, IInv, TypeOK

(* The last reference to the Client goes: its holder has a connection at   *)
(* most, the one it gives back in the same step.                           *)
LEMMA ClientFreed ==
  ASSUME IInv, IInv', NEW x, refs = {x}, poolState' = "freed",
         \A d \in Conns : ~ Held(d) => wire'[d] = wire[d]
  PROVE  Contract!Next
<1>1. \A d \in Conns : lease'[d] = "absent"
  BY NothingLeftNext DEF FreedClientLeavesNothing
<1>2. \A d \in Conns : HolderOf(d)' = Nil
  BY <1>1, HoldersKnownNext DEF HoldersKnown, Held
<1>3. ASSUME NEW c \in Conns, NEW d \in Conns, Held(c), Held(d) PROVE c = d
  <2>1. ASSUME NEW e \in Conns, Held(e)
        PROVE  \/ x \in Coroutines /\ at[x] = e
               \/ x \in Handles /\ obj[x].conn = e
    <3>1. \A t \in Coroutines : at[t] = e => t = x
      BY DEF IInv, TypeOK, FramesOK, FrameOf, Methods
    <3>2. \A h \in Handles : Pins(h) => h = x
      BY DEF IInv, ObjectsOK, Pins
    <3> QED
      BY <2>1, <3>1, <3>2 DEF IInv, LeasesHeld, Held
  <2> QED
    BY <1>3, <2>1
<1>4. poolState # "freed"
  BY DEF IInv, PoolOK
<1>5. Contract!Free
  <2>1. LifeOf # "freed" /\ LifeOf' = "freed"
    BY <1>4 DEF LifeOf
  <2>2. \A c \in Conns : StateOf(c) = "leased" => Held(c)
    BY DEF StateOf, Held
  <2>3. \A c \in Conns : (wire'[c] = "ready") # (wire[c] = "ready") => StateOf(c) = "leased"
    BY DEF StateOf, Held
  <2> QED
    BY <1>1, <1>2, <1>3, <2>1, <2>2, <2>3 DEF Contract!Free, StateOf, LifeOf
<1> QED
  BY <1>5 DEF Contract!Next

(* A reference to the Client goes and nothing else does, or, with the last *)
(* one, the Client.                                                        *)
LEMMA OnlyRefMoves ==
  ASSUME IInv, IInv', NEW x \in refs, DropClientRef(x, lease), UNCHANGED wire,
         \A d \in Conns : SameHolders(d)
  PROVE  [Contract!Next]_(Contract!vars)
<1>1. CASE refs \ {x} = {}
  BY <1>1, ClientFreed DEF DropClientRef
<1>2. CASE refs \ {x} # {}
  BY <1>2, NothingMoves DEF DropClientRef, Kept, LifeOf
<1> QED
  BY <1>1, <1>2

(* A connection is given back, before or together with a reference.        *)
LEMMA GivenBack ==
  ASSUME IInv, IInv', WireInv', RightErrors,
         NEW c \in Conns, Held(c), NEW ls,
         \A d \in Conns : d # c => ls[d] = lease[d] /\ wire'[d] = wire[d] /\ SameHolders(d),
         ls[c] \in {"idle", "absent"},
         \/ lease' = ls /\ UNCHANGED poolState
         \/ \E x \in refs : DropClientRef(x, ls)
  PROVE  Contract!Next
<1>1. CASE \E x \in refs : refs = {x} /\ DropClientRef(x, ls)
  <2>1. PICK x \in refs : refs = {x} /\ DropClientRef(x, ls)
    BY <1>1
  <2>2. poolState' = "freed"
    BY <2>1 DEF DropClientRef
  <2> QED
    BY <2>1, <2>2, ClientFreed
<1>2. CASE lease' = ls /\ UNCHANGED poolState
  BY <1>2, HolderMoves DEF Kept, Held
<1>3. CASE ~ \E x \in refs : refs = {x} /\ DropClientRef(x, ls)
  <2>1. lease' = ls /\ UNCHANGED poolState
    BY <1>2, <1>3 DEF DropClientRef
  <2> QED
    BY <1>2, <2>1
<1> QED
  BY <1>1, <1>3

LEMMA ReleasedOne ==
  ASSUME IInv, NEW c \in Conns, NEW brk, poolState # "freed"
  PROVE  /\ Released(c, brk)[c] \in {"idle", "absent"}
         /\ \A d \in Conns : d # c => Released(c, brk)[d] = lease[d]
BY DEF Released, IInv, TypeOK

-----------------------------------------------------------------------------
(* The handlers                                                            *)

LEMMA CallKeeps ==
  ASSUME NEW t \in Coroutines, NEW m, NEW h, Call(t, m, h), IInv
  PROVE  UNCHANGED Contract!vars
<1>1. at[t] = Nil
  BY DEF Call, IInv, FramesOK, FrameOf
<1>2. \A d \in Conns : Kept(d)
  BY <1>1, FrameMoves DEF Call, Kept, SameHolders, IInv, Pins, Live
<1>3. LifeOf' = LifeOf
  BY DEF Call, EnsurePool, LifeOf
<1> QED
  BY <1>2, <1>3, NothingMoves

(* acquire and the factory give c to the frame, or to the Batch it wraps.  *)
LEMMA AcquiredHolder ==
  ASSUME IInv, NEW t \in Coroutines, NEW c \in Conns, Acquired(t, c),
         op[t] \in Methods, at[t] \in {Nil, c}
  PROVE  /\ poolState' = poolState /\ lease'[c] = "leased"
         /\ \A d \in Conns : d # c => lease'[d] = lease[d] /\ SameHolders(d)
         /\ \/ at'[t] = c
            \/ \E h \in Handles : Pins(h)' /\ obj'[h].conn = c
<1>1. lease' = [lease EXCEPT ![c] = "leased"] /\ poolState' = poolState
  BY DEF Acquired
<1>2. CASE op[t] = "insertBatch"
  <2>1. PICK h \in Handles : h = hd[t] /\ ~ Live(h)
    BY <1>2, MethodHandle
  <2>2. obj' = [obj EXCEPT ![h] = NewBatch(t, c)] /\ Leave(t)
    BY <1>2, <2>1 DEF Acquired, ReturnObject
  <2>3. ASSUME NEW d \in Conns, d # c PROVE SameHolders(d)
    <3>1. \A u \in Coroutines : at'[u] = d <=> at[u] = d
      BY <2>2, <2>3, FrameMoves DEF Leave, IInv
    <3>2. ~ Pins(h) /\ NewBatch(t, c).conn # d
      BY <2>1, <2>3 DEF Pins, NewBatch
    <3>3. TypeOK
      BY DEF IInv
    <3>4. \A k \in Handles :
            (Pins(k) /\ obj[k].conn = d)' <=> (Pins(k) /\ obj[k].conn = d)
      BY <2>2, <3>2, <3>3 DEF TypeOK, Pins, Live, NewBatch
    <3> QED
      BY <2>2, <3>1, <3>4 DEF SameHolders
  <2>4. Pins(h)' /\ obj'[h].conn = c
    BY <2>1, <2>2 DEF Pins, Live, NewBatch, IInv, TypeOK
  <2> QED
    BY <1>1, <2>1, <2>3, <2>4 DEF IInv, TypeOK
<1>3. CASE op[t] # "insertBatch"
  <2>1. PICK l : Enter(t, l, op[t], hd[t], c) /\ UNCHANGED obj
    BY <1>3 DEF Acquired
  <2>2. \A d \in Conns : d # c => SameHolders(d)
    BY <2>1, FrameMoves DEF SameHolders, Pins, Live, IInv
  <2>3. at'[t] = c
    BY <2>1, OthersStay DEF IInv
  <2> QED
    BY <1>1, <2>2, <2>3 DEF IInv, TypeOK
<1> QED
  BY <1>2, <1>3

LEMMA AcquireKeeps ==
  ASSUME IInv, IInv', WireInv, RightErrors, NEW t \in Coroutines, Acquire(t) \/ AcquireCancelled(t)
  PROVE  [Contract!Next]_(Contract!vars)
<1>1. pc[t] = "acquire" /\ at[t] = Nil /\ op[t] \in Methods /\ t \in refs
  BY DEF Acquire, AcquireClosed, AcquireIdle, AcquireOpen, AcquireCancelled, IInv, FramesOK, FrameOf
<1>2. ASSUME NEW c \in Conns, AcquireIdle(t, c) PROVE Contract!Next
  <2>1. lease[c] = "idle" /\ poolState = "open" /\ Acquired(t, c) /\ UNCHANGED wire
    BY <1>2 DEF AcquireIdle
  <2>2. wire[c] = "ready"
    BY <2>1 DEF WireInv, CleanOK, IdleIsClean
  <2>3. lease'[c] = "leased" /\ UNCHANGED poolState /\ \A d \in Conns : d # c => Kept(d)
    BY <1>1, <2>1, AcquiredHolder DEF Kept
  <2> QED
    BY <2>1, <2>2, <2>3, Taken DEF Held
<1>3. ASSUME NEW c \in Conns, AcquireOpen(t, c) PROVE Contract!Next
  <2>1. \A d \in Conns : d # c => Kept(d)
    BY <1>1, <1>3, FrameMoves DEF AcquireOpen, Kept, SameHolders, Pins, Live, IInv, TypeOK
  <2> QED
    BY <1>3, <2>1, Taken DEF AcquireOpen, Held, IInv, TypeOK
<1>4. ASSUME AcquireThrows(t) PROVE [Contract!Next]_(Contract!vars)
  <2>1. \A d \in Conns : SameHolders(d)
    BY <1>1, <1>4, FrameMoves DEF AcquireThrows, Leave, SameHolders, Pins, Live, IInv
  <2> QED
    BY <1>1, <1>4, <2>1, OnlyRefMoves DEF AcquireThrows
<1> QED
  BY <1>2, <1>3, <1>4 DEF Acquire, AcquireClosed, AcquireCancelled

LEMMA OpenKeeps ==
  ASSUME IInv, IInv', WireInv', RightErrors, NEW t \in Coroutines, OpenOk(t) \/ OpenFails(t)
  PROVE  [Contract!Next]_(Contract!vars)
<1>1. pc[t] = "factory" /\ op[t] \in Methods /\ t \in refs /\ at[t] # Nil
  BY DEF OpenOk, OpenFails, IInv, FramesOK, FrameOf, Methods
<1>2. PICK c \in Conns : at[t] = c /\ lease[c] = "opening" /\ HolderOf(c) = t
  BY <1>1, KnownHolders DEF HoldersKnown, IInv, TypeOK, FrameLeases
<1>3. ASSUME OpenOk(t) PROVE Contract!Next
  <2>1. wire' = [wire EXCEPT ![c] = "ready"] /\ Acquired(t, c)
    BY <1>2, <1>3 DEF OpenOk, SetWire
  <2>2. \A d \in Conns : d # c => Kept(d)
    BY <1>1, <1>2, <2>1, AcquiredHolder DEF Kept, IInv, TypeOK
  <2>3. HolderOf(c)' \in {t} \cup Handles /\ UNCHANGED poolState
    BY <1>1, <1>2, <2>1, AcquiredHolder, HoldersKnownNext DEF HoldersKnown
  <2> QED
    BY <1>2, <2>2, <2>3, HolderMoves DEF Held
<1>4. ASSUME OpenFails(t) PROVE Contract!Next
  <2> DEFINE ls == [lease EXCEPT ![c] = "absent"]
  <2>1. DropClientRef(t, ls) /\ Leave(t) /\ UNCHANGED <<wire, obj>>
    BY <1>2, <1>4 DEF OpenFails
  <2>2. \A d \in Conns : d # c => SameHolders(d)
    BY <1>2, <2>1, FrameMoves DEF Leave, SameHolders, Pins, Live, IInv
  <2>3. ls[c] = "absent" /\ \A d \in Conns : d # c => ls[d] = lease[d]
    BY DEF IInv, TypeOK
  <2> HIDE DEF ls
  <2> QED
    BY <1>1, <1>2, <2>1, <2>2, <2>3, GivenBack DEF Held
<1> QED
  BY <1>3, <1>4

(* A frame that is on the socket of its own connection.                    *)
LEMMA FrameOnSocket ==
  ASSUME IInv, NEW t \in Coroutines, op[t] \in Methods, pc[t] \in IOPoints
  PROVE  /\ at[t] \in Conns /\ ConnOf(t) = at[t] /\ t \in refs
         /\ Held(at[t]) /\ HolderOf(at[t]) = t /\ poolState # "freed"
BY FrameAlone, KnownHolders DEF Held, HoldersKnown, IInv, FramesOK, FrameOf

LEMMA ObjectOnSocket ==
  ASSUME IInv, NEW h \in Handles, Pins(h)
  PROVE  /\ obj[h].conn \in Conns /\ h \in refs
         /\ Held(obj[h].conn) /\ HolderOf(obj[h].conn) = h /\ poolState # "freed"
BY ObjectAlone, KnownHolders DEF Held, HoldersKnown, IInv, ObjectsOK, Pins

(* The frame of t leaves its method as c comes back.                       *)
LEMMA FrameGivesBack ==
  ASSUME IInv, IInv', WireInv', RightErrors, NEW t \in Coroutines,
         op[t] \in Methods, pc[t] \in IOPoints,
         NEW brk, DropClientRef(t, Released(at[t], brk)), Leave(t), UNCHANGED obj,
         NEW w, wire' = [wire EXCEPT ![at[t]] = w]
  PROVE  Contract!Next
<1>1. PICK c \in Conns : at[t] = c /\ Held(c) /\ t \in refs /\ poolState # "freed"
  BY FrameOnSocket
<1>2. \A d \in Conns : d # c => SameHolders(d)
  BY <1>1, FrameMoves DEF Leave, SameHolders, Pins, Live, IInv
<1>3. \A d \in Conns : d # c => wire'[d] = wire[d]
  BY <1>1 DEF IInv, TypeOK
<1> DEFINE ls == Released(c, brk)
<1>4. ls[c] \in {"idle", "absent"} /\ \A d \in Conns : d # c => ls[d] = lease[d]
  BY <1>1, ReleasedOne
<1>5. DropClientRef(t, ls)
  BY <1>1
<1> HIDE DEF ls
<1> QED
  BY <1>1, <1>2, <1>3, <1>4, <1>5, GivenBack

(* A call on a socket that changes nobody's hold of a connection.          *)
LEMMA SocketWork ==
  ASSUME IInv, IInv', WireInv', RightErrors, NEW c \in Conns, Held(c),
         UNCHANGED <<poolState, lease>>, NEW w, wire' = [wire EXCEPT ![c] = w],
         \A d \in Conns : SameHolders(d)
  PROVE  Contract!Next
<1>1. \A d \in Conns : d # c => Kept(d)
  BY DEF Kept, IInv, TypeOK
<1>2. HolderOf(c)' = HolderOf(c)
  BY SameHolder
<1> QED
  BY <1>1, <1>2, HolderMoves

(* The frame of t passes its connection to the object it returns.          *)
LEMMA ReturnedHolder ==
  ASSUME IInv, NEW t \in Coroutines, op[t] \in {"query", "insertBatch"},
         at[t] \in Conns, NEW o, o.conn = at[t], ReturnObject(t, o)
  PROVE  /\ \A d \in Conns : d # at[t] => SameHolders(d)
         /\ o.kind = "result" /\ ~ o.released =>
              \E h \in Handles : Pins(h)' /\ obj'[h].conn = at[t]
<1>1. TypeOK
  BY DEF IInv
<1>2. PICK h \in Handles : h = hd[t] /\ ~ Live(h)
  BY MethodHandle DEF Methods
<1>3. obj' = [obj EXCEPT ![h] = o] /\ Leave(t)
  BY <1>2 DEF ReturnObject
<1>4. ASSUME NEW d \in Conns, d # at[t] PROVE SameHolders(d)
  <2>1. \A u \in Coroutines : at'[u] = d <=> at[u] = d
    BY <1>1, <1>3, <1>4, FrameMoves DEF Leave
  <2>2. \A k \in Handles : (Pins(k) /\ obj[k].conn = d)' <=> (Pins(k) /\ obj[k].conn = d)
    BY <1>1, <1>2, <1>3, <1>4 DEF TypeOK, Pins, Live
  <2> QED
    BY <2>1, <2>2 DEF SameHolders
<1>5. o.kind = "result" /\ ~ o.released => Pins(h)' /\ obj'[h].conn = at[t]
  BY <1>1, <1>2, <1>3 DEF TypeOK, Pins, Live
<1> QED
  BY <1>4, <1>5

LEMMA QueryKeeps ==
  ASSUME IInv, IInv', WireInv', RightErrors, NEW t \in Coroutines, QueryStep(t)
  PROVE  Contract!Next
<1>1. op[t] = "query" /\ pc[t] \in {"BeginExecute", "NextBlock"}
  BY DEF QueryStep, QueryBegin, QueryBlock, QueryNoRows, QueryFails, IInv, FramesOK, FrameOf
<1>2. op[t] \in Methods /\ pc[t] \in IOPoints /\ op[t] \in {"query", "insertBatch"}
  BY <1>1 DEF Methods, IOPoints
<1>3. PICK c \in Conns : at[t] = c /\ Held(c) /\ HolderOf(c) = t /\ poolState # "freed"
  BY <1>2, FrameOnSocket
<1>4. ASSUME QueryBegin(t) PROVE Contract!Next
  <2>1. \A d \in Conns : SameHolders(d)
    BY <1>3, <1>4 DEF QueryBegin, Suspend, Enter, SameHolders, Pins, Live, IInv, TypeOK
  <2> QED
    BY <1>3, <1>4, <2>1, SocketWork DEF QueryBegin, SetWire, pool
<1>5. ASSUME NEW n \in 1 .. MaxRows, QueryBlock(t, n) PROVE Contract!Next
  <2>1. /\ ReturnObject(t, NewResult(t, c, n, FALSE)) /\ NewResult(t, c, n, FALSE).conn = c
        /\ NewResult(t, c, n, FALSE).kind = "result" /\ ~ NewResult(t, c, n, FALSE).released
        /\ UNCHANGED <<poolState, lease, wire>>
    BY <1>3, <1>5 DEF QueryBlock, NewResult
  <2>2. \A d \in Conns : d # c => SameHolders(d)
    BY <1>2, <1>3, <2>1, ReturnedHolder
  <2>3. \E h \in Handles : Pins(h)' /\ obj'[h].conn = c
    BY <1>2, <1>3, <2>1, ReturnedHolder
  <2>4. HolderOf(c)' \in Handles
    BY <2>3, HoldersKnownNext DEF HoldersKnown
  <2>5. \A d \in Conns : d # c => Kept(d)
    BY <2>1, <2>2 DEF Kept
  <2> QED
    BY <1>3, <2>1, <2>4, <2>5, HolderMoves
<1>6. ASSUME QueryNoRows(t) PROVE Contract!Next
  <2> DEFINE ls == Released(c, FALSE)
  <2>1. /\ ReturnObject(t, NewResult(t, c, 0, TRUE)) /\ NewResult(t, c, 0, TRUE).conn = c
        /\ lease' = ls /\ UNCHANGED poolState
        /\ \E w : wire' = [wire EXCEPT ![c] = w]
    BY <1>3, <1>6 DEF QueryNoRows, NewResult, StreamEnd, SetWire
  <2>2. \A d \in Conns : d # c => SameHolders(d)
    BY <1>2, <1>3, <2>1, ReturnedHolder
  <2>3. \A d \in Conns : d # c => wire'[d] = wire[d]
    BY <2>1 DEF IInv, TypeOK
  <2>4. ls[c] \in {"idle", "absent"} /\ \A d \in Conns : d # c => ls[d] = lease[d]
    <3>1. poolState # "freed"
      BY <1>3
    <3> QED
      BY ONLY IInv, c \in Conns, <3>1, ReleasedOne
  <2> HIDE DEF ls
  <2> QED
    BY <1>3, <2>1, <2>2, <2>3, <2>4, GivenBack
<1>7. ASSUME NEW e \in ReadErrors, QueryFails(t, e) PROVE Contract!Next
  BY <1>2, <1>7, FrameGivesBack DEF QueryFails, SetWire
<1> QED
  BY <1>4, <1>5, <1>6, <1>7 DEF QueryStep

(* A Result ends: the first time with its connection, then without.        *)
LEMMA FinishKeeps ==
  ASSUME IInv, IInv', WireInv', RightErrors,
         NEW t \in Coroutines, at[t] = Nil, NEW h \in Handles, Live(h),
         NEW brk, NEW n, FinishResult(h, brk, n), Leave(t),
         NEW w, wire' = [wire EXCEPT ![obj[h].conn] = w],
         obj[h].released => UNCHANGED wire
  PROVE  [Contract!Next]_(Contract!vars)
<1>1. \A d \in Conns, u \in Coroutines : at'[u] = d <=> at[u] = d
  BY FrameMoves DEF Leave, IInv
<1>2. ASSUME NEW d \in Conns, ~ Pins(h) \/ obj[h].conn # d PROVE SameHolders(d)
  BY <1>1, <1>2 DEF SameHolders, FinishResult, Pins, Live, IInv, TypeOK
<1>3. CASE obj[h].released
  <2>1. \A d \in Conns : Kept(d)
    BY <1>2, <1>3 DEF Kept, FinishResult, Pins
  <2> QED
    BY <2>1, NothingMoves DEF FinishResult, LifeOf
<1>4. CASE ~ obj[h].released
  <2>1. PICK c \in Conns : obj[h].conn = c /\ Held(c) /\ poolState # "freed"
    BY <1>4, ObjectOnSocket DEF Pins
  <2> DEFINE ls == Released(c, brk)
  <2>2. lease' = ls /\ UNCHANGED poolState
    BY <1>4, <2>1 DEF FinishResult
  <2>3. \A d \in Conns : d # c => SameHolders(d) /\ wire'[d] = wire[d]
    BY <1>2, <2>1 DEF IInv, TypeOK
  <2>4. ls[c] \in {"idle", "absent"} /\ \A d \in Conns : d # c => ls[d] = lease[d]
    BY <2>1, ReleasedOne
  <2> HIDE DEF ls
  <2> QED
    BY <2>1, <2>2, <2>3, <2>4, GivenBack
<1> QED
  BY <1>3, <1>4

LEMMA PullKeeps ==
  ASSUME IInv, IInv', WireInv', RightErrors, NEW t \in Coroutines, PullStep(t)
  PROVE  [Contract!Next]_(Contract!vars)
<1>1. op[t] = "fetch"
  BY DEF PullStep, PullEnd, PullBlock, PullFails, Pulling
<1>2. PICK h \in Handles : /\ hd[t] = h /\ Pins(h) /\ ConnOf(t) = obj[h].conn
                           /\ at[t] = Nil
  BY <1>1, HandleOfFrame
<1>3. Live(h) /\ ~ obj[h].released
  BY <1>2 DEF Pins
<1>4. CASE PullEnd(t)
  <2>1. /\ FinishResult(h, FALSE, 0) /\ Leave(t)
        /\ \E w : wire' = [wire EXCEPT ![obj[h].conn] = w]
    BY <1>2, <1>4 DEF PullEnd, StreamEnd, SetWire
  <2> QED
    BY <1>2, <1>3, <2>1, FinishKeeps
<1>5. ASSUME NEW e \in ReadErrors, PullFails(t, e) PROVE [Contract!Next]_(Contract!vars)
  <2>1. /\ FinishResult(h, Poisons(e), 0) /\ Leave(t)
        /\ \E w : wire' = [wire EXCEPT ![obj[h].conn] = w]
    BY <1>2, <1>5 DEF PullFails, SetWire
  <2> QED
    BY <1>2, <1>3, <2>1, FinishKeeps
<1>6. ASSUME NEW n \in 1 .. MaxRows, PullBlock(t, n) PROVE [Contract!Next]_(Contract!vars)
  <2>1. \A d \in Conns, u \in Coroutines : at'[u] = d <=> at[u] = d
    BY <1>2, <1>6, FrameMoves DEF PullBlock, Leave, IInv
  <2>2. \A d \in Conns : Kept(d)
    BY <1>2, <1>6, <2>1 DEF PullBlock, Kept, SameHolders, pool, Pins, Live, IInv, TypeOK
  <2> QED
    BY <1>6, <2>2, NothingMoves DEF PullBlock, pool, LifeOf
<1> QED
  BY <1>4, <1>5, <1>6 DEF PullStep

(* The connection of an insert, and that it has one holder.                *)
LEMMA InsertOnSocket ==
  ASSUME IInv, NEW t \in Coroutines, op[t] \in {"insert", "flush"}, pc[t] \in IOPoints
  PROVE  ConnOf(t) \in Conns /\ Held(ConnOf(t))
<1>1. CASE op[t] = "insert"
  BY <1>1, FrameOnSocket DEF Methods
<1>2. CASE op[t] = "flush"
  BY <1>2, HandleOfFrame, ObjectOnSocket
<1> QED
  BY <1>1, <1>2

LEMMA SuspendKeeps ==
  ASSUME IInv, IInv', WireInv', RightErrors, NEW t \in Coroutines,
         op[t] \in {"insert", "flush"}, pc[t] \in IOPoints,
         NEW l, Suspend(t, l), UNCHANGED <<pool, obj>>,
         NEW w, wire' = [wire EXCEPT ![ConnOf(t)] = w]
  PROVE  Contract!Next
<1>1. PICK c \in Conns : ConnOf(t) = c /\ Held(c)
  BY InsertOnSocket
<1>2. \A d \in Conns : SameHolders(d)
  BY DEF Suspend, Enter, SameHolders, Pins, Live, IInv, TypeOK
<1> QED
  BY <1>1, <1>2, SocketWork DEF pool

LEMMA InsertThrowsKeeps ==
  ASSUME IInv, IInv', WireInv', RightErrors, NEW t \in Coroutines,
         op[t] \in {"insert", "flush"}, pc[t] \in IOPoints, NEW brk,
         InsertReturns(t, brk) \/ \E left : FlushReturns(t, brk, left),
         NEW w, wire' = [wire EXCEPT ![ConnOf(t)] = w]
  PROVE  Contract!Next
<1>1. CASE InsertReturns(t, brk)
  <2>1. op[t] = "insert" /\ op[t] \in Methods /\ ConnOf(t) = at[t]
    BY <1>1 DEF InsertReturns, Methods, ConnOf
  <2> QED
    BY <1>1, <2>1, FrameGivesBack DEF InsertReturns
<1>2. ASSUME NEW left, FlushReturns(t, brk, left) PROVE Contract!Next
  <2>1. op[t] = "flush"
    BY <1>2 DEF FlushReturns
  <2>2. PICK h \in Handles : hd[t] = h /\ at[t] = Nil
    BY <2>1, HandleOfFrame
  <2>3. \A d \in Conns, u \in Coroutines : at'[u] = d <=> at[u] = d
    BY <1>2, <2>2, FrameMoves DEF FlushReturns, Leave, IInv
  <2>4. \A d \in Conns : SameHolders(d)
    <3>1. \E b : obj' = [obj EXCEPT ![h].broken = b, ![h].rows = left]
      BY <1>2, <2>2 DEF FlushReturns
    <3>2. \A k \in Handles : SameHold(k)
      BY <3>1 DEF SameHold, IInv, TypeOK, Handle
    <3> QED
      BY <2>3, <3>2, HoldsStay
  <2>5. PICK c \in Conns : ConnOf(t) = c /\ Held(c)
    BY InsertOnSocket
  <2> QED
    BY <1>2, <2>4, <2>5, SocketWork DEF FlushReturns, pool
<1> QED
  BY <1>1, <1>2

LEMMA InsertKeeps ==
  ASSUME IInv, IInv', WireInv', RightErrors, NEW t \in Coroutines, InsertStep(t)
  PROVE  [Contract!Next]_(Contract!vars)
<1>1. pc[t] \in {"BeginInsert", "SendInsertBlock", "EndInsert", "closeInsert"}
  BY DEF InsertStep, BeginInsertOk, BuildFails, InsertBegun, SendOk, EndOk, CloseOk, CloseFails, SendBlockFails
<1>2. op[t] \in {"insert", "flush"} /\ pc[t] \in IOPoints
  BY <1>1 DEF IOPoints, IInv, FramesOK, FrameOf
<1>3. ASSUME BeginInsertOk(t) \/ BuildFails(t) PROVE Contract!Next
  BY <1>2, <1>3, SuspendKeeps DEF BeginInsertOk, BuildFails, InsertBegun, SetWire
<1>4. ASSUME SendOk(t) PROVE UNCHANGED Contract!vars
  <2>1. \A d \in Conns : Kept(d)
    BY <1>4 DEF SendOk, Suspend, Enter, Kept, SameHolders, pool, Pins, Live, IInv, TypeOK
  <2> QED
    BY <1>4, <2>1, NothingMoves DEF SendOk, pool, LifeOf
<1>5. ASSUME EndOk(t) PROVE Contract!Next
  BY <1>2, <1>5, InsertThrowsKeeps DEF EndOk, StreamEnd, SetWire
<1>6. ASSUME CloseOk(t) \/ \E e \in ReadErrors : CloseFails(t, e) PROVE Contract!Next
  BY <1>2, <1>6, InsertThrowsKeeps DEF CloseOk, CloseFails, InsertThrows, StreamEnd, SetWire
<1>7. ASSUME NEW e \in ReadErrors, SendBlockFails(t, e) PROVE Contract!Next
  BY <1>2, <1>7, InsertThrowsKeeps, SuspendKeeps DEF SendBlockFails, InsertThrows, SetWire
<1> QED
  BY <1>3, <1>4, <1>5, <1>6, <1>7 DEF InsertStep

LEMMA DestroyKeeps ==
  ASSUME IInv, IInv', WireInv', RightErrors, NEW t \in Coroutines, NEW h \in Handles, Destroy(t, h)
  PROVE  [Contract!Next]_(Contract!vars)
<1>1. Live(h) /\ h \in refs
  BY DEF Destroy, Owned, IInv, ObjectsOK
<1>2. ASSUME NEW d \in Conns, ~ Pins(h) \/ obj[h].conn # d PROVE SameHolders(d)
  BY <1>2 DEF Destroy, SameHolders, NoObject, frame, Pins, Live, IInv, TypeOK
<1>3. CASE ~ Pins(h)
  BY <1>1, <1>2, <1>3, OnlyRefMoves DEF Destroy
<1>4. CASE Pins(h)
  <2>1. PICK c \in Conns : obj[h].conn = c /\ Held(c) /\ poolState # "freed"
    BY <1>4, ObjectOnSocket
  <2> DEFINE ls == Released(c, Abandoned(h))
  <2>2. DropClientRef(h, ls) /\ UNCHANGED wire
    BY <1>4, <2>1 DEF Destroy
  <2>3. \A d \in Conns : d # c => SameHolders(d)
    BY <1>2, <2>1
  <2>4. ls[c] \in {"idle", "absent"} /\ \A d \in Conns : d # c => ls[d] = lease[d]
    BY <2>1, ReleasedOne
  <2> HIDE DEF ls
  <2> QED
    BY <1>1, <2>1, <2>2, <2>3, <2>4, GivenBack
<1> QED
  BY <1>3, <1>4

LEMMA UseHandleKeeps ==
  ASSUME IInv, IInv', WireInv', RightErrors, NEW t \in Coroutines, NEW h \in Handles, UseHandle(t, h)
  PROVE  [Contract!Next]_(Contract!vars)
<1>1. ASSUME FetchRow(t, h) \/ Append(t, h) PROVE UNCHANGED Contract!vars
  <2>1. \A k \in Handles : SameHold(k)
    BY <1>1 DEF FetchRow, Append, SameHold, IInv, TypeOK, Handle
  <2>2. \A d \in Conns : Kept(d)
    BY <1>1, <2>1, HoldsStay DEF FetchRow, Append, Kept, pool, frame
  <2> QED
    BY <1>1, <2>2, NothingMoves DEF FetchRow, Append, pool, LifeOf
<1>2. ASSUME Pull(t, h) \/ Flush(t, h) PROVE UNCHANGED Contract!vars
  <2>1. at[t] = Nil
    BY <1>2 DEF Pull, Flush, OwnResult, OwnBatch, IInv, FramesOK, FrameOf
  <2>2. \A d \in Conns : Kept(d)
    BY <1>2, <2>1, FrameMoves DEF Pull, Flush, Kept, SameHolders, pool, Pins, Live, IInv
  <2> QED
    BY <1>2, <2>2, NothingMoves DEF Pull, Flush, pool, LifeOf
<1>3. ASSUME NEW e \in DecodeErrors, NEW n \in 1 .. MaxRows, DecodeFails(t, h, n, e)
      PROVE  [Contract!Next]_(Contract!vars)
  <2>1. at[t] = Nil /\ Live(h)
    BY <1>3, HandleOfFrame DEF DecodeFails, OwnResult, Owned, Pulling, Pins, IInv, FramesOK, FrameOf
  <2>2. \E w : wire' = [wire EXCEPT ![obj[h].conn] = w]
    <3>1. wire' = [wire EXCEPT ![obj[h].conn] = wire[obj[h].conn]]
      BY <1>3 DEF DecodeFails, IInv, TypeOK
    <3> QED
      BY <3>1
  <2> QED
    BY <1>3, <2>1, <2>2, FinishKeeps DEF DecodeFails
<1> QED
  BY <1>1, <1>2, <1>3, DestroyKeeps DEF UseHandle

LEMMA ClientGoesKeeps ==
  ASSUME IInv, IInv', DropClient \/ UserClosePool
  PROVE  [Contract!Next]_(Contract!vars)
<1>1. CASE DropClient
  <2>1. \A d \in Conns : SameHolders(d)
    BY <1>1 DEF DropClient, SameHolders, frame, Pins, Live
  <2> QED
    BY <1>1, <2>1, OnlyRefMoves DEF DropClient
<1>2. CASE UserClosePool
  <2>1. \A d \in Conns : HolderOf(d)' = HolderOf(d)
    BY <1>2, SameHolder DEF UserClosePool, SameHolders, frame, Pins, Live
  <2>2. Contract!Close
    BY <1>2, <2>1 DEF UserClosePool, WithoutIdle, Contract!Close, IInv, TypeOK
  <2> QED
    BY <2>2 DEF Contract!Next
<1> QED
  BY <1>1, <1>2

LEMMA ContractStep ==
  ASSUME IInv, IInv', WireInv, WireInv', RightErrors, [Next]_vars
  PROVE  [Contract!Next]_(Contract!vars)
<1>1. CASE UNCHANGED vars
  <2>1. \A d \in Conns : Kept(d)
    BY <1>1 DEF vars, Kept, SameHolders, Pins, Live
  <2> QED
    BY <1>1, <2>1, NothingMoves DEF vars, LifeOf
<1>2. ASSUME NEW t \in Coroutines, Resume(t) PROVE [Contract!Next]_(Contract!vars)
  BY <1>2, OpenKeeps, QueryKeeps, PullKeeps, InsertKeeps DEF Resume
<1>3. ASSUME NEW t \in Coroutines, NEW m, NEW h, Call(t, m, h) PROVE [Contract!Next]_(Contract!vars)
  BY <1>3, CallKeeps
<1> QED
  BY <1>1, <1>2, <1>3, AcquireKeeps, UseHandleKeeps, ClientGoesKeeps DEF Next, Terminated

LEMMA ContractInit == Init => Contract!Init
<1> SUFFICES ASSUME Init PROVE Contract!Init
  OBVIOUS
<1>1. HoldersKnown
  BY InitInv, KnownHolders
<1>2. \A c \in Conns : HolderOf(c) = Nil
  BY <1>1 DEF Init, HoldersKnown, Held
<1> QED
  BY <1>2 DEF Init, Contract!Init

(* ClientPool implements ConnectionLeases for any number of coroutines,    *)
(* connections and objects, and every set of exceptions on which           *)
(* ch_exception_poisons_connection decides rightly.                        *)
THEOREM PoolKeepsContract == RightErrors /\ Spec => KeepsContract
<1>1. CASE RightErrors
  <2>1. IInv /\ IInv' /\ WireInv /\ WireInv' /\ [Next]_vars => [Contract!Next]_(Contract!vars)
    BY <1>1, ContractStep
  <2> QED
    BY <2>1, ContractInit, OwnershipInvariant, WireInvariant, PTL DEF Spec, KeepsContract, Contract!Spec
<1>2. CASE ~ RightErrors
  BY <1>2
<1> QED
  BY <1>1, <1>2

=============================================================================
