--------------------------- MODULE ClientPoolInv ---------------------------
(***************************************************************************)
(* The inductive invariant behind the ownership properties of ClientPool.  *)
(***************************************************************************)
EXTENDS ClientPool

(* What the frame of a coroutine holds at each suspension point.           *)
FrameOf(t) ==
  /\ pc[t] = "user" => op[t] = "none"
  /\ pc[t] \in {"acquire", "factory"} => op[t] \in Methods
  /\ pc[t] = "BeginExecute" => op[t] = "query"
  /\ pc[t] = "NextBlock" => op[t] \in {"query", "fetch"}
  /\ pc[t] \in {"BeginInsert", "SendInsertBlock", "EndInsert", "closeInsert"}
       => op[t] \in {"insert", "flush"}
  /\ op[t] \in {"none", "insert"} <=> hd[t] = Nil
  /\ at[t] = Nil <=> (pc[t] = "acquire" \/ op[t] \in {"none", "fetch", "flush"})
  /\ op[t] \in Methods <=> t \in refs

(* The handle of the frame: still to be created by query and insertBatch,  *)
(* alive, owned and pinning a connection in fetch and flush.               *)
HandleOf(t) ==
  /\ op[t] \in {"query", "insertBatch"} => ~ Live(hd[t])
  /\ op[t] \in {"fetch", "flush"} =>
       /\ Pins(hd[t])
       /\ obj[hd[t]].owner = t
       /\ obj[hd[t]].kind = IF op[t] = "fetch" THEN "result" ELSE "batch"

FramesOK ==
  /\ \A t \in Coroutines : FrameOf(t) /\ HandleOf(t)
  /\ \A t, u \in Coroutines : hd[t] = hd[u] /\ hd[t] # Nil => t = u

(* A live handle refers to the Client; a Result gives its connection back  *)
(* exactly when it is done, a Batch only when it dies.                     *)
ObjectsOK ==
  \A h \in Handles :
    /\ Live(h) <=> h \in refs
    /\ Live(h) => obj[h].conn \in Conns /\ obj[h].owner \in Coroutines
    /\ obj[h].kind = "result" => (obj[h].released <=> obj[h].done)
    /\ obj[h].kind = "batch" => ~ obj[h].released

(* Holders and leases correspond one to one.                               *)
FrameLeases ==
  /\ \A t \in Coroutines : at[t] # Nil =>
       lease[at[t]] = IF pc[t] = "factory" THEN "opening" ELSE "leased"
  /\ \A t, u \in Coroutines : at[t] = at[u] /\ at[t] # Nil => t = u

ObjectLeases ==
  /\ \A h \in Handles : Pins(h) => lease[obj[h].conn] = "leased"
  /\ \A h, k \in Handles :
       Pins(h) /\ Pins(k) /\ obj[h].conn = obj[k].conn => h = k
  /\ \A h \in Handles, t \in Coroutines : Pins(h) => at[t] # obj[h].conn

LeasesHeld ==
  \A c \in Conns : lease[c] \in {"opening", "leased"} =>
    \/ \E t \in Coroutines : at[t] = c
    \/ \E h \in Handles : Pins(h) /\ obj[h].conn = c

(* The pool lives as long as something refers to the Client, and keeps     *)
(* idle connections only while it is open.                                 *)
PoolOK ==
  /\ poolState = "freed" <=> refs = {}
  /\ poolState \in {"closed", "freed"} => \A c \in Conns : lease[c] # "idle"

IInv ==
  /\ TypeOK /\ FramesOK /\ ObjectsOK
  /\ FrameLeases /\ ObjectLeases /\ LeasesHeld /\ PoolOK

(* What is on the socket of a connection that a query uses, whatever the   *)
(* exceptions are: a Result that has its connection has something left to  *)
(* read there.                                                             *)
UsedOK ==
  /\ \A t \in Coroutines :
       pc[t] = "NextBlock" /\ op[t] = "query" => wire[at[t]] # "ready"
  /\ \A h \in Handles : Pins(h) /\ obj[h].kind = "result" =>
       wire[obj[h].conn] # "ready" /\ ~ obj[h].broken

(* The exceptions about which ch_exception_poisons_connection is right:    *)
(* the bytes of a packet are all read, or the connection is given up.      *)
RightErrors ==
  /\ \A e \in ReadErrors : Poisons(e) \/ e = "server"
  /\ \A e \in DecodeErrors : Poisons(e)

(* With these, only a Batch that was marked broken has a socket out of     *)
(* step, and whoever is not in the middle of an exchange has a clean one.  *)
FramesClean ==
  \A t \in Coroutines : at[t] # Nil =>
    /\ pc[t] \in {"BeginExecute", "BeginInsert"} => wire[at[t]] = "ready"
    /\ pc[t] \in IOPoints => wire[at[t]] # "dirty"

Exchanging(h) == \E t \in Coroutines : hd[t] = h /\ pc[t] # "BeginInsert"

ObjectsClean ==
  \A h \in Handles : Pins(h) =>
    /\ ~ obj[h].broken => wire[obj[h].conn] # "dirty"
    /\ obj[h].kind = "batch" /\ ~ Exchanging(h) => wire[obj[h].conn] \in {"ready", "dirty"}

CleanOK == IdleIsClean /\ FramesClean /\ ObjectsClean

WireInv == UsedOK /\ (RightErrors => CleanOK)

=============================================================================
