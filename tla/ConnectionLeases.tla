-------------------------- MODULE ConnectionLeases --------------------------
(***************************************************************************)
(* What the hidden pool of a Client promises of its connections, without   *)
(* coroutine frames, handles or exceptions: a connection is leased to one  *)
(* holder at a time; the call that acquired it may pass it once to the     *)
(* object it returns; it comes back to the idle list only when its socket  *)
(* is clean, and is destroyed otherwise; a closed pool keeps and grants    *)
(* nothing; a freed one leaves no connection behind.                       *)
(***************************************************************************)
CONSTANTS Conns, Callers, Objects, Nobody

VARIABLES
  life,    \* the pool: "open", "closed" or "freed"
  state,   \* each connection: "absent", "idle" or "leased"
  holder,  \* whom a leased connection belongs to
  clean    \* is nothing left to read on its socket

vars == <<life, state, holder, clean>>

Init ==
  /\ life = "open"
  /\ state = [c \in Conns |-> "absent"]
  /\ holder = [c \in Conns |-> Nobody]
  /\ clean \in [Conns -> BOOLEAN]

(* Only the connection of the step changes.                                *)
Only(c, st, x, cl) ==
  /\ state' = [state EXCEPT ![c] = st]
  /\ holder' = [holder EXCEPT ![c] = x]
  /\ clean' = [clean EXCEPT ![c] = cl]

Take(c, x) ==
  /\ life = "open"
  /\ state[c] = "absent" \/ (state[c] = "idle" /\ clean[c])
  /\ Only(c, "leased", x, clean[c])
  /\ UNCHANGED life

(* The holder works on the socket; a caller may hand it to its object.     *)
Work(c, x, cl) ==
  /\ state[c] = "leased"
  /\ x = holder[c] \/ (holder[c] \in Callers /\ x \in Objects)
  /\ Only(c, "leased", x, cl)
  /\ UNCHANGED life

Return(c) ==
  /\ life = "open" /\ state[c] = "leased"
  /\ Only(c, "idle", Nobody, TRUE)
  /\ UNCHANGED life

Drop(c, cl) ==
  /\ state[c] = "leased"
  /\ Only(c, "absent", Nobody, cl)
  /\ UNCHANGED life

Close ==
  /\ life = "open" /\ life' = "closed"
  /\ state' = [c \in Conns |-> IF state[c] = "idle" THEN "absent" ELSE state[c]]
  /\ UNCHANGED <<holder, clean>>

(* The Client goes, perhaps as the last connection comes back.             *)
Free ==
  /\ life # "freed" /\ life' = "freed"
  /\ \A c, d \in Conns : state[c] = "leased" /\ state[d] = "leased" => c = d
  /\ state' = [c \in Conns |-> "absent"]
  /\ holder' = [c \in Conns |-> Nobody]
  /\ clean' \in [Conns -> BOOLEAN]
  /\ \A c \in Conns : clean'[c] # clean[c] => state[c] = "leased"

Next ==
  \/ Close \/ Free
  \/ \E c \in Conns :
       \/ Return(c)
       \/ \E cl \in BOOLEAN :
            Drop(c, cl) \/ \E x \in Callers \cup Objects : Work(c, x, cl)
       \/ \E x \in Callers \cup Objects : Take(c, x)

Spec == Init /\ [][Next]_vars

=============================================================================
