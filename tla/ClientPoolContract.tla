------------------------- MODULE ClientPoolContract -------------------------
(***************************************************************************)
(* ClientPool implements ConnectionLeases.  A connection that the factory  *)
(* is opening counts as leased to the coroutine that opens it.             *)
(***************************************************************************)
EXTENDS ClientPool

HolderOf(c) ==
  IF Holders(c) = {} THEN Nil ELSE CHOOSE x \in Holders(c) : TRUE

Contract == INSTANCE ConnectionLeases WITH
  Callers <- Coroutines,
  Objects <- Handles,
  Nobody <- Nil,
  life <- IF poolState \in {"none", "open"} THEN "open" ELSE poolState,
  state <- [c \in Conns |-> IF lease[c] = "opening" THEN "leased"
                            ELSE lease[c]],
  holder <- [c \in Conns |-> HolderOf(c)],
  clean <- [c \in Conns |-> wire[c] = "ready"]

(* Whatever the interleaving of calls, errors, destructors and close(),    *)
(* the connections live as ConnectionLeases says.                          *)
KeepsContract == Contract!Spec

=============================================================================
