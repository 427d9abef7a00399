----------------------------- MODULE RowStream -----------------------------
(***************************************************************************)
(* What a Result promises, without blocks, cursors, iterators or calls:    *)
(* the server makes rows, the program gets each of them once and in order, *)
(* is told "no more" only when it has got them all, and the connection     *)
(* under the Result is given back exactly when the stream is over.         *)
(***************************************************************************)
EXTENDS Naturals, Sequences

VARIABLES
  made,   \* how many rows the server has made
  out,    \* the rows the program got, in order
  phase,  \* "open", "ended", "failed" or "abandoned"
  held    \* is the connection with the Result

vars == <<made, out, phase, held>>

Init == made = 0 /\ out = <<>> /\ phase = "open" /\ held = TRUE

Make ==
  /\ phase = "open" /\ held
  /\ made' \in Nat /\ made' > made
  /\ UNCHANGED <<out, phase, held>>

Give ==
  /\ phase = "open" /\ held
  /\ Len(out) < made
  /\ out' = Append(out, Len(out) + 1)
  /\ UNCHANGED <<made, phase, held>>

Over(how) ==
  /\ phase = "open" /\ phase' = how
  /\ held' = FALSE
  /\ UNCHANGED <<made, out>>

End == Len(out) = made /\ Over("ended")

Next == Make \/ Give \/ End \/ Over("failed") \/ Over("abandoned")

Spec == Init /\ [][Next]_vars

=============================================================================
