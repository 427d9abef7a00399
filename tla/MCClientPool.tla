---------------------------- MODULE MCClientPool ----------------------------
(* Instances of ClientPool for TLC.  The sets are sets of model values;    *)
(* the coroutines, the slots of the pool and the handles are each          *)
(* interchangeable in the safety runs.                                     *)
EXTENDS ClientPoolContract, ClientPoolInv, TLC

Symmetry == Permutations(Coroutines) \cup Permutations(Conns)
              \cup Permutations(Handles)

(* Exceptions after which the decision of the code is right, and others.   *)
SoundErrors == {"connection", "server"}
OtherErrors == {"other"}
AssertionErrors == {"assertion"}
LostConnection == {"connection"}
NoErrors == {}
=============================================================================
