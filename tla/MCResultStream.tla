--------------------------- MODULE MCResultStream ---------------------------
(* Instances of ResultStream for TLC.                                      *)
EXTENDS ResultStream

(* One exception that poisons the connection, one that does not.           *)
AnyErrors == {"connection", "server"}
RowErrors == {"assertion", "other"}
=============================================================================
