------------------------------ MODULE ChErrors ------------------------------
(***************************************************************************)
(* The classes of C++ exception that reach the extension from clickhouse-  *)
(* cpp and from its own transport, and what the extension decides about    *)
(* each of them.  Only the dynamic type is consulted by the code, so a     *)
(* class stands for every exception of that type.                          *)
(***************************************************************************)

ErrorClasses ==
  { "connection",     \* chasync::ConnectionError
    "protocol",       \* clickhouse::ProtocolError
    "compression",    \* clickhouse::CompressionError
    "assertion",      \* clickhouse::AssertionError
    "server",         \* clickhouse::ServerException
    "validation",     \* clickhouse::ValidationError
    "other" }         \* UnimplementedError, OpenSSLError, any std::exception

(* Mutant: a server exception is taken for a broken connection.            *)
Poisons_Server(e) ==
  e \in {"connection", "protocol", "compression", "assertion", "server"}

(* The exceptions after which the connection is marked broken.             *)
Poisons(e) == e \in {"connection", "protocol", "compression", "assertion"}

(* The bytes the failed operation leaves on the socket.  A server          *)
(* exception is a complete packet that ends the query; any other exception *)
(* thrown while a packet is being read or written stops in the middle of   *)
(* it (the client library raises UnimplementedError after the name of an   *)
(* unsupported column type, for instance, with the column still unread).   *)
WireAfter(e, w) == IF e = "server" /\ w # "dirty" THEN "ready" ELSE "dirty"

=============================================================================
