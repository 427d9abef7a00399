----------------------------- MODULE Endpoints -----------------------------
(***************************************************************************)
(* Which servers a Client knows and in which order a new connection tries  *)
(* them: the 'host', 'port', 'hosts' and 'open_strategy' settings that the *)
(* constructor reads, the rotation that the pool's factory does for each   *)
(* connection, and the dialling, which clickhouse-cpp does.                *)
(*                                                                         *)
(* Endpoint 0 is the primary, obj->host; k > 0 is obj->endpoints[k - 1].   *)
(* The names of hosts are abstracted to these numbers.  Opening a          *)
(* connection suspends its coroutine, so several may be opening at once.   *)
(***************************************************************************)
EXTENDS Integers, FiniteSets, Sequences

CONSTANTS
  Coroutines, \* each opens at most one connection at a time
  Configs,    \* the settings given to the constructor
  NoPort,     \* a setting without a port
  CursorMod,     \* conn_seq is an unsigned integer modulo CursorMod (2^32)
  MaxOpens    \* bound: connections that are ever asked for

Strategies == {"in_order", "round_robin", "random"}
NotParsed == 0
MaxPort == 65535

ASSUME ConfigsAssumption ==
  \A c \in Configs :
    c \in [port : Int \cup {NoPort}, tls : BOOLEAN, strategy : Strategies,
          hosts : Seq(Int \cup {NoPort})]
ASSUME NoPortAssumption == NoPort \notin Int
ASSUME OpensAssumption == CursorMod \in Nat \ {0} /\ MaxOpens \in Nat

VARIABLES
  config,    \* the settings of this Client
  endpoints, \* the endpoints, as a function on 0 .. total - 1
  connSeq,   \* obj->conn_seq
  up,        \* the endpoints whose server accepts connections now
  pc,        \* what each coroutine does
  left,      \* the endpoints it has not tried yet, with their ports
  tried,     \* the endpoints it has tried
  starts,    \* history: how many connections started at each endpoint
  opens      \* history: how many connections started

vars == <<config, endpoints, connSeq, up, pc, left, tried, starts,
          opens>>

-----------------------------------------------------------------------------
(* The constructor                                                         *)

(* Mutant: the port keeps the width of a PHP integer.                     *)
UInt16_Wide(n) == n

(* The cast to uint16_t.                                                   *)
UInt16(n) == n % (MaxPort + 1)

(* obj->port, before the 'hosts' are read.                                 *)
ClientPort(c) ==
  IF c.port # NoPort THEN UInt16(c.port) ELSE IF c.tls THEN 9440 ELSE 9000

(* Mutant: the largest port is refused.                                    *)
ParsePort_Below(text, default) ==
  IF text # NoPort /\ text > 0 /\ text < MaxPort THEN text ELSE default

(* ch_parse_host_port: what stands after the last colon, a number that is  *)
(* NotParsed when it is not a number, is used when it is a port.           *)
ParsePort(text, default) ==
  IF text # NoPort /\ text > 0 /\ text <= MaxPort THEN text ELSE default

(* The loop over 'hosts'.  The first entry overwrites obj->port, which the *)
(* entries after it take as their default.                                 *)
Endpoints(c) ==
  LET primary == IF c.hosts = <<>> THEN ClientPort(c)
                 ELSE ParsePort(c.hosts[1], ClientPort(c))
      total == IF c.hosts = <<>> THEN 1 ELSE Len(c.hosts)
  IN [k \in 0 .. total - 1 |->
        IF k = 0 THEN primary ELSE ParsePort(c.hosts[k + 1], primary)]

Total == Cardinality(DOMAIN endpoints)

TypeOK ==
  /\ config \in Configs
  /\ DOMAIN endpoints = 0 .. Total - 1
  /\ \A k \in DOMAIN endpoints : endpoints[k] \in 0 .. MaxPort
  /\ connSeq \in 0 .. CursorMod - 1
  /\ up \subseteq DOMAIN endpoints
  /\ pc \in [Coroutines -> {"idle", "dialling", "connected"}]
  /\ left \in [Coroutines -> Seq([host : DOMAIN endpoints, port : 0 .. MaxPort])]
  /\ tried \in [Coroutines -> Seq(DOMAIN endpoints)]
  /\ starts \in [DOMAIN endpoints -> 0 .. MaxOpens]
  /\ opens \in 0 .. MaxOpens

Init ==
  /\ config \in Configs
  /\ endpoints = Endpoints(config)
  /\ connSeq = 0
  /\ up \in SUBSET DOMAIN endpoints
  /\ pc = [c \in Coroutines |-> "idle"]
  /\ left = [c \in Coroutines |-> <<>>]
  /\ tried = [c \in Coroutines |-> <<>>]
  /\ starts = [k \in DOMAIN endpoints |-> 0]
  /\ opens = 0

-----------------------------------------------------------------------------
(* Opening a connection                                                    *)

(* Mutant: the cursor runs over the failover hosts only.                   *)
Starts_SkipsLast ==
  CASE Total = 1 \/ config.strategy = "in_order" -> {0}
    [] Total > 1 /\ config.strategy = "round_robin" -> {connSeq % (Total - 1)}
    [] OTHER -> 0 .. Total - 1

(* Where the next connection may start.                                    *)
Starts ==
  CASE Total = 1 \/ config.strategy = "in_order" -> {0}
    [] Total > 1 /\ config.strategy = "round_robin" -> {connSeq % Total}
    [] OTHER -> 0 .. Total - 1

(* Mutant: the failover list is not rotated past the start.                *)
Rotation_Fixed(start) ==
  [k \in 1 .. Total |-> IF k = 1 THEN start ELSE k - 1]

(* The start and the failover list after it, wrapping around.              *)
Rotation(start) == [k \in 1 .. Total |-> (start + k - 1) % Total]

(* ch_client_connect: a port of 0 becomes 9000, but only for the endpoint  *)
(* that is given as the host.                                              *)
DialList(start) ==
  [k \in 1 .. Total |->
     LET e == Rotation(start)[k]
     IN [host |-> e, port |-> IF k = 1 /\ endpoints[e] = 0 THEN 9000
                              ELSE endpoints[e]]]

(* The pool's factory.  The cursor moves before the coroutine suspends,    *)
(* and it moves only for round-robin over several endpoints.               *)
OpenBegins(c) ==
  /\ pc[c] = "idle" /\ opens < MaxOpens
  /\ \E start \in Starts :
       /\ left' = [left EXCEPT ![c] = DialList(start)]
       /\ starts' = [starts EXCEPT ![start] = @ + 1]
  /\ opens' = opens + 1
  /\ connSeq' = IF Total > 1 /\ config.strategy = "round_robin"
                THEN (connSeq + 1) % CursorMod ELSE connSeq
  /\ tried' = [tried EXCEPT ![c] = <<>>]
  /\ pc' = [pc EXCEPT ![c] = "dialling"]
  /\ UNCHANGED <<config, endpoints, up>>

(* One attempt of clickhouse-cpp, which goes through the host and then the *)
(* endpoints it was given until one accepts the connection.                *)
Attempt(c) ==
  /\ pc[c] = "dialling" /\ left[c] # <<>>
  /\ tried' = [tried EXCEPT ![c] = Append(@, Head(left[c]).host)]
  /\ left' = [left EXCEPT ![c] = Tail(@)]
  /\ UNCHANGED <<config, endpoints, connSeq, up, starts, opens>>

Accepting(c) == left[c] # <<>> /\ Head(left[c]).host \in up

Connected(c) == Accepting(c) /\ Attempt(c) /\ pc' = [pc EXCEPT ![c] = "connected"]

(* The server answers the handshake with an exception, or TLS fails: the   *)
(* open ends there, and ch_client_connect reports it.                      *)
HandshakeFails(c) == Accepting(c) /\ Attempt(c) /\ pc' = [pc EXCEPT ![c] = "idle"]

(* The open has failed when none is left.                                  *)
Refused(c) ==
  /\ ~Accepting(c) /\ Attempt(c)
  /\ pc' = [pc EXCEPT ![c] = IF left'[c] = <<>> THEN "idle" ELSE @]

Dial(c) == Connected(c) \/ HandshakeFails(c) \/ Refused(c)

(* The pool closes the connection of c, which then may open another.       *)
Disconnect(c) ==
  /\ pc[c] = "connected"
  /\ pc' = [pc EXCEPT ![c] = "idle"]
  /\ left' = [left EXCEPT ![c] = <<>>]
  /\ tried' = [tried EXCEPT ![c] = <<>>]
  /\ UNCHANGED <<config, endpoints, connSeq, up, starts, opens>>

(* A server stops or starts accepting connections.                         *)
ServerFlips(k) ==
  /\ up' = IF k \in up THEN up \ {k} ELSE up \cup {k}
  /\ UNCHANGED <<config, endpoints, connSeq, pc, left, tried, starts, opens>>

Next ==
  \/ \E c \in Coroutines : OpenBegins(c) \/ Dial(c) \/ Disconnect(c)
  \/ \E k \in DOMAIN endpoints : ServerFlips(k)

Spec == Init /\ [][Next]_vars

-----------------------------------------------------------------------------
(* Properties                                                              *)

HostsOf(dials) == [i \in DOMAIN dials |-> dials[i].host]

(* While connections open concurrently and servers come and go, what an    *)
(* open has tried and what it has not make up all the endpoints, each      *)
(* once, going round from where it started, and it starts at the primary   *)
(* when in order.                                                          *)
TriesEachEndpointOnce ==
  \A c \in Coroutines : tried[c] \o HostsOf(left[c]) # <<>> =>
    LET order == tried[c] \o HostsOf(left[c])
    IN /\ Len(order) = Total
       /\ \A i \in 1 .. Total - 1 : order[i + 1] = (order[i] + 1) % Total
       /\ config.strategy = "in_order" => order[1] = 0

(* Round-robin spreads the connections over the hosts: whatever the order  *)
(* in which coroutines open them, and though opens fail, no endpoint is    *)
(* ahead by more than one, and one more for each time the cursor wrapped.  *)
SpreadsOverHosts ==
  config.strategy = "round_robin" =>
    \A i, j \in DOMAIN endpoints :
      starts[i] - starts[j] <= 1 + (opens \div CursorMod)

(* Each endpoint is dialled at the port its entry names, and otherwise at  *)
(* the client's port, whatever position the rotation gave it.              *)
DialsConfiguredPort ==
  \A c \in Coroutines : \A i \in DOMAIN left[c] :
    LET k == left[c][i].host
    IN left[c][i].port =
         IF k + 1 \in DOMAIN config.hosts
           /\ config.hosts[k + 1] \in (1 .. MaxPort)
         THEN config.hosts[k + 1]
         ELSE ClientPort(config)

(* The invariant behind the theorems of Endpoints_proofs.  Among the first *)
(* p values of the cursor, Turns(i, p) start at endpoint i.                *)
Turns(i, p) == (p \div Total) + (IF i < p % Total THEN 1 ELSE 0)

CursorOK ==
  /\ \A i \in DOMAIN endpoints : starts[i] <= opens
  /\ config.strategy = "round_robin" /\ Total > 1 =>
       /\ connSeq = opens % CursorMod
       /\ \A i \in DOMAIN endpoints :
            starts[i] = (opens \div CursorMod) * Turns(i, CursorMod)
                          + Turns(i, connSeq)

(* What a coroutine has tried and has still to try is one dial list.       *)
Dialled(c, start) ==
  /\ config.strategy = "in_order" => start = 0
  /\ Len(tried[c]) + Len(left[c]) = Total
  /\ \A i \in DOMAIN tried[c] : tried[c][i] = DialList(start)[i].host
  /\ \A i \in DOMAIN left[c] : left[c][i] = DialList(start)[Len(tried[c]) + i]

DiallingOK ==
  \A c \in Coroutines :
    /\ pc[c] = "dialling" => left[c] # <<>>
    /\ \/ tried[c] = <<>> /\ left[c] = <<>>
       \/ \E start \in DOMAIN endpoints : Dialled(c, start)

EndpointsInv ==
  TypeOK /\ endpoints = Endpoints(config) /\ CursorOK /\ DiallingOK

=============================================================================
