---------------------------- MODULE MCEndpoints ----------------------------
(* Instances of Endpoints for TLC.                                         *)
EXTENDS Endpoints, TLC

CONSTANTS c1, c2

Settings(ports, tls, strategies, hosts) ==
  [port : ports, tls : tls, strategy : strategies, hosts : hosts]

(* One to three endpoints, each with a port, under every strategy.         *)
Rotated == Settings({NoPort}, {FALSE}, Strategies,
                    {<<>>, <<9001, 9002>>, <<9001, 9002, 9003>>})

(* Every kind of port text: none, not a number, too large, the limits.     *)
PortTexts == {NoPort, NotParsed, 1, 65535, 65536}

(* The first entry has no port of its own; 74537 is 9001 after truncation. *)
FirstPlain == Settings({NoPort, 9001, 74537}, BOOLEAN, {"round_robin"},
                       {<<>>, <<NoPort>>} \cup ({NoPort} \X PortTexts))

Sound == Rotated \cup FirstPlain

(* The first entry has one and others have none.                           *)
FirstWithPort == Settings({NoPort}, {FALSE}, Strategies,
                          {9001} \X {NoPort, 9002} \X {NoPort, 9002})

Symmetry == Permutations(Coroutines)
=============================================================================
