-------------------------- MODULE Endpoints_proofs --------------------------
(***************************************************************************)
(* The rotation over the endpoints, proved for any number of coroutines    *)
(* and of hosts, any width of the cursor and any port texts.               *)
(***************************************************************************)
EXTENDS Endpoints, TLAPS, FiniteSetTheorems

-----------------------------------------------------------------------------
(* Division and sequences                                                  *)

(* Quotient and remainder exist.                                           *)
LEMMA DivMod ==
  ASSUME NEW n \in Nat \ {0}, NEW a \in Nat
  PROVE  a = n * (a \div n) + (a % n) /\ a % n \in 0 .. n - 1 /\ a \div n \in Nat
OBVIOUS

(* Reducing a number that is less than two rounds.                         *)
LEMMA ModSmall ==
  ASSUME NEW n \in Nat \ {0}, NEW x \in 0 .. 2 * n - 1
  PROVE  x % n = IF x < n THEN x ELSE x - n
OBVIOUS

(* Counting on by one.                                                     *)
LEMMA DivModNext ==
  ASSUME NEW n \in Nat \ {0}, NEW a \in Nat
  PROVE  /\ (a % n) = n - 1 =>
              (a + 1) % n = 0 /\ (a + 1) \div n = (a \div n) + 1
         /\ (a % n) # n - 1 =>
              (a + 1) % n = (a % n) + 1 /\ (a + 1) \div n = a \div n
OBVIOUS

(* The successor of a reduced number, reduced.                             *)
LEMMA ModStep ==
  ASSUME NEW n \in Nat \ {0}, NEW a \in Nat
  PROVE  ((a % n) + 1) % n = (a + 1) % n
<1> PICK r \in 0 .. n - 1 : r = a % n
  BY DivMod
<1>1. (r + 1) % n = IF r + 1 < n THEN r + 1 ELSE 0
  OBVIOUS
<1>2. /\ (a % n) = n - 1 => (a + 1) % n = 0
      /\ (a % n) # n - 1 => (a + 1) % n = (a % n) + 1
  BY DivModNext
<1> QED BY <1>1, <1>2

-----------------------------------------------------------------------------
(* The endpoints                                                           *)

(* Two sequences, one after the other.                                     *)
LEMMA Concatenation ==
  ASSUME NEW S, NEW s1 \in Seq(S), NEW s2 \in Seq(S)
  PROVE  /\ Len(s1) \in Nat /\ DOMAIN s1 = 1 .. Len(s1)
         /\ Len(s2) \in Nat /\ DOMAIN s2 = 1 .. Len(s2)
         /\ Len(s1 \o s2) = Len(s1) + Len(s2)
         /\ \A i \in 1 .. Len(s1) : (s1 \o s2)[i] = s1[i]
         /\ \A i \in 1 .. Len(s2) : (s1 \o s2)[Len(s1) + i] = s2[i]
OBVIOUS

(* The provers need no more of the largest port than this.                 *)
LEMMA MaxPortType ==
  MaxPort \in Nat \ {0} /\ 9000 \in 0 .. MaxPort /\ 9440 \in 0 .. MaxPort
BY DEF MaxPort

(* A port text gives a port.                                               *)
LEMMA PortType ==
  ASSUME NEW text \in Int \cup {NoPort}, NEW default \in 0 .. MaxPort
  PROVE  /\ ParsePort(text, default) \in 0 .. MaxPort
         /\ ParsePort(text, default) =
              IF text \in 1 .. MaxPort THEN text ELSE default
BY NoPortAssumption, MaxPortType DEF ParsePort

(* The settings of a Client.                                               *)
LEMMA ConfigType ==
  ASSUME NEW c \in Configs
  PROVE  /\ c.port \in Int \cup {NoPort}
         /\ c.strategy \in Strategies
         /\ c.hosts \in Seq(Int \cup {NoPort})
<1>1. c \in [port : Int \cup {NoPort}, tls : BOOLEAN, strategy : Strategies,
             hosts : Seq(Int \cup {NoPort})]
  BY ConfigsAssumption
<1> QED BY <1>1, Zenon

(* The client's own port.                                                  *)
LEMMA ClientPortType ==
  ASSUME NEW c \in Configs
  PROVE  ClientPort(c) \in 0 .. MaxPort
<1>1. \A n \in Int : UInt16(n) \in 0 .. MaxPort
  BY MaxPortType DEF UInt16
<1>2. 9440 \in 0 .. MaxPort /\ 9000 \in 0 .. MaxPort
  BY MaxPortType
<1>3. c.port # NoPort => c.port \in Int
  BY ConfigType
<1>4. CASE c.port # NoPort
  BY <1>1, <1>3, <1>4 DEF ClientPort
<1>5. CASE c.port = NoPort
  BY <1>2, <1>5 DEF ClientPort
<1> QED BY <1>4, <1>5

(* There is at least one endpoint, they are numbered from 0 and each has a *)
(* port.                                                                   *)
LEMMA EndpointsType ==
  ASSUME NEW c \in Configs
  PROVE  \E n \in Nat \ {0} :
           /\ Endpoints(c) \in [0 .. n - 1 -> 0 .. MaxPort]
           /\ n = IF c.hosts = <<>> THEN 1 ELSE Len(c.hosts)
<1> DEFINE n == IF c.hosts = <<>> THEN 1 ELSE Len(c.hosts)
           primary == IF c.hosts = <<>> THEN ClientPort(c)
                      ELSE ParsePort(c.hosts[1], ClientPort(c))
<1>1. /\ c.hosts \in Seq(Int \cup {NoPort})
      /\ n \in Nat \ {0}
      /\ c.hosts # <<>> => \A k \in 1 .. n : c.hosts[k] \in Int \cup {NoPort}
  BY ConfigType
<1>2. primary \in 0 .. MaxPort
  <2>1. CASE c.hosts = <<>>
    BY <2>1, ClientPortType
  <2>2. CASE c.hosts # <<>>
    <3>1. c.hosts[1] \in Int \cup {NoPort} /\ ClientPort(c) \in 0 .. MaxPort
      BY <1>1, <2>2, ClientPortType
    <3> QED BY ONLY <2>2, <3>1, PortType
  <2> QED BY <2>1, <2>2
<1> HIDE DEF primary
<1>3. ASSUME NEW k \in 0 .. n - 1, k # 0
      PROVE  ParsePort(c.hosts[k + 1], primary) \in 0 .. MaxPort
  <2>1. c.hosts[k + 1] \in Int \cup {NoPort}
    BY <1>1, <1>3
  <2> QED BY ONLY <1>2, <2>1, PortType
<1>4. Endpoints(c) = [k \in 0 .. n - 1 |->
                        IF k = 0 THEN primary
                        ELSE ParsePort(c.hosts[k + 1], primary)]
  BY DEF Endpoints, primary
<1> QED BY <1>1, <1>2, <1>3, <1>4

(* What the constructor left, in every state.                              *)
Numbered ==
  /\ config \in Configs
  /\ Total \in Nat \ {0}
  /\ endpoints \in [0 .. Total - 1 -> 0 .. MaxPort]

LEMMA TotalType ==
  ASSUME config \in Configs, endpoints = Endpoints(config)
  PROVE  /\ Numbered
         /\ Total = IF config.hosts = <<>> THEN 1 ELSE Len(config.hosts)
<1> PICK n \in Nat \ {0} :
           /\ endpoints \in [0 .. n - 1 -> 0 .. MaxPort]
           /\ n = IF config.hosts = <<>> THEN 1 ELSE Len(config.hosts)
  BY EndpointsType
<1>1. Cardinality(0 .. n - 1) = n
  BY FS_Interval, 0 <= n - 1
<1> QED BY <1>1 DEF Numbered, Total

-----------------------------------------------------------------------------
(* The dial list                                                           *)

(* A dial list goes round all the endpoints.                               *)
LEMMA DialListType ==
  ASSUME Numbered, NEW start \in DOMAIN endpoints
  PROVE  /\ DialList(start) \in Seq([host : DOMAIN endpoints, port : 0 .. MaxPort])
         /\ Len(DialList(start)) = Total
         /\ \A k \in 1 .. Total :
              DialList(start)[k].host = (start + k - 1) % Total
<1>1. \A k \in 1 .. Total :
        /\ Rotation(start)[k] = (start + k - 1) % Total
        /\ Rotation(start)[k] \in DOMAIN endpoints
  BY DivMod DEF Rotation, Numbered
<1>2. ASSUME NEW k \in 1 .. Total
      PROVE  /\ DialList(start)[k] \in
                  [host : DOMAIN endpoints, port : 0 .. MaxPort]
             /\ DialList(start)[k].host = Rotation(start)[k]
  <2> DEFINE e == Rotation(start)[k]
             p == IF k = 1 /\ endpoints[e] = 0 THEN 9000 ELSE endpoints[e]
  <2>1. e \in DOMAIN endpoints /\ endpoints[e] \in 0 .. MaxPort
    BY <1>1 DEF Numbered
  <2>2. p \in 0 .. MaxPort
    BY <2>1, MaxPortType
  <2>3. DialList(start)[k] = [host |-> e, port |-> p]
    BY DEF DialList
  <2> HIDE DEF e, p
  <2>4. DialList(start)[k].host = e
    BY <2>3
  <2> QED BY <2>1, <2>2, <2>3, <2>4 DEF e
<1>3. DialList(start) \in [1 .. Total -> [host : DOMAIN endpoints, port : 0 .. MaxPort]]
  <2>1. DialList(start) = [k \in 1 .. Total |-> DialList(start)[k]]
    BY DEF DialList
  <2> QED BY <1>2, <2>1
<1>4. Total \in Nat
  BY DEF Numbered
<1>5. \A k \in 1 .. Total : DialList(start)[k].host = (start + k - 1) % Total
  BY <1>1, <1>2
<1> DEFINE Dials == [host : DOMAIN endpoints, port : 0 .. MaxPort]
           dials == DialList(start)
<1>6. dials \in [1 .. Total -> Dials]
  BY <1>3
<1> HIDE DEF Dials, dials
<1>7. dials \in Seq(Dials) /\ Len(dials) = Total
  BY <1>4, <1>6
<1> QED BY <1>5, <1>7 DEF Dials, dials

(* A connection starts at one of the endpoints.                            *)
LEMMA StartsType ==
  ASSUME Numbered, connSeq \in Nat
  PROVE  /\ Starts \subseteq DOMAIN endpoints
         /\ config.strategy = "in_order" => Starts = {0}
         /\ config.strategy = "round_robin" /\ Total > 1 =>
              Starts = {connSeq % Total}
<1>1. connSeq % Total \in 0 .. Total - 1
  BY DivMod DEF Numbered
<1>2. config.strategy \in Strategies
  BY ConfigType DEF Numbered
<1> QED BY <1>1, <1>2 DEF Starts, Numbered, Strategies

USE OpensAssumption

-----------------------------------------------------------------------------
(* The turns of an endpoint                                                *)

(* The cursor gives its next value's turn to one endpoint.                 *)
LEMMA TurnsNext ==
  ASSUME Total \in Nat \ {0}, NEW p \in Nat, NEW i \in 0 .. Total - 1
  PROVE  /\ Turns(i, p) \in Nat
         /\ Turns(i, 0) = 0
         /\ Turns(i, p + 1) = Turns(i, p) + (IF i = p % Total THEN 1 ELSE 0)
<1>1. /\ p \div Total \in Nat
      /\ p % Total \in 0 .. Total - 1
  BY DivMod
<1>2. 0 \div Total = 0 /\ 0 % Total = 0
  OBVIOUS
<1> DEFINE q == p \div Total
           r == p % Total
<1>3. /\ r = Total - 1 => (p + 1) % Total = 0 /\ (p + 1) \div Total = q + 1
      /\ r # Total - 1 => (p + 1) % Total = r + 1 /\ (p + 1) \div Total = q
  BY DivModNext
<1>4. /\ Turns(i, p) = q + (IF i < r THEN 1 ELSE 0)
      /\ Turns(i, p + 1) = ((p + 1) \div Total)
                             + (IF i < (p + 1) % Total THEN 1 ELSE 0)
      /\ Turns(i, 0) = 0
  BY <1>2 DEF Turns
<1> HIDE DEF q, r
<1>5. q \in Nat /\ r \in 0 .. Total - 1
  BY <1>1 DEF q, r
<1>6. Turns(i, p + 1) = Turns(i, p) + (IF i = r THEN 1 ELSE 0)
  <2>1. CASE r = Total - 1
    BY <1>3, <1>4, <1>5, <2>1
  <2>2. CASE r # Total - 1
    BY <1>3, <1>4, <1>5, <2>2
  <2> QED BY <2>1, <2>2
<1>7. Turns(i, p) \in Nat
  BY <1>4, <1>5
<1> QED BY <1>4, <1>6, <1>7 DEF r

(* The endpoints take turns evenly.                                        *)
LEMMA TurnsEven ==
  ASSUME Total \in Nat \ {0}, NEW p \in Nat,
         NEW i \in 0 .. Total - 1, NEW j \in 0 .. Total - 1
  PROVE  /\ Turns(i, p) \in Nat
         /\ Turns(j, p) \in Nat
         /\ Turns(i, p) <= Turns(j, p) + 1
BY DivMod DEF Turns

-----------------------------------------------------------------------------
(* The invariant                                                           *)

LEMMA InvInit == Init => EndpointsInv
<1> SUFFICES ASSUME Init PROVE EndpointsInv
  OBVIOUS
<1>1. Numbered
  BY TotalType DEF Init
<1>2. TypeOK
  BY <1>1 DEF TypeOK, Init, Numbered
<1>3. CursorOK
  <2>1. 0 % CursorMod = 0 /\ 0 \div CursorMod = 0
    BY OpensAssumption
  <2>2. \A i \in DOMAIN endpoints :
          Turns(i, 0) = 0 /\ Turns(i, CursorMod) \in Nat
    BY <1>1, TurnsNext DEF Numbered
  <2>3. \A i \in DOMAIN endpoints : 0 * Turns(i, CursorMod) = 0
    BY <2>2
  <2> QED BY <2>1, <2>2, <2>3 DEF CursorOK, Init
<1>4. DiallingOK
  BY DEF DiallingOK, Init
<1> QED BY <1>2, <1>3, <1>4 DEF EndpointsInv, Init

(* The cursor and the starts of a connection keep CursorOK.                *)
LEMMA OpenKeepsCursor ==
  ASSUME EndpointsInv, NEW c \in Coroutines, OpenBegins(c)
  PROVE  CursorOK' /\ connSeq' \in 0 .. CursorMod - 1
                   /\ starts' \in [DOMAIN endpoints -> 0 .. MaxOpens]
<1>1. /\ Numbered
      /\ connSeq \in 0 .. CursorMod - 1
      /\ starts \in [DOMAIN endpoints -> 0 .. MaxOpens]
      /\ opens \in Nat /\ opens < MaxOpens /\ opens' = opens + 1
      /\ \A i \in DOMAIN endpoints : starts[i] <= opens
      /\ Total' = Total /\ endpoints' = endpoints /\ config' = config
  BY TotalType DEF EndpointsInv, TypeOK, CursorOK, OpenBegins, Total
<1>2. PICK start \in Starts : starts' = [starts EXCEPT ![start] = @ + 1]
  BY DEF OpenBegins
<1>3. start \in DOMAIN endpoints
  BY <1>1, StartsType
<1>4. /\ \A i \in DOMAIN endpoints :
           /\ starts'[i] = starts[i] + (IF i = start THEN 1 ELSE 0)
           /\ starts'[i] <= opens'
      /\ starts' \in [DOMAIN endpoints -> 0 .. MaxOpens]
  BY <1>1, <1>2, <1>3
<1>5. connSeq' \in 0 .. CursorMod - 1
  BY <1>1, DivMod DEF OpenBegins
<1>6. CASE config.strategy = "round_robin" /\ Total > 1
  <2> DEFINE w == opens \div CursorMod
  <2>1. /\ connSeq = opens % CursorMod
        /\ connSeq' = (connSeq + 1) % CursorMod
        /\ start = connSeq % Total
        /\ w \in Nat
    <3>1. Starts = {connSeq % Total}
      BY <1>1, <1>6, StartsType
    <3>2. w \in Nat
      BY <1>1, DivMod
    <3> QED BY <1>2, <1>6, <3>1, <3>2 DEF EndpointsInv, CursorOK, OpenBegins
  <2>2. /\ connSeq' = opens' % CursorMod
        /\ connSeq = CursorMod - 1 =>
             connSeq' = 0 /\ opens' \div CursorMod = w + 1
        /\ connSeq # CursorMod - 1 =>
             connSeq' = connSeq + 1 /\ opens' \div CursorMod = w
    <3>1. CursorMod \in Nat \ {0} /\ opens \in Nat
      BY <1>1
    <3>2. ((opens % CursorMod) + 1) % CursorMod = (opens + 1) % CursorMod
      BY ONLY <3>1, ModStep
    <3>3. /\ (opens % CursorMod) = CursorMod - 1 =>
               /\ (opens + 1) % CursorMod = 0
               /\ (opens + 1) \div CursorMod = (opens \div CursorMod) + 1
          /\ (opens % CursorMod) # CursorMod - 1 =>
               /\ (opens + 1) % CursorMod = (opens % CursorMod) + 1
               /\ (opens + 1) \div CursorMod = opens \div CursorMod
      BY ONLY <3>1, DivModNext
    <3>4. connSeq = opens % CursorMod /\ opens' = opens + 1
          /\ connSeq' = (connSeq + 1) % CursorMod
      BY <1>1, <2>1
    <3> QED BY ONLY <3>2, <3>3, <3>4, Zenon
  <2> HIDE DEF w
  <2>3. ASSUME NEW i \in DOMAIN endpoints
        PROVE  starts'[i] = (opens' \div CursorMod) * Turns(i, CursorMod)
                              + Turns(i, connSeq')
    <3>1. /\ starts[i] = w * Turns(i, CursorMod) + Turns(i, connSeq)
          /\ starts'[i] = starts[i] + (IF i = start THEN 1 ELSE 0)
      BY <1>4, <1>6 DEF EndpointsInv, CursorOK, w
    <3>2. /\ Turns(i, connSeq) \in Nat
          /\ Turns(i, CursorMod) \in Nat
          /\ Turns(i, 0) = 0
          /\ Turns(i, connSeq + 1) =
               Turns(i, connSeq) + (IF i = start THEN 1 ELSE 0)
      <4>1. /\ Total \in Nat \ {0} /\ i \in 0 .. Total - 1
            /\ connSeq \in Nat /\ CursorMod \in Nat
        BY <1>1 DEF Numbered
      <4>2. Turns(i, CursorMod) \in Nat
        BY ONLY <4>1, TurnsNext
      <4>3. /\ Turns(i, connSeq) \in Nat
            /\ Turns(i, 0) = 0
            /\ Turns(i, connSeq + 1) = Turns(i, connSeq)
                 + (IF i = connSeq % Total THEN 1 ELSE 0)
        BY ONLY <4>1, TurnsNext
      <4> QED BY <2>1, <4>2, <4>3
    <3>3. starts'[i] = w * Turns(i, CursorMod) + Turns(i, connSeq + 1)
      BY <2>1, <3>1, <3>2
    <3>4. CASE connSeq = CursorMod - 1
      <4>1. (w + 1) * Turns(i, CursorMod)
              = w * Turns(i, CursorMod) + Turns(i, CursorMod)
        BY <2>1, <3>2
      <4>2. connSeq + 1 = CursorMod
        BY <3>4
      <4>3. starts'[i] = (w + 1) * Turns(i, CursorMod) + Turns(i, 0)
        BY <2>1, <3>2, <3>3, <4>1, <4>2
      <4> QED BY <2>2, <3>4, <4>3
    <3>5. CASE connSeq # CursorMod - 1
      BY <2>2, <3>3, <3>5
    <3> QED BY <3>4, <3>5
  <2>4. \A i \in DOMAIN endpoints : Turns(i, CursorMod)' = Turns(i, CursorMod)
                                    /\ Turns(i, connSeq)' = Turns(i, connSeq')
    BY <1>1 DEF Turns
  <2> QED BY <1>1, <1>4, <1>5, <2>2, <2>3, <2>4 DEF CursorOK
<1>7. CASE ~(config.strategy = "round_robin" /\ Total > 1)
  BY <1>1, <1>4, <1>5, <1>7 DEF CursorOK
<1> QED BY <1>6, <1>7

(* The steps that leave the cursor alone keep CursorOK.                    *)
LEMMA CursorKept ==
  ASSUME CursorOK, UNCHANGED <<config, endpoints, connSeq, starts, opens>>
  PROVE  CursorOK'
BY DEF CursorOK, Turns, Total

(* Dialling concerns the coroutine that dials.                             *)
LEMMA DiallingKept ==
  ASSUME Numbered, UNCHANGED <<config, endpoints>>, NEW c,
         c \in Coroutines, left'[c] = left[c], tried'[c] = tried[c],
         \/ tried[c] = <<>> /\ left[c] = <<>>
         \/ \E start \in DOMAIN endpoints : Dialled(c, start)
  PROVE  \/ tried'[c] = <<>> /\ left'[c] = <<>>
         \/ \E start \in DOMAIN endpoints' : Dialled(c, start)'
<1>1. Total' = Total
  BY DEF Total
<1>2. \A start : DialList(start)' = DialList(start)
  BY <1>1 DEF DialList, Rotation
<1>3. CASE tried[c] = <<>> /\ left[c] = <<>>
  BY <1>3
<1>4. ASSUME NEW start \in DOMAIN endpoints, Dialled(c, start)
      PROVE  start \in DOMAIN endpoints' /\ Dialled(c, start)'
  BY <1>1, <1>2, <1>4 DEF Dialled
<1> QED BY <1>3, <1>4

(* OpenBegins: a new dial list, of which nothing is tried.                 *)
LEMMA OpenInv ==
  ASSUME EndpointsInv, NEW c \in Coroutines, OpenBegins(c)
  PROVE  EndpointsInv'
<1>1. /\ Numbered
      /\ connSeq \in Nat
      /\ UNCHANGED <<config, endpoints, up>> /\ Total' = Total
  BY TotalType DEF EndpointsInv, TypeOK, OpenBegins, Total
<1>2. CursorOK' /\ connSeq' \in 0 .. CursorMod - 1
      /\ starts' \in [DOMAIN endpoints -> 0 .. MaxOpens]
  BY OpenKeepsCursor
<1>3. PICK start \in Starts : left' = [left EXCEPT ![c] = DialList(start)]
  BY DEF OpenBegins
<1>4. /\ start \in DOMAIN endpoints
      /\ config.strategy = "in_order" => start = 0
  BY <1>1, StartsType
<1>5. /\ DialList(start) \in Seq([host : DOMAIN endpoints, port : 0 .. MaxPort])
      /\ Len(DialList(start)) = Total
  BY <1>1, <1>4, DialListType
<1>6. TypeOK'
  <2> DEFINE Dials == [host : DOMAIN endpoints, port : 0 .. MaxPort]
  <2>1. left' \in [Coroutines -> Seq(Dials)]
    BY <1>3, <1>5 DEF EndpointsInv, TypeOK
  <2>2. /\ tried' \in [Coroutines -> Seq(DOMAIN endpoints)]
        /\ pc' \in [Coroutines -> {"idle", "dialling", "connected"}]
    BY DEF EndpointsInv, TypeOK, OpenBegins
  <2>3. opens' \in 0 .. MaxOpens
    BY DEF EndpointsInv, TypeOK, OpenBegins
  <2>4. /\ config \in Configs
        /\ DOMAIN endpoints = 0 .. Total - 1
        /\ \A k \in DOMAIN endpoints : endpoints[k] \in 0 .. MaxPort
        /\ up \subseteq DOMAIN endpoints
    BY DEF EndpointsInv, TypeOK
  <2> QED BY ONLY <1>1, <1>2, <2>1, <2>2, <2>3, <2>4 DEF TypeOK
<1>7. /\ left'[c] = DialList(start) /\ left'[c] # <<>>
      /\ tried'[c] = <<>>
      /\ pc'[c] = "dialling"
      /\ \A d \in Coroutines \ {c} :
           left'[d] = left[d] /\ tried'[d] = tried[d] /\ pc'[d] = pc[d]
  BY <1>1, <1>3, <1>5 DEF EndpointsInv, TypeOK, OpenBegins, Numbered
<1>8. Dialled(c, start)'
  <2>1. \A s : DialList(s)' = DialList(s)
    BY <1>1 DEF DialList, Rotation
  <2> QED BY <1>1, <1>4, <1>5, <1>7, <2>1 DEF Dialled, Numbered
<1>9. DiallingOK'
  <2> SUFFICES ASSUME NEW d \in Coroutines
               PROVE  /\ pc'[d] = "dialling" => left'[d] # <<>>
                      /\ \/ tried'[d] = <<>> /\ left'[d] = <<>>
                         \/ \E s \in DOMAIN endpoints' : Dialled(d, s)'
    BY DEF DiallingOK
  <2>1. CASE d = c
    BY <1>1, <1>4, <1>7, <1>8, <2>1
  <2>2. CASE d # c
    BY <1>1, <1>7, <2>2, DiallingKept DEF EndpointsInv, DiallingOK
  <2> QED BY <2>1, <2>2
<1> QED BY <1>1, <1>2, <1>6, <1>9 DEF EndpointsInv

(* Dial: the head of what is left becomes the last of what is tried.       *)
LEMMA DialStep ==
  ASSUME EndpointsInv, NEW c \in Coroutines, Dial(c)
  PROVE  /\ Numbered /\ TypeOK' /\ Total' = Total
         /\ tried'[c] = Append(tried[c], left[c][1].host)
         /\ left'[c] = Tail(left[c])
         /\ \A d \in Coroutines \ {c} :
              left'[d] = left[d] /\ tried'[d] = tried[d] /\ pc'[d] = pc[d]
         /\ pc'[c] = "dialling" => left'[c] # <<>>
         /\ \E start \in DOMAIN endpoints : Dialled(c, start) /\ Dialled(c, start)'
<1>1. Numbered /\ Total' = Total
  BY TotalType DEF EndpointsInv, TypeOK, Dial, Connected, HandshakeFails, Refused, Attempt, Total
<1> DEFINE Dials == [host : DOMAIN endpoints, port : 0 .. MaxPort]
<1>2. /\ left[c] \in Seq(Dials) /\ left[c] # <<>>
      /\ tried[c] \in Seq(DOMAIN endpoints)
      /\ pc[c] = "dialling"
  BY DEF EndpointsInv, TypeOK, Dial, Connected, HandshakeFails, Refused, Attempt
<1>3. Head(left[c]) = left[c][1] /\ left[c][1].host \in DOMAIN endpoints
  <2>1. \A D : \A l \in Seq(D) : l # <<>> => l[1] \in D
    OBVIOUS
  <2>2. left[c][1] \in Dials
    BY <1>2, <2>1
  <2> QED BY <1>2, <2>2
<1> DEFINE e == left[c][1].host
<1>4. /\ tried' = [tried EXCEPT ![c] = Append(tried[c], e)]
      /\ left' = [left EXCEPT ![c] = Tail(left[c])]
      /\ pc' \in {[pc EXCEPT ![c] = "connected"], [pc EXCEPT ![c] = "idle"], pc}
      /\ pc' = pc => left'[c] # <<>>
      /\ UNCHANGED <<config, endpoints, connSeq, up, starts, opens>>
  <2>1. /\ tried' = [tried EXCEPT ![c] = Append(tried[c], e)]
        /\ left' = [left EXCEPT ![c] = Tail(left[c])]
        /\ UNCHANGED <<config, endpoints, connSeq, up, starts, opens>>
    BY <1>3 DEF Dial, Connected, HandshakeFails, Refused, Attempt
  <2>2. pc \in [Coroutines -> {"idle", "dialling", "connected"}] /\ pc[c] = "dialling"
    BY <1>2 DEF EndpointsInv, TypeOK
  <2>3. [pc EXCEPT ![c] = "connected"] # pc /\ [pc EXCEPT ![c] = "idle"] # pc
    BY <2>2
  <2>4. Refused(c) /\ left'[c] # <<>> => pc' = pc
    BY <2>2 DEF Refused
  <2>5. Refused(c) /\ left'[c] = <<>> => pc' = [pc EXCEPT ![c] = "idle"]
    BY DEF Refused
  <2> QED BY <2>1, <2>3, <2>4, <2>5 DEF Dial, Connected, HandshakeFails
<1> HIDE DEF e
<1>5. /\ Tail(left[c]) \in Seq(Dials)
      /\ Append(tried[c], e) \in Seq(DOMAIN endpoints)
  BY <1>2, <1>3 DEF e
<1>6. TypeOK'
  BY <1>1, <1>2, <1>4, <1>5 DEF EndpointsInv, TypeOK
<1>7. /\ tried'[c] = Append(tried[c], e)
      /\ left'[c] = Tail(left[c])
      /\ \A d \in Coroutines \ {c} :
           left'[d] = left[d] /\ tried'[d] = tried[d] /\ pc'[d] = pc[d]
      /\ pc'[c] = "dialling" => left'[c] # <<>>
  BY <1>2, <1>4 DEF EndpointsInv, TypeOK
<1>8. PICK start \in DOMAIN endpoints : Dialled(c, start)
  BY <1>2 DEF EndpointsInv, DiallingOK
<1>9. Dialled(c, start)'
  <2>1. \A s : DialList(s)' = DialList(s)
    BY <1>1, <1>4 DEF DialList, Rotation
  <2> DEFINE list == DialList(start)
             t == tried[c]
             l == left[c]
  <2>2. /\ t \in Seq(DOMAIN endpoints) /\ l \in Seq(Dials) /\ l # <<>>
        /\ Len(t) + Len(l) = Total
        /\ \A i \in DOMAIN t : t[i] = list[i].host
        /\ \A i \in DOMAIN l : l[i] = list[Len(t) + i]
        /\ e = l[1].host
    BY <1>2, <1>8 DEF Dialled, e
  <2> HIDE DEF list, t, l, Dials
  <2>3. /\ Len(Append(t, e)) + Len(Tail(l)) = Total
        /\ \A i \in DOMAIN Append(t, e) : Append(t, e)[i] = list[i].host
        /\ \A i \in DOMAIN Tail(l) : Tail(l)[i] = list[Len(Append(t, e)) + i]
    <3>1. e = list[Len(t) + 1].host /\ Len(Append(t, e)) = Len(t) + 1
      BY <2>2
    <3>2. /\ Len(Tail(l)) = Len(l) - 1
          /\ \A i \in DOMAIN Tail(l) : i + 1 \in DOMAIN l /\ Tail(l)[i] = l[i + 1]
      BY <2>2
    <3>3. ASSUME NEW i \in DOMAIN Append(t, e)
          PROVE  Append(t, e)[i] = list[i].host
      <4>1. CASE i = Len(t) + 1
        BY <2>2, <3>1, <4>1
      <4>2. CASE i # Len(t) + 1
        BY <2>2, <3>3, <4>2
      <4> QED BY <4>1, <4>2
    <3>4. ASSUME NEW i \in DOMAIN Tail(l)
          PROVE  Tail(l)[i] = list[Len(Append(t, e)) + i]
      <4>1. /\ i \in Int /\ Len(t) \in Int
            /\ Tail(l)[i] = list[Len(t) + (i + 1)]
        BY <2>2, <3>2, <3>4
      <4>2. Len(t) + (i + 1) = Len(t) + 1 + i
        BY <4>1
      <4> QED BY <3>1, <4>1, <4>2
    <3>5. Len(Append(t, e)) + Len(Tail(l)) = Total
      BY <2>2, <3>1, <3>2
    <3> QED BY <3>3, <3>4, <3>5
  <2> QED BY <1>1, <1>4, <1>7, <1>8, <2>1, <2>3 DEF Dialled, list, t, l
<1> QED BY <1>1, <1>6, <1>7, <1>8, <1>9 DEF e

LEMMA DialInv ==
  ASSUME EndpointsInv, NEW c \in Coroutines, Dial(c)
  PROVE  EndpointsInv'
<1>1. /\ Numbered /\ TypeOK'
      /\ UNCHANGED <<config, endpoints, connSeq, up, starts, opens>>
  BY DialStep DEF Dial, Connected, HandshakeFails, Refused, Attempt
<1>2. CursorOK'
  BY <1>1, CursorKept DEF EndpointsInv
<1>3. DiallingOK'
  <2> SUFFICES ASSUME NEW d \in Coroutines
               PROVE  /\ pc'[d] = "dialling" => left'[d] # <<>>
                      /\ \/ tried'[d] = <<>> /\ left'[d] = <<>>
                         \/ \E s \in DOMAIN endpoints' : Dialled(d, s)'
    BY DEF DiallingOK
  <2>1. CASE d = c
    BY <1>1, <2>1, DialStep
  <2>2. CASE d # c
    <3>1. left'[d] = left[d] /\ tried'[d] = tried[d] /\ pc'[d] = pc[d]
      BY <2>2, DialStep
    <3> QED BY <1>1, <3>1, DiallingKept DEF EndpointsInv, DiallingOK
  <2> QED BY <2>1, <2>2
<1> QED BY <1>1, <1>2, <1>3 DEF EndpointsInv

(* The other steps.                                                        *)
LEMMA OtherInv ==
  ASSUME EndpointsInv,
         \/ \E c \in Coroutines : Disconnect(c)
         \/ \E k \in DOMAIN endpoints : ServerFlips(k)
         \/ UNCHANGED vars
  PROVE  EndpointsInv'
<1>1. /\ Numbered
      /\ UNCHANGED <<config, endpoints, connSeq, starts, opens>>
      /\ Total' = Total
  BY TotalType DEF EndpointsInv, TypeOK, Disconnect, ServerFlips, vars, Total
<1>2. TypeOK'
  <2>1. ASSUME NEW c \in Coroutines, Disconnect(c)
        PROVE  TypeOK'
    <3> DEFINE Dials == [host : DOMAIN endpoints, port : 0 .. MaxPort]
    <3>1. /\ left \in [Coroutines -> Seq(Dials)]
          /\ left' = [left EXCEPT ![c] = <<>>]
      BY <2>1 DEF EndpointsInv, TypeOK, Disconnect
    <3>4. tried' \in [Coroutines -> Seq(DOMAIN endpoints)]
      BY <2>1 DEF EndpointsInv, TypeOK, Disconnect
    <3>5. pc' \in [Coroutines -> {"idle", "dialling", "connected"}]
      BY <2>1 DEF EndpointsInv, TypeOK, Disconnect
    <3>2. /\ config \in Configs
          /\ DOMAIN endpoints = 0 .. Total - 1
          /\ \A k \in DOMAIN endpoints : endpoints[k] \in 0 .. MaxPort
          /\ up \subseteq DOMAIN endpoints /\ up' = up
          /\ connSeq \in 0 .. CursorMod - 1
          /\ starts \in [DOMAIN endpoints -> 0 .. MaxOpens]
          /\ opens \in 0 .. MaxOpens
      BY <2>1 DEF EndpointsInv, TypeOK, Disconnect
    <3> HIDE DEF Dials
    <3>3. left' \in [Coroutines -> Seq(Dials)]
      BY <3>1
    <3> QED BY ONLY <1>1, <3>2, <3>3, <3>4, <3>5 DEF TypeOK, Dials
  <2>2. ASSUME NEW k \in DOMAIN endpoints, ServerFlips(k)
        PROVE  TypeOK'
    BY <1>1, <2>2 DEF EndpointsInv, TypeOK, ServerFlips
  <2>3. CASE UNCHANGED vars
    BY <1>1, <2>3 DEF EndpointsInv, TypeOK, vars
  <2> QED BY <2>1, <2>2, <2>3
<1>3. CursorOK'
  BY <1>1, CursorKept DEF EndpointsInv
<1>4. ASSUME NEW d \in Coroutines
      PROVE  \/ /\ left'[d] = left[d] /\ tried'[d] = tried[d]
                /\ pc'[d] = pc[d]
             \/ /\ left'[d] = <<>> /\ tried'[d] = <<>>
                /\ pc'[d] # "dialling"
  BY DEF EndpointsInv, TypeOK, Disconnect, ServerFlips, vars
<1>5. DiallingOK'
  <2> SUFFICES ASSUME NEW d \in Coroutines
               PROVE  /\ pc'[d] = "dialling" => left'[d] # <<>>
                      /\ \/ tried'[d] = <<>> /\ left'[d] = <<>>
                         \/ \E s \in DOMAIN endpoints' : Dialled(d, s)'
    BY DEF DiallingOK
  <2>1. CASE left'[d] = left[d] /\ tried'[d] = tried[d] /\ pc'[d] = pc[d]
    BY <1>1, <2>1, DiallingKept DEF EndpointsInv, DiallingOK
  <2>2. CASE left'[d] = <<>> /\ tried'[d] = <<>> /\ pc'[d] # "dialling"
    BY <2>2
  <2> QED BY <1>4, <2>1, <2>2
<1> QED BY <1>1, <1>2, <1>3, <1>5 DEF EndpointsInv

(* The invariant: the endpoints are those of the settings, the cursor and  *)
(* the connections that started at each endpoint agree with the number of  *)
(* opens, and each coroutine goes through one dial list.                   *)
THEOREM EndpointsInvariant == Spec => []EndpointsInv
<1>1. EndpointsInv /\ [Next]_vars => EndpointsInv'
  BY OpenInv, DialInv, OtherInv DEF Next
<1> QED BY InvInit, <1>1, PTL DEF Spec

-----------------------------------------------------------------------------
(* The properties                                                          *)

(* Each open tries every endpoint at most once, going round from its       *)
(* start, and an in-order open starts at the primary.                      *)
THEOREM TriesEachOnce == Spec => []TriesEachEndpointOnce
<1>1. EndpointsInv => TriesEachEndpointOnce
  <2> SUFFICES ASSUME EndpointsInv, NEW c \in Coroutines,
                      tried[c] \o HostsOf(left[c]) # <<>>
               PROVE  LET order == tried[c] \o HostsOf(left[c])
                      IN /\ Len(order) = Total
                         /\ \A i \in 1 .. Total - 1 :
                              order[i + 1] = (order[i] + 1) % Total
                         /\ config.strategy = "in_order" => order[1] = 0
    BY DEF TriesEachEndpointOnce
  <2> DEFINE t == tried[c]
             l == left[c]
             hosts == HostsOf(l)
             order == t \o hosts
             Dials == [host : DOMAIN endpoints, port : 0 .. MaxPort]
  <2>1. /\ Numbered
        /\ t \in Seq(DOMAIN endpoints) /\ l \in Seq(Dials)
    BY TotalType DEF EndpointsInv, TypeOK
  <2>2. t # <<>> \/ l # <<>>
    <3>1. HostsOf(<<>>) = <<>> /\ <<>> \o <<>> = <<>>
      BY DEF HostsOf
    <3> QED BY <3>1
  <2>3. PICK start \in DOMAIN endpoints : Dialled(c, start)
    BY <2>2 DEF EndpointsInv, DiallingOK
  <2> DEFINE list == DialList(start)
  <2>4. /\ Len(t) + Len(l) = Total /\ Total \in Nat \ {0}
        /\ start \in 0 .. Total - 1
        /\ \A i \in DOMAIN t : t[i] = list[i].host
        /\ \A i \in DOMAIN l : l[i] = list[Len(t) + i]
        /\ \A k \in 1 .. Total : list[k].host = (start + k - 1) % Total
        /\ config.strategy = "in_order" => start = 0
    BY <2>1, <2>3, DialListType DEF Dialled, Numbered
  <2> HIDE DEF list, t, l, Dials
  <2>5. /\ hosts \in Seq(DOMAIN endpoints) /\ Len(hosts) = Len(l)
        /\ \A i \in DOMAIN l : hosts[i] = l[i].host
    <3>1. ASSUME NEW i \in DOMAIN l
          PROVE  l[i].host \in DOMAIN endpoints
      <4>1. l[i] \in Dials
        BY <2>1
      <4> QED BY <4>1 DEF Dials
    <3> QED BY <2>1, <3>1 DEF HostsOf
  <2> HIDE DEF hosts
  <2>6. /\ Len(order) = Total
        /\ \A i \in 1 .. Total : order[i] = list[i].host
    <3>1. /\ Len(t) \in Nat /\ Len(l) \in Nat
          /\ DOMAIN t = 1 .. Len(t) /\ DOMAIN l = 1 .. Len(l)
          /\ Len(order) = Len(t) + Len(l)
          /\ \A i \in 1 .. Len(t) : order[i] = t[i]
          /\ \A i \in 1 .. Len(l) : order[Len(t) + i] = hosts[i]
      <4>2. DOMAIN l = 1 .. Len(l)
        BY <2>1
      <4>3. t \in Seq(DOMAIN endpoints) /\ hosts \in Seq(DOMAIN endpoints)
        BY <2>1, <2>5
      <4>4. /\ Len(t) \in Nat /\ DOMAIN t = 1 .. Len(t)
            /\ Len(hosts) \in Nat /\ DOMAIN hosts = 1 .. Len(hosts)
            /\ Len(t \o hosts) = Len(t) + Len(hosts)
            /\ \A i \in 1 .. Len(t) : (t \o hosts)[i] = t[i]
            /\ \A i \in 1 .. Len(hosts) : (t \o hosts)[Len(t) + i] = hosts[i]
        BY ONLY <4>3, Concatenation
      <4>5. Len(hosts) = Len(l)
        BY <2>5
      <4> QED BY ONLY <4>2, <4>4, <4>5, Zenon
    <3>2. ASSUME NEW i \in 1 .. Total
          PROVE  order[i] = list[i].host
      <4>1. CASE i <= Len(t)
        <5>1. i \in 1 .. Len(t)
          BY <2>4, <3>1, <4>1
        <5> HIDE DEF order
        <5> QED BY <2>4, <3>1, <5>1
      <4>2. CASE ~(i <= Len(t))
        <5>1. i - Len(t) \in 1 .. Len(l) /\ Len(t) + (i - Len(t)) = i
          <6>1. /\ Len(t) \in Nat /\ Len(l) \in Nat
                /\ Len(t) + Len(l) = Total
            BY <2>4, <3>1
          <6> QED BY ONLY <3>2, <4>2, <6>1
        <5>2. order[Len(t) + (i - Len(t))] = list[Len(t) + (i - Len(t))].host
          <6> DEFINE m == i - Len(t)
          <6>1. m \in 1 .. Len(l)
            BY <5>1
          <6> HIDE DEF m, order
          <6>2. order[Len(t) + m] = list[Len(t) + m].host
            BY <2>4, <2>5, <3>1, <6>1
          <6> QED BY <6>2 DEF m
        <5> HIDE DEF order
        <5> QED BY <5>1, <5>2
      <4> QED BY <4>1, <4>2
    <3> QED BY <2>4, <3>1, <3>2
  <2> HIDE DEF order
  <2>7. ASSUME NEW i \in 1 .. Total - 1
        PROVE  order[i + 1] = (order[i] + 1) % Total
    <3>1. /\ order[i] = (start + i - 1) % Total
          /\ order[i + 1] = (start + (i + 1) - 1) % Total
      <4>1. i \in 1 .. Total /\ i + 1 \in 1 .. Total
        BY <2>4
      <4> QED BY <2>4, <2>6, <4>1
    <3>2. (((start + i - 1) % Total) + 1) % Total = (start + i - 1 + 1) % Total
      <4>1. PICK a \in Nat : a = start + i - 1
        BY <2>4
      <4>2. ((a % Total) + 1) % Total = (a + 1) % Total
        BY ONLY <2>4, ModStep
      <4> QED BY ONLY <4>1, <4>2
    <3>3. start + (i + 1) - 1 = start + i - 1 + 1
      BY <2>4
    <3> QED BY <3>1, <3>2, <3>3
  <2>8. config.strategy = "in_order" => order[1] = 0
    BY <2>4, <2>6
  <2> QED BY <2>6, <2>7, <2>8 DEF order, hosts, t, l
<1> QED BY <1>1, EndpointsInvariant, PTL

(* Round-robin starts as many connections at each endpoint, but for one,   *)
(* and one for each time the cursor has wrapped.                           *)
THEOREM RoundRobinSpreads == Spec => []SpreadsOverHosts
<1>1. EndpointsInv => SpreadsOverHosts
  <2> SUFFICES ASSUME EndpointsInv, config.strategy = "round_robin",
                      NEW i \in DOMAIN endpoints, NEW j \in DOMAIN endpoints
               PROVE  starts[i] - starts[j] <= 1 + (opens \div CursorMod)
    BY DEF SpreadsOverHosts
  <2> DEFINE w == opens \div CursorMod
  <2>1. /\ Total \in Nat \ {0} /\ i \in 0 .. Total - 1 /\ j \in 0 .. Total - 1
        /\ opens \in Nat /\ connSeq \in Nat /\ starts[i] \in Nat
        /\ CursorMod \in Nat \ {0}
    BY TotalType DEF EndpointsInv, TypeOK, Numbered
  <2>2. w \in Nat
    BY <2>1, DivMod
  <2>3. CASE Total = 1
    <3>1. i = j
      BY <2>1, <2>3
    <3> QED BY <2>1, <2>2, <3>1
  <2>4. CASE Total # 1
    <3> DEFINE a == Turns(i, CursorMod)
               b == Turns(j, CursorMod)
               x == Turns(i, connSeq)
               y == Turns(j, connSeq)
    <3>1. a \in Nat /\ b \in Nat /\ a <= b + 1
      BY ONLY <2>1, TurnsEven
    <3>2. x \in Nat /\ y \in Nat /\ x <= y + 1
      BY ONLY <2>1, TurnsEven
    <3>3. starts[i] = w * a + x /\ starts[j] = w * b + y
      BY <2>1, <2>4 DEF EndpointsInv, CursorOK
    <3> HIDE DEF w, a, b, x, y
    <3>4. w * a <= w * (b + 1)
      BY <2>2, <3>1
    <3>5. w * (b + 1) = w * b + w
      BY <2>2, <3>1
    <3>6. w * a \in Nat /\ w * b \in Nat
      BY <2>2, <3>1
    <3>7. starts[i] - starts[j] <= 1 + w
      BY <2>2, <3>2, <3>3, <3>4, <3>5, <3>6
    <3> QED BY <3>7 DEF w
  <2> QED BY <2>3, <2>4
<1> QED BY <1>1, EndpointsInvariant, PTL

(* The settings that leave one default for every endpoint: a client port   *)
(* other than 0, and no port on the first host that differs from it, or a  *)
(* port on every host.                                                     *)
OneDefault ==
  \A c \in Configs :
    /\ ClientPort(c) # 0
    /\ \/ c.hosts = <<>>
       \/ c.hosts[1] \notin 1 .. MaxPort
       \/ c.hosts[1] = ClientPort(c)
       \/ \A k \in DOMAIN c.hosts : c.hosts[k] \in 1 .. MaxPort

(* With such settings each endpoint is dialled at the port its entry       *)
(* names, or else at the client's.                                         *)
THEOREM DialsThePort == OneDefault /\ Spec => []DialsConfiguredPort
<1>1. OneDefault /\ EndpointsInv => DialsConfiguredPort
  <2> SUFFICES ASSUME OneDefault, EndpointsInv,
                      NEW c \in Coroutines, NEW i \in DOMAIN left[c]
               PROVE  LET k == left[c][i].host
                      IN left[c][i].port =
                           IF /\ k + 1 \in DOMAIN config.hosts
                              /\ config.hosts[k + 1] \in (1 .. MaxPort)
                           THEN config.hosts[k + 1]
                           ELSE ClientPort(config)
    BY DEF DialsConfiguredPort
  <2> DEFINE hosts == config.hosts
             own == ClientPort(config)
             k == left[c][i].host
  <2>1. /\ Numbered
        /\ config \in Configs
        /\ hosts \in Seq(Int \cup {NoPort})
        /\ own \in 0 .. MaxPort /\ own # 0
        /\ Total = IF hosts = <<>> THEN 1 ELSE Len(hosts)
    BY TotalType, ConfigType, ClientPortType
    DEF EndpointsInv, TypeOK, OneDefault
  <2>2. PICK start \in DOMAIN endpoints : Dialled(c, start)
    BY DEF EndpointsInv, DiallingOK
  <2> DEFINE list == DialList(start)
             at == Len(tried[c]) + i
  <2>3. at \in 1 .. Total /\ left[c][i] = list[at]
    <3>1. /\ Len(tried[c]) \in Nat /\ Len(left[c]) \in Nat
          /\ DOMAIN left[c] = 1 .. Len(left[c])
      <4>1. \A S : \A l \in Seq(S) : Len(l) \in Nat /\ DOMAIN l = 1 .. Len(l)
        OBVIOUS
      <4>2. /\ tried[c] \in Seq(DOMAIN endpoints)
            /\ left[c] \in Seq([host : DOMAIN endpoints, port : 0 .. MaxPort])
        BY DEF EndpointsInv, TypeOK
      <4> QED BY ONLY <4>1, <4>2
    <3>2. /\ Len(tried[c]) + Len(left[c]) = Total
          /\ left[c][i] = list[at]
      BY <2>2 DEF Dialled
    <3>3. at \in 1 .. Total
      <4>1. i \in 1 .. Len(left[c])
        BY <3>1
      <4>2. \A a, b \in Nat : \A j \in 1 .. b : a + j \in 1 .. a + b
        OBVIOUS
      <4>3. at \in 1 .. Len(tried[c]) + Len(left[c])
        BY ONLY <3>1, <4>1, <4>2
      <4> QED BY ONLY <3>2, <4>3
    <3> QED BY <3>2, <3>3
  <2>4. /\ k = Rotation(start)[at]
        /\ left[c][i].port = IF at = 1 /\ endpoints[k] = 0 THEN 9000
                             ELSE endpoints[k]
    <3> HIDE DEF at
    <3> DEFINE e == Rotation(start)[at]
               p == IF at = 1 /\ endpoints[e] = 0 THEN 9000 ELSE endpoints[e]
    <3>1. list[at] = [host |-> e, port |-> p]
      BY <2>3 DEF DialList
    <3> HIDE DEF e, p, list
    <3>2. left[c][i] = [host |-> e, port |-> p]
      BY <2>3, <3>1
    <3>3. k = e /\ left[c][i].port = p
      BY <3>2
    <3> QED BY <3>3 DEF e, p
  <2>5. k \in 0 .. Total - 1
    <3>1. (start + at - 1) % Total \in 0 .. Total - 1
      <4>1. start + at - 1 \in Nat /\ Total \in Nat \ {0}
        BY <2>1, <2>3 DEF Numbered
      <4> HIDE DEF at
      <4> QED BY ONLY <4>1, DivMod
    <3>2. Rotation(start)[at] = (start + at - 1) % Total
      BY <2>3 DEF Rotation
    <3> QED BY <2>4, <3>1, <3>2
  <2> HIDE DEF k
  <2>6. endpoints[k] = IF k + 1 \in DOMAIN hosts /\ hosts[k + 1] \in 1 .. MaxPort
                       THEN hosts[k + 1] ELSE own
    <3>1. endpoints = Endpoints(config)
      BY DEF EndpointsInv
    <3>2. CASE hosts = <<>>
      <4>1. k = 0 /\ DOMAIN hosts = {}
        BY <2>1, <2>5, <3>2
      <4> QED BY <3>1, <3>2, <4>1 DEF Endpoints
    <3>3. CASE hosts # <<>>
      <4> DEFINE primary == ParsePort(hosts[1], own)
      <4>1. /\ k + 1 \in DOMAIN hosts /\ 1 \in DOMAIN hosts
            /\ hosts[1] \in Int \cup {NoPort}
            /\ hosts[k + 1] \in Int \cup {NoPort}
            /\ Total = Len(hosts)
        BY <2>1, <2>5, <3>3
      <4>2. primary = IF hosts[1] \in 1 .. MaxPort THEN hosts[1] ELSE own
        BY ONLY <2>1, <4>1, PortType
      <4>3. primary \in 0 .. MaxPort
        BY ONLY <2>1, <4>1, PortType
      <4>4. endpoints[k] = IF k = 0 THEN primary
                           ELSE ParsePort(hosts[k + 1], primary)
        BY <2>5, <3>1, <3>3, <4>1 DEF Endpoints
      <4> HIDE DEF primary
      <4>5. ParsePort(hosts[k + 1], primary) =
              IF hosts[k + 1] \in 1 .. MaxPort THEN hosts[k + 1] ELSE primary
        BY ONLY <4>1, <4>3, PortType
      <4>6. \/ hosts[1] \notin 1 .. MaxPort
            \/ hosts[1] = own
            \/ \A j \in DOMAIN hosts : hosts[j] \in 1 .. MaxPort
        BY <2>1, <3>3 DEF OneDefault
      <4>7. CASE k = 0
        BY <4>1, <4>2, <4>4, <4>7
      <4>8. CASE k # 0
        BY <4>1, <4>2, <4>4, <4>5, <4>6, <4>8
      <4> QED BY <4>7, <4>8
    <3> QED BY <3>2, <3>3
  <2>7. endpoints[k] # 0
    BY <2>1, <2>6
  <2> QED BY <2>4, <2>6, <2>7 DEF k
<1>2. CASE OneDefault
  <2>1. EndpointsInv => DialsConfiguredPort
    BY <1>1, <1>2
  <2> QED BY <2>1, EndpointsInvariant, PTL
<1>3. CASE ~OneDefault
  BY <1>3
<1> QED BY <1>2, <1>3

=============================================================================
