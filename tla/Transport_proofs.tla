-------------------------- MODULE Transport_proofs --------------------------
(***************************************************************************)
(* The byte streams and the waits of Transport, proved for buffers and     *)
(* messages of any size.  The invariant says, of each direction, that the  *)
(* bytes in a buffer go on where the bytes beyond it stop.                 *)
(***************************************************************************)
EXTENDS Transport, TLAPS

USE SpaceAssumption, LengthAssumption

-----------------------------------------------------------------------------
(* Sequences that count                                                    *)

(* Sequences of numbers are closed under what the steps do to them.        *)
LEMMA ByteSeqs ==
  ASSUME NEW s \in Seq(Nat), NEW u \in Seq(Nat)
  PROVE  /\ s \o u \in Seq(Nat) /\ Len(s \o u) = Len(s) + Len(u)
         /\ Len(s) \in Nat
         /\ s # <<>> => Tail(s) \in Seq(Nat) /\ Len(Tail(s)) = Len(s) - 1 /\ Len(s) > 0
OBVIOUS

(* Two sequences that follow each other, joined.                           *)
LEMMA JoinCounts ==
  ASSUME NEW s \in Seq(Nat), NEW u \in Seq(Nat), NEW n \in Nat,
         CountsFrom(n, s), CountsFrom(n + Len(s), u)
  PROVE  CountsFrom(n, s \o u)
<1> SUFFICES ASSUME NEW i \in 1 .. Len(s \o u)
             PROVE  (s \o u)[i] = n + i
  BY DEF CountsFrom
<1>1. Len(s) \in Nat /\ Len(u) \in Nat /\ Len(s \o u) = Len(s) + Len(u)
  OBVIOUS
<1>2. CASE i <= Len(s)
  <2>1. i \in 1 .. Len(s) /\ (s \o u)[i] = s[i]
    BY <1>1, <1>2
  <2> QED
    BY <2>1 DEF CountsFrom
<1>3. CASE i > Len(s)
  <2>1. i - Len(s) \in 1 .. Len(u) /\ (s \o u)[i] = u[i - Len(s)]
    BY <1>1, <1>3
  <2>2. u[i - Len(s)] = n + Len(s) + (i - Len(s))
    BY <2>1 DEF CountsFrom
  <2> QED
    BY <1>1, <2>1, <2>2
<1> QED
  BY <1>1, <1>2, <1>3

(* A counting sequence, cut after k.                                       *)
LEMMA CutCounts ==
  ASSUME NEW s \in Seq(Nat), NEW n \in Nat, NEW k \in 0 .. Len(s),
         CountsFrom(n, s)
  PROVE  /\ SubSeq(s, 1, k) \in Seq(Nat) /\ SubSeq(s, k + 1, Len(s)) \in Seq(Nat)
         /\ Len(SubSeq(s, 1, k)) = k /\ Len(SubSeq(s, k + 1, Len(s))) = Len(s) - k
         /\ CountsFrom(n, SubSeq(s, 1, k))
         /\ CountsFrom(n + k, SubSeq(s, k + 1, Len(s)))
<1>1. Len(s) \in Nat /\ k \in Nat /\ k <= Len(s)
  OBVIOUS
<1>2. SubSeq(s, 1, k) \in Seq(Nat) /\ Len(SubSeq(s, 1, k)) = k
  BY <1>1
<1>3. SubSeq(s, k + 1, Len(s)) \in Seq(Nat) /\ Len(SubSeq(s, k + 1, Len(s))) = Len(s) - k
  BY <1>1
<1>4. CountsFrom(n, SubSeq(s, 1, k))
  <2> SUFFICES ASSUME NEW i \in 1 .. k PROVE SubSeq(s, 1, k)[i] = n + i
    BY <1>2 DEF CountsFrom
  <2>1. SubSeq(s, 1, k)[i] = s[i] /\ i \in 1 .. Len(s)
    BY <1>1
  <2> QED
    BY <2>1 DEF CountsFrom
<1>5. CountsFrom(n + k, SubSeq(s, k + 1, Len(s)))
  <2> SUFFICES ASSUME NEW i \in 1 .. Len(s) - k
               PROVE  SubSeq(s, k + 1, Len(s))[i] = n + k + i
    BY <1>3 DEF CountsFrom
  <2>1. SubSeq(s, k + 1, Len(s))[i] = s[k + i] /\ k + i \in 1 .. Len(s)
    BY <1>1
  <2>2. s[k + i] = n + (k + i)
    BY <2>1 DEF CountsFrom
  <2> QED
    BY <1>1, <2>1, <2>2
<1> QED
  BY <1>2, <1>3, <1>4, <1>5

(* The first element of a counting sequence, and the rest.                 *)
LEMMA TailCounts ==
  ASSUME NEW s \in Seq(Nat), NEW n \in Nat, s # <<>>, CountsFrom(n, s)
  PROVE  Head(s) = n + 1 /\ CountsFrom(n + 1, Tail(s))
<1>1. Len(s) \in Nat /\ 1 \in 1 .. Len(s) /\ Head(s) = s[1] /\ Len(Tail(s)) = Len(s) - 1
  OBVIOUS
<1>2. \A i \in 1 .. Len(Tail(s)) : Tail(s)[i] = s[i + 1] /\ i + 1 \in 1 .. Len(s)
  BY <1>1
<1> QED
  BY <1>1, <1>2 DEF CountsFrom

(* One more.                                                               *)
LEMMA AppendCounts ==
  ASSUME NEW s \in Seq(Nat), NEW n \in Nat, CountsFrom(n, s)
  PROVE  /\ Append(s, n + Len(s) + 1) \in Seq(Nat)
         /\ Len(Append(s, n + Len(s) + 1)) = Len(s) + 1
         /\ CountsFrom(n, Append(s, n + Len(s) + 1))
BY DEF CountsFrom

-----------------------------------------------------------------------------
(* Each step keeps the invariant                                           *)

LEMMA TransportInit == Init => TransportInv
<1> SUFFICES ASSUME Init PROVE TransportInv
  OBVIOUS
<1>1. <<>> \in Seq(Nat) /\ Len(<<>>) = 0 /\ \A n : CountsFrom(n, <<>>)
  BY DEF CountsFrom
<1>2. TypeOK
  <2>1. /\ 0 <= SendSpace /\ 0 <= RecvSpace
        /\ 0 \in 0 .. MaxLen /\ 0 \in 0 .. MaxBytes /\ 0 \in 0 .. 0
    OBVIOUS
  <2>2. Len(up) <= SendSpace /\ Len(down) <= RecvSpace
    BY <1>1, <2>1 DEF Init
  <2>3. /\ len \in 0 .. MaxLen /\ progress \in 0 .. len
        /\ given \in 0 .. MaxBytes /\ made \in 0 .. MaxBytes
    BY <2>1 DEF Init
  <2>4. /\ up \in Seq(Nat) /\ received \in Seq(Nat)
        /\ down \in Seq(Nat) /\ got \in Seq(Nat)
    BY <1>1 DEF Init
  <2> QED
    BY <2>2, <2>3, <2>4 DEF Init, TypeOK, Calling, HasEvent
<1>3. CallOK
  BY <1>1 DEF Init, CallOK, Calling, HasEvent
<1>4. ReadsInOrder
  BY <1>1 DEF Init, ReadsInOrder
<1>5. WaitOK
  BY DEF Init, WaitOK, WokenWhenReady, Calling, HasEvent
<1> QED
  BY <1>2, <1>3, <1>4, <1>5 DEF TransportInv

LEMMA SendInv ==
  ASSUME TransportInv, Send
  PROVE  TransportInv'
<1>1. /\ UNCHANGED <<tls, pc, io, len, given, entered, received, down, made, got>>
      /\ UNCHANGED <<peer, pending, armed, event>>
      /\ pc = "syscall" /\ io = "write" /\ progress < len
  BY DEF Send, waker
<1>2. PICK n \in 1 .. len - progress :
        n <= Space /\ up' = up \o Chunk(n) /\ progress' = progress + n
  BY DEF Send
<1>3. /\ up \in Seq(Nat) /\ received \in Seq(Nat) /\ Len(up) \in Nat /\ Len(received) \in Nat
      /\ given \in Nat /\ progress \in Nat /\ len \in Nat /\ len <= MaxLen /\ n \in Nat
      /\ Len(up) <= SendSpace
  BY <1>1, <1>2 DEF TransportInv, TypeOK
<1>4. Chunk(n) \in Seq(Nat) /\ Len(Chunk(n)) = n
  BY <1>3 DEF Chunk
<1>5. up' \in Seq(Nat) /\ Len(up') = Len(up) + n
  <2>1. up \o Chunk(n) \in Seq(Nat) /\ Len(up \o Chunk(n)) = Len(up) + Len(Chunk(n))
    BY <1>3, <1>4, ByteSeqs
  <2> QED
    BY <1>2, <1>4, <2>1
<1>6. CountsFrom(Len(received), up')
  <2>1. Len(received) + Len(up) = given + progress
    BY DEF TransportInv, CallOK
  <2>2. \A i \in 1 .. n : Chunk(n)[i] = given + progress + i
    BY <1>3 DEF Chunk
  <2>3. CountsFrom(Len(received) + Len(up), Chunk(n))
    BY <1>3, <1>4, <2>1, <2>2 DEF CountsFrom
  <2> QED
    BY <1>2, <1>3, <1>4, <2>3, JoinCounts DEF TransportInv, CallOK
<1>7. TypeOK'
  <2>1. Len(up') <= SendSpace /\ progress' \in 0 .. len
    BY <1>2, <1>3, <1>5 DEF Space
  <2> QED
    BY <1>1, <1>5, <2>1 DEF TransportInv, TypeOK
<1>8. CallOK'
  <2>1. Len(received') + Len(up') = given' + progress'
    <3>1. Len(received) + Len(up) = given + progress
      BY DEF TransportInv, CallOK
    <3>2. Len(received') = Len(received) /\ given' = given
      BY <1>1
    <3>3. progress' = progress + n
      BY <1>2
    <3>4. Len(up') = Len(up) + n
      BY <1>5
    <3>5. Len(received) + (Len(up) + n) = given + (progress + n)
      BY <1>3, <3>1
    <3> QED
      BY <3>2, <3>3, <3>4, <3>5
  <2>2. CountsFrom(0, received') /\ CountsFrom(Len(received'), up')
    BY <1>1, <1>6 DEF TransportInv, CallOK
  <2> QED
    BY <1>1, <2>1, <2>2 DEF TransportInv, CallOK, Calling, HasEvent
<1>9. ReadsInOrder'
  BY <1>1 DEF TransportInv, ReadsInOrder
<1>10. WaitOK'
  BY <1>1 DEF TransportInv, WaitOK, WokenWhenReady, Calling, HasEvent
<1> QED
  BY <1>7, <1>8, <1>9, <1>10 DEF TransportInv

LEMMA RecvInv ==
  ASSUME TransportInv, Recv
  PROVE  TransportInv'
<1>1. /\ UNCHANGED <<tls, up, received, made, peer, pending, armed, event, given>>
      /\ pc = "syscall" /\ io = "read"
      /\ pc' = "user" /\ io' = "none" /\ len' = 0 /\ progress' = 0 /\ entered' = FALSE
  BY DEF Recv, waker, Return
<1>2. PICK n \in 1 .. Len(down) :
        /\ got' = got \o SubSeq(down, 1, n)
        /\ down' = SubSeq(down, n + 1, Len(down))
  BY DEF Recv, Filled
<1>3. /\ down \in Seq(Nat) /\ got \in Seq(Nat) /\ Len(down) \in Nat /\ Len(got) \in Nat
      /\ CountsFrom(0, got) /\ CountsFrom(Len(got), down)
      /\ Len(got) + Len(down) = made /\ Len(down) <= RecvSpace
  BY DEF TransportInv, TypeOK, ReadsInOrder
<1>4. /\ SubSeq(down, 1, n) \in Seq(Nat) /\ down' \in Seq(Nat)
      /\ Len(SubSeq(down, 1, n)) = n /\ Len(down') = Len(down) - n
      /\ CountsFrom(Len(got), SubSeq(down, 1, n)) /\ CountsFrom(Len(got) + n, down')
  <2>1. n \in 0 .. Len(down)
    BY <1>3
  <2> QED
    BY <1>2, <1>3, <2>1, CutCounts
<1>5. got' \in Seq(Nat) /\ Len(got') = Len(got) + n
  BY <1>2, <1>3, <1>4
<1>6. CountsFrom(0, got')
  <2>1. 0 + Len(got) = Len(got)
    BY <1>3
  <2> QED
    BY <1>2, <1>3, <1>4, <2>1, JoinCounts
<1>7. TypeOK'
  <2>1. Len(down') <= RecvSpace
    BY <1>3, <1>4
  <2>2. len' \in 0 .. MaxLen /\ progress' \in 0 .. len'
    BY <1>1
  <2>3. /\ up' \in Seq(Nat) /\ Len(up') <= SendSpace /\ received' \in Seq(Nat)
        /\ given' \in 0 .. MaxBytes /\ made' \in 0 .. MaxBytes
    BY <1>1 DEF TransportInv, TypeOK
  <2>4. /\ tls' \in BOOLEAN /\ pending' \in BOOLEAN /\ event' \in BOOLEAN
        /\ peer' \in {"open", "closed", "reset"} /\ armed' \subseteq {"read", "write"}
    BY <1>1 DEF TransportInv, TypeOK
  <2> QED
    BY <1>1, <1>4, <1>5, <2>1, <2>2, <2>3, <2>4 DEF TypeOK
<1>8. CallOK'
  BY <1>1 DEF TransportInv, CallOK, WaitOK, Calling, HasEvent
<1>9. ReadsInOrder'
  BY <1>1, <1>3, <1>4, <1>5, <1>6 DEF ReadsInOrder
<1>10. WaitOK'
  BY <1>1 DEF TransportInv, WaitOK, WokenWhenReady, Calling, HasEvent
<1> QED
  BY <1>7, <1>8, <1>9, <1>10 DEF TransportInv

(* The other steps of the coroutine leave the buffers alone.               *)
LEMMA CoroutineInv ==
  ASSUME TransportInv,
         \/ WriteReturns \/ SyscallFails \/ WouldBlock
         \/ NewEvent \/ NewWaker \/ ResumeWhen \/ SuspendFails \/ Resume
  PROVE  TransportInv'
<1>1. UNCHANGED <<tls, up, received, down, made, got, peer>>
  BY DEF WriteReturns, SyscallFails, WouldBlock, NewEvent, NewWaker, ResumeWhen,
     SuspendFails, Resume, network
<1>2. ReadsInOrder'
  BY <1>1 DEF TransportInv, ReadsInOrder
<1>3. CASE WriteReturns
  <2>1. /\ pc = "syscall" /\ io = "write" /\ progress = len /\ UNCHANGED <<pending, armed, event>>
        /\ pc' = "user" /\ io' = "none" /\ len' = 0 /\ progress' = 0 /\ entered' = FALSE
        /\ given' = given + len
    BY <1>3 DEF WriteReturns, Return, AllSent, waker
  <2>2. given' \in 0 .. MaxBytes
    <3>1. given + len <= MaxBytes /\ given \in Nat /\ len \in Nat
      BY <2>1 DEF TransportInv, TypeOK, CallOK
    <3> QED
      BY <2>1, <3>1
  <2>3. TypeOK'
    <3>1. len' \in 0 .. MaxLen /\ progress' \in 0 .. len'
      BY <2>1
    <3> QED
      BY <1>1, <2>1, <2>2, <3>1 DEF TransportInv, TypeOK
  <2>4. CallOK'
    <3>1. given' + progress' = given + progress
      BY <2>1 DEF TransportInv, TypeOK
    <3> QED
      BY <1>1, <2>1, <3>1 DEF TransportInv, CallOK, WaitOK, Calling, HasEvent
  <2>5. WaitOK'
    BY <1>1, <2>1 DEF TransportInv, WaitOK, WokenWhenReady, Calling, HasEvent
  <2> QED
    BY <1>2, <2>3, <2>4, <2>5 DEF TransportInv
<1>4. CASE ~ WriteReturns
  <2>1. UNCHANGED <<io, len, progress, given, entered>>
    BY <1>4 DEF SyscallFails, WouldBlock, NewEvent, NewWaker, ResumeWhen, SuspendFails,
       Resume, Throw, AwaitReturns, call
  <2>2. /\ pc \in Calling /\ pending' \in BOOLEAN
        /\ \/ pc' = "await" /\ pc = "syscall" /\ ~ tls /\ UNCHANGED <<pending, armed, event>>
           \/ pc' = "event" /\ pc = "await" /\ ~ pending /\ event' = TRUE
              /\ UNCHANGED <<pending, armed>>
           \/ pc' = "waker" /\ pc = "event" /\ UNCHANGED <<pending, armed, event>>
           \/ pc' = "suspended" /\ pc = "waker" /\ armed' = armed \cup {io}
              /\ UNCHANGED <<pending, event>>
           \/ pc' = "syscall" /\ pc = "queued" /\ ~ pending /\ UNCHANGED pending
              /\ armed' = {} /\ event' = FALSE
           \/ /\ pc' = "thrown"
              /\ \/ pc = "syscall" /\ UNCHANGED <<armed, event>>
                 \/ pc = "await" /\ UNCHANGED <<armed, event>>
                 \/ pc = "await" /\ pending /\ UNCHANGED armed /\ event' = TRUE
                 \/ pc = "event" /\ UNCHANGED armed /\ event' = FALSE
                 \/ pc \in HasEvent /\ armed' = {} /\ event' = FALSE
    <3>0. pending \in BOOLEAN
      BY DEF TransportInv, TypeOK
    <3>1. CASE SyscallFails \/ WouldBlock
      BY <3>0, <3>1 DEF SyscallFails, WouldBlock, Throw, waker, Calling
    <3>2. CASE NewEvent
      BY <3>0, <3>2 DEF NewEvent, Refuses, Throw, Calling
    <3>3. CASE NewWaker
      BY <3>0, <3>3 DEF NewWaker, Throw, Calling, HasEvent
    <3>4. CASE ResumeWhen
      BY <3>0, <3>4 DEF ResumeWhen, Arm, WakerClean, Throw, Calling, HasEvent
    <3>5. CASE SuspendFails
      BY <3>0, <3>5 DEF SuspendFails, WakerClean, Throw, Calling, HasEvent
    <3>6. CASE Resume
      BY <3>0, <3>6 DEF Resume, AwaitReturns, WakerClean, Throw, Calling, HasEvent
    <3> QED
      BY <1>4, <3>1, <3>2, <3>3, <3>4, <3>5, <3>6
  <2>3. io \in {"read", "write"} /\ event \in BOOLEAN /\ armed \subseteq {"read", "write"}
    BY <2>2 DEF TransportInv, TypeOK, CallOK
  <2>4. TypeOK'
    <3>1. event' \in BOOLEAN /\ armed' \subseteq {"read", "write"}
      BY <2>2, <2>3
    <3>2. pc' \in {"user", "thrown"} \cup Calling
      BY <2>2 DEF Calling, HasEvent
    <3> QED
      BY <1>1, <2>1, <2>2, <3>1, <3>2 DEF TransportInv, TypeOK
  <2>5. CallOK'
    BY <1>1, <2>1, <2>2 DEF TransportInv, CallOK, Calling, HasEvent
  <2>6. WaitOK'
    <3>1. WokenWhenReady'
      BY <2>2 DEF WokenWhenReady
    <3>2. armed' = IF pc' \in {"suspended", "queued"} THEN {io'} ELSE {}
      BY <2>1, <2>2 DEF TransportInv, WaitOK, Calling, HasEvent
    <3>3. /\ pc' \in HasEvent \ {"queued"} => ~ pending'
          /\ pc' \in Calling \ {"syscall"} => ~ tls'
      BY <1>1, <2>2 DEF TransportInv, WaitOK, Calling, HasEvent
    <3>4. /\ pc' \in HasEvent => event'
          /\ event' /\ pc' \notin HasEvent => entered' /\ pc' = "thrown"
      BY <2>1, <2>2 DEF TransportInv, WaitOK, Calling, HasEvent
    <3>5. pc' \in {"syscall", "await"} => ~ event' /\ (pending' => entered')
      BY <2>1, <2>2 DEF TransportInv, WaitOK, Calling, HasEvent
    <3> QED
      BY <3>1, <3>2, <3>3, <3>4, <3>5 DEF WaitOK
  <2> QED
    BY <1>2, <2>4, <2>5, <2>6 DEF TransportInv
<1> QED
  BY <1>3, <1>4

(* The reactor, a cancellation, a new call, a conversion that raises.      *)
LEMMA OutsideInv ==
  ASSUME TransportInv,
         \/ Wake \/ Cancel \/ ConversionRaises
         \/ \E n \in 1 .. MaxLen : DoCall("write", n) \/ DoCall("read", n)
  PROVE  TransportInv'
<1>1. UNCHANGED <<tls, up, received, down, made, got, peer, progress, given, armed, event>>
  BY DEF Wake, Cancel, ConversionRaises, DoCall, network, waker, call
<1>2. ReadsInOrder'
  BY <1>1 DEF TransportInv, ReadsInOrder
<1>3. CASE \E n \in 1 .. MaxLen : DoCall("write", n) \/ DoCall("read", n)
  <2>1. /\ pc = "user" /\ pc' = "syscall" /\ io' \in {"read", "write"}
        /\ len' \in 0 .. MaxLen /\ entered' = pending /\ UNCHANGED pending
        /\ io' = "write" => given + len' <= MaxBytes
    BY <1>3 DEF DoCall
  <2>2. progress = 0
    BY <2>1 DEF TransportInv, CallOK
  <2>3. TypeOK'
    BY <1>1, <2>1, <2>2 DEF TransportInv, TypeOK, Calling, HasEvent
  <2>4. CallOK'
    BY <1>1, <2>1, <2>2 DEF TransportInv, CallOK, Calling, HasEvent
  <2>5. WaitOK'
    BY <1>1, <2>1 DEF TransportInv, WaitOK, CallOK, WokenWhenReady, Calling, HasEvent
  <2> QED
    BY <1>2, <2>3, <2>4, <2>5 DEF TransportInv
<1>4. CASE Wake \/ Cancel \/ ConversionRaises
  <2>1. /\ UNCHANGED <<io, len, entered>>
        /\ \/ pc = "suspended" /\ pc' = "queued" /\ pending' = pending
                /\ \E e \in armed : Ready(e)
           \/ pc \in {"suspended", "queued"} /\ pc' = "queued" /\ pending' = TRUE
           \/ pc = "user" /\ pc' = "user" /\ pending' = TRUE
    BY <1>4 DEF Wake, Cancel, ConversionRaises, call
  <2>2. TypeOK'
    BY <1>1, <2>1 DEF TransportInv, TypeOK, Calling, HasEvent
  <2>3. CallOK'
    BY <1>1, <2>1 DEF TransportInv, CallOK, Calling, HasEvent
  <2>4. WokenWhenReady'
    BY <1>1, <2>1 DEF TransportInv, WaitOK, WokenWhenReady, Ready, Space
  <2>5. WaitOK'
    BY <1>1, <2>1, <2>4 DEF TransportInv, WaitOK, Calling, HasEvent
  <2> QED
    BY <1>2, <2>2, <2>3, <2>5 DEF TransportInv
<1> QED
  BY <1>3, <1>4

(* What the peer does can make a socket ready, and never the opposite.     *)
LEMMA PeerInv ==
  ASSUME TransportInv, Drain \/ PeerSends \/ PeerCloses \/ PeerResets
  PROVE  TransportInv'
<1>1. UNCHANGED <<tls, pc, io, len, progress, given, entered, pending, armed, event, got>>
  BY DEF Drain, PeerSends, PeerCloses, PeerResets, call, waker
<1>2. /\ up \in Seq(Nat) /\ received \in Seq(Nat) /\ down \in Seq(Nat) /\ got \in Seq(Nat)
      /\ Len(up) \in Nat /\ Len(received) \in Nat /\ Len(down) \in Nat /\ Len(got) \in Nat
      /\ Len(up) <= SendSpace /\ Len(down) <= RecvSpace /\ made \in Nat
  BY DEF TransportInv, TypeOK
<1>3. CASE Drain
  <2>1. /\ up # <<>> /\ received' = Append(received, Head(up)) /\ up' = Tail(up)
        /\ UNCHANGED <<down, made, peer>>
    BY <1>3 DEF Drain
  <2>2. CountsFrom(0, received) /\ CountsFrom(Len(received), up)
    BY DEF TransportInv, CallOK
  <2>3. Head(up) = Len(received) + 1 /\ CountsFrom(Len(received) + 1, up')
    BY <1>2, <2>1, <2>2, TailCounts
  <2>4. /\ received' \in Seq(Nat) /\ Len(received') = Len(received) + 1
        /\ CountsFrom(0, received')
    <3>1. 0 + Len(received) + 1 = Len(received) + 1
      BY <1>2
    <3> QED
      BY <1>2, <2>1, <2>2, <2>3, <3>1, AppendCounts
  <2>5. up' \in Seq(Nat) /\ Len(up') = Len(up) - 1
    BY <1>2, <2>1
  <2>6. TypeOK'
    <3>1. Len(up') <= SendSpace
      BY <1>2, <2>5
    <3> QED
      BY <1>1, <2>1, <2>4, <2>5, <3>1 DEF TransportInv, TypeOK
  <2>7. CallOK'
    <3>1. Len(received') + Len(up') = Len(received) + Len(up)
      BY <1>2, <2>4, <2>5
    <3> QED
      BY <1>1, <2>3, <2>4, <3>1 DEF TransportInv, CallOK, Calling, HasEvent
  <2>8. ReadsInOrder'
    BY <1>1, <2>1 DEF TransportInv, ReadsInOrder
  <2>9. WaitOK'
    <3>1. WokenWhenReady'
      BY <1>1, <1>2, <2>1, <2>5 DEF TransportInv, WaitOK, WokenWhenReady, Ready, Space
    <3> QED
      BY <1>1, <3>1 DEF TransportInv, WaitOK, Calling, HasEvent
  <2> QED
    BY <2>6, <2>7, <2>8, <2>9 DEF TransportInv
<1>4. CASE PeerSends
  <2>1. /\ made < MaxBytes /\ Len(down) < RecvSpace /\ made' = made + 1
        /\ down' = Append(down, made + 1) /\ UNCHANGED <<up, received, peer>>
    BY <1>4 DEF PeerSends
  <2>2. made = Len(got) + Len(down) /\ CountsFrom(Len(got), down)
    BY DEF TransportInv, ReadsInOrder
  <2>3. /\ down' \in Seq(Nat) /\ Len(down') = Len(down) + 1
        /\ CountsFrom(Len(got), down')
    BY <1>2, <2>1, <2>2, AppendCounts
  <2>4. TypeOK'
    <3>1. made' \in 0 .. MaxBytes /\ Len(down') <= RecvSpace
      BY <1>2, <2>1, <2>3
    <3> QED
      BY <1>1, <2>1, <2>3, <3>1 DEF TransportInv, TypeOK
  <2>5. CallOK'
    BY <1>1, <2>1 DEF TransportInv, CallOK, Calling, HasEvent
  <2>6. ReadsInOrder'
    BY <1>1, <1>2, <2>1, <2>2, <2>3 DEF TransportInv, ReadsInOrder
  <2>7. WaitOK'
    <3>1. down' # <<>>
      BY <1>2, <2>3
    <3>2. WokenWhenReady'
      BY <1>1, <2>1, <3>1 DEF TransportInv, WaitOK, WokenWhenReady, Ready, Space
    <3> QED
      BY <1>1, <3>2 DEF TransportInv, WaitOK, Calling, HasEvent
  <2> QED
    BY <2>4, <2>5, <2>6, <2>7 DEF TransportInv
<1>5. CASE PeerCloses \/ PeerResets
  <2>1. /\ UNCHANGED <<up, received, down, made>>
        /\ peer' = "reset" \/ (peer = "open" /\ peer' = "closed")
    BY <1>5 DEF PeerCloses, PeerResets
  <2>2. TypeOK'
    BY <1>1, <2>1 DEF TransportInv, TypeOK
  <2>3. CallOK'
    BY <1>1, <2>1 DEF TransportInv, CallOK, Calling, HasEvent
  <2>4. ReadsInOrder'
    BY <1>1, <2>1 DEF TransportInv, ReadsInOrder
  <2>5. WaitOK'
    <3>1. WokenWhenReady'
      BY <1>1, <2>1 DEF TransportInv, WaitOK, WokenWhenReady, Ready, Space
    <3> QED
      BY <1>1, <3>1 DEF TransportInv, WaitOK, Calling, HasEvent
  <2> QED
    BY <2>2, <2>3, <2>4, <2>5 DEF TransportInv
<1> QED
  BY <1>3, <1>4, <1>5

LEMMA TransportStep == TransportInv /\ [Next]_vars => TransportInv'
<1> SUFFICES ASSUME TransportInv, [Next]_vars
             PROVE  TransportInv'
  OBVIOUS
<1>1. CASE Coroutine \/ SuspendFails
  BY <1>1, SendInv, RecvInv, CoroutineInv DEF Coroutine
<1>2. CASE \/ Wake \/ Cancel \/ ConversionRaises
           \/ \E n \in 1 .. MaxLen : DoCall("write", n) \/ DoCall("read", n)
  BY <1>2, OutsideInv
<1>3. CASE Drain \/ PeerSends \/ PeerCloses \/ PeerResets
  BY <1>3, PeerInv
<1>4. CASE UNCHANGED vars
  <2>1. TypeOK' /\ CallOK' /\ ReadsInOrder'
    BY <1>4 DEF vars, TransportInv, TypeOK, CallOK, ReadsInOrder, Calling, HasEvent
  <2>2. WaitOK'
    BY <1>4 DEF vars, TransportInv, WaitOK, WokenWhenReady, Ready, Space, Calling, HasEvent
  <2> QED
    BY <2>1, <2>2 DEF TransportInv
<1> QED
  BY <1>1, <1>2, <1>3, <1>4 DEF Next, Thrown

-----------------------------------------------------------------------------
(* Theorems                                                                *)

(* The buffers, the call in progress and the armed event fit together.     *)
THEOREM TransportInvariant == Spec => []TransportInv
BY TransportInit, TransportStep, PTL DEF Spec

(* Every variable keeps its type, and no buffer holds more than fits.      *)
THEOREM TransportTypeCorrect == Spec => []TypeOK
<1>1. TransportInv => TypeOK
  BY DEF TransportInv
<1> QED
  BY <1>1, TransportInvariant, PTL

(* The peer gets the bytes given to DoWrite, in order, each once, and all  *)
(* of them when DoWrite returns, whatever sizes send() chooses.            *)
THEOREM PeerGetsTheBytes == Spec => []WritesInOrder
<1>1. TransportInv => WritesInOrder
  <2> SUFFICES ASSUME TransportInv PROVE WritesInOrder
    OBVIOUS
  <2>1. pc = "user" => Len(received) + Len(up) = given
    BY DEF TransportInv, TypeOK, CallOK
  <2> QED
    BY <2>1 DEF TransportInv, CallOK, WritesInOrder
<1> QED
  BY <1>1, TransportInvariant, PTL

(* DoRead gives the bytes of the peer in order, each once.                 *)
THEOREM CallerGetsTheBytes == Spec => []ReadsInOrder
<1>1. TransportInv => ReadsInOrder
  BY DEF TransportInv
<1> QED
  BY <1>1, TransportInvariant, PTL

(* No wait leaves an armed event behind, and none leaves an event at all   *)
(* unless an exception was pending when the call was made.                 *)
THEOREM NoEventOutlivesItsWait == Spec => []WaitLeavesNothing
<1>1. TransportInv => WaitLeavesNothing
  BY DEF TransportInv, WaitOK, WaitLeavesNothing
<1> QED
  BY <1>1, TransportInvariant, PTL

(* A wait that succeeds is followed by a system call that does not block.  *)
THEOREM NoSpuriousWake == Spec => []WokenWhenReady
<1>1. TransportInv => WokenWhenReady
  BY DEF TransportInv, WaitOK
<1> QED
  BY <1>1, TransportInvariant, PTL

=============================================================================
