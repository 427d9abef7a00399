----------------------------- MODULE Transport -----------------------------
(***************************************************************************)
(* The socket of one connection, as clickhouse-cpp uses it: DoWrite and    *)
(* DoRead of the plain transport, which wait in ch_await_socket, and of    *)
(* the TLS transport, which wait inside php_stream.                        *)
(*                                                                         *)
(* One coroutine makes the calls, one at a time.  The kernel, the peer,    *)
(* the reactor and whoever cancels the coroutine are external and run at   *)
(* any point between two system calls.  Bytes are numbered in the order in *)
(* which they are given to DoWrite, and in which the peer sends them.      *)
(***************************************************************************)
EXTENDS Naturals, Sequences

CONSTANTS
  SendSpace,  \* bytes that fit between send() and the peer
  RecvSpace,  \* bytes that fit between the peer and recv()
  MaxLen,     \* bound: bytes in one call
  MaxBytes    \* bound: bytes in each direction

ASSUME SpaceAssumption == SendSpace \in Nat \ {0} /\ RecvSpace \in Nat \ {0}
ASSUME LengthAssumption == MaxLen \in Nat \ {0} /\ MaxBytes \in Nat

VARIABLES
  tls,       \* which of the two transports the factory made
  pc,        \* where the coroutine is
  io,        \* the call in progress, and what its socket event waits for
  len,       \* its length
  progress,  \* "sent" of DoWrite
  given,     \* how many bytes were given to DoWrite before this call
  up,        \* bytes between send() and the peer
  received,  \* bytes the peer has read
  down,      \* bytes between the peer and recv()
  made,      \* how many bytes the peer has sent
  got,       \* bytes that DoRead has returned
  peer,      \* "open", "closed" or "reset"
  pending,   \* is a PHP exception pending
  armed,     \* socket events that wake the coroutine
  event,     \* is there a socket event that has not been released
  entered    \* history: was an exception pending when the call was made

call == <<io, len, progress, given, entered>>
network == <<up, received, down, made, got, peer>>
waker == <<armed, event>>
vars == <<tls, pc, io, len, progress, given, up, received, down, made, got,
          peer, pending, armed, event, entered>>

(* Inside ch_await_socket the call goes through these in order.            *)
HasEvent == {"event", "waker", "suspended", "queued"}

Calling == {"syscall", "await"} \cup HasEvent

TypeOK ==
  /\ tls \in BOOLEAN /\ pending \in BOOLEAN
  /\ event \in BOOLEAN /\ entered \in BOOLEAN
  /\ pc \in {"user", "thrown"} \cup Calling
  /\ io \in {"none", "read", "write"} /\ armed \subseteq {"read", "write"}
  /\ len \in 0 .. MaxLen /\ progress \in 0 .. len
  /\ given \in 0 .. MaxBytes /\ made \in 0 .. MaxBytes
  /\ peer \in {"open", "closed", "reset"}
  /\ up \in Seq(Nat) /\ received \in Seq(Nat)
  /\ down \in Seq(Nat) /\ got \in Seq(Nat)
  /\ Len(up) <= SendSpace /\ Len(down) <= RecvSpace

(* The connection is up: connect() or the TLS handshake has returned.      *)
Init ==
  /\ tls \in BOOLEAN
  /\ pc = "user" /\ io = "none" /\ len = 0 /\ progress = 0 /\ given = 0
  /\ up = <<>> /\ received = <<>> /\ down = <<>> /\ made = 0 /\ got = <<>>
  /\ peer = "open"
  /\ pending = FALSE /\ armed = {} /\ event = FALSE /\ entered = FALSE

-----------------------------------------------------------------------------
(* How a call ends                                                         *)

Return ==
  /\ pc' = "user" /\ io' = "none" /\ len' = 0 /\ progress' = 0
  /\ given' = IF io = "write" THEN given + len ELSE given
  /\ entered' = FALSE

(* ConnectionError: the connection is not used again.                      *)
Throw == pc' = "thrown" /\ UNCHANGED call

-----------------------------------------------------------------------------
(* The system calls.  One that a signal interrupts (EINTR) did nothing and *)
(* is made again: a step that changes nothing.                             *)

Space == SendSpace - Len(up)

(* Mutant: the buffer is sent from its start after a partial send.         *)
Chunk_FromStart(n) == [i \in 1 .. n |-> given + i]

(* The n bytes at p + sent.                                                *)
Chunk(n) == [i \in 1 .. n |-> given + progress + i]

(* send() takes as much as fits, or less.                                  *)
Send ==
  /\ pc = "syscall" /\ io = "write" /\ progress < len /\ peer # "reset"
  /\ \E n \in 1 .. len - progress :
       n <= Space /\ up' = up \o Chunk(n) /\ progress' = progress + n
  /\ UNCHANGED <<tls, pc, io, len, given, entered, received, down, made, got, peer,
                 pending, waker>>

(* Mutant: DoWrite returns after the first send().                         *)
AllSent_Once == progress > 0

AllSent == progress = len

WriteReturns ==
  /\ pc = "syscall" /\ io = "write" /\ AllSent
  /\ Return
  /\ UNCHANGED <<tls, network, pending, waker>>

(* Mutant: DoRead claims all the bytes it was asked for.                   *)
Filled_AsAsked(n) == [i \in 1 .. len |-> IF i <= n THEN down[i] ELSE 0]

(* The part of the buffer that DoRead has filled.                          *)
Filled(n) == SubSeq(down, 1, n)

Recv ==
  /\ pc = "syscall" /\ io = "read" /\ peer # "reset"
  /\ \E n \in 1 .. Len(down) :
       n <= len /\ got' = got \o Filled(n) /\ down' = SubSeq(down, n + 1, Len(down))
  /\ Return
  /\ UNCHANGED <<tls, up, received, made, peer, pending, waker>>

(* Mutant: recv() = 0 is taken for "nothing yet".                          *)
EndOfStream_Ignored == FALSE

EndOfStream == peer = "closed" /\ io = "read" /\ down = <<>>

(* send() or recv() fails, or recv() finds the end of the stream; php_     *)
(* stream also gives up on a timeout, an alert or a cancellation.          *)
SyscallFails ==
  /\ pc = "syscall"
  /\ \/ peer = "reset" /\ (io = "write" => progress < len)
     \/ EndOfStream
     \/ tls /\ (io = "write" => progress < len)
  /\ Throw
  /\ UNCHANGED <<tls, network, pending, waker>>

-----------------------------------------------------------------------------
(* ch_await_socket                                                         *)

(* The kernel reports each event for as long as its condition holds.       *)
Ready(e) ==
  \/ peer = "reset"
  \/ e = "write" /\ Space > 0
  \/ e = "read" /\ (down # <<>> \/ peer = "closed")

(* EAGAIN.  The kernel may change its mind before the wait begins.         *)
WouldBlock ==
  /\ pc = "syscall" /\ ~ tls
  /\ (io = "write" => progress < len) /\ ~ Ready(io)
  /\ pc' = "await"
  /\ UNCHANGED <<tls, call, network, pending, waker>>

(* Mutant: the wait begins with an exception pending.                      *)
Refuses_Never == FALSE

Refuses == pending

(* No event, with an exception or without.  One that is made is left       *)
(* behind when an exception is pending already.                            *)
NewEvent ==
  /\ pc = "await"
  /\ \/ Throw /\ pending' \in {pending, TRUE} /\ UNCHANGED event
     \/ /\ event' = TRUE /\ UNCHANGED pending
        /\ IF Refuses THEN Throw ELSE pc' = "event" /\ UNCHANGED call
  /\ UNCHANGED <<tls, network, armed>>

(* The waker cannot be made: the event is released.                        *)
NewWaker ==
  /\ pc = "event"
  /\ \/ pc' = "waker" /\ UNCHANGED <<call, pending, event>>
     \/ Throw /\ pending' = TRUE /\ event' = FALSE
  /\ UNCHANGED <<tls, network, armed>>

(* Mutant: the waker is only cleaned when the wait was cut short.          *)
WakerClean_OnError == IF pending' THEN armed' = {} /\ event' = FALSE ELSE UNCHANGED waker

(* The waker owns the event.                                               *)
WakerClean == armed' = {} /\ event' = FALSE

(* Mutant: an event armed for the wrong condition.                         *)
Arm_Read == armed' = armed \cup {"read"}

Arm == armed' = armed \cup {io}

(* zend_async_resume_when, and the coroutine suspends.                     *)
ResumeWhen ==
  /\ pc = "waker"
  /\ \/ pc' = "suspended" /\ Arm /\ UNCHANGED <<call, pending, event>>
     \/ Throw /\ pending' = TRUE /\ WakerClean
  /\ UNCHANGED <<tls, network>>

(* Suspending fails, with an exception or without.                         *)
SuspendFails ==
  /\ pc = "suspended"
  /\ pending' \in {pending, TRUE}
  /\ WakerClean
  /\ Throw
  /\ UNCHANGED <<tls, network>>

(* Ready: the system call is made again.  Cancelled: it is given up.       *)
AwaitReturns == IF pending THEN Throw ELSE pc' = "syscall" /\ UNCHANGED call

Resume ==
  /\ pc = "queued"
  /\ UNCHANGED pending
  /\ WakerClean
  /\ AwaitReturns
  /\ UNCHANGED <<tls, network>>

(* The reactor: an armed event is ready.                                   *)
Wake ==
  /\ pc = "suspended" /\ \E e \in armed : Ready(e)
  /\ pc' = "queued"
  /\ UNCHANGED <<tls, call, network, pending, waker>>

(* Another coroutine cancels this one, which may be queued already.        *)
Cancel ==
  /\ pc \in {"suspended", "queued"} /\ ~ pending
  /\ pc' = "queued" /\ pending' = TRUE
  /\ UNCHANGED <<tls, call, network, waker>>

-----------------------------------------------------------------------------
(* The callers and the peer                                                *)

DoCall(what, n) ==
  /\ pc = "user"
  /\ what = "write" => given + n <= MaxBytes
  /\ pc' = "syscall" /\ io' = what /\ len' = n
  /\ entered' = pending
  /\ UNCHANGED <<tls, progress, given, network, pending, waker>>

(* A conversion in the rows to insert has raised an exception (an object   *)
(* without __toString) and the insert goes on.                             *)
ConversionRaises ==
  /\ pc = "user" /\ ~ pending
  /\ pending' = TRUE
  /\ UNCHANGED <<tls, pc, call, network, waker>>

Drain ==
  /\ up # <<>> /\ peer # "reset"
  /\ received' = Append(received, Head(up)) /\ up' = Tail(up)
  /\ UNCHANGED <<tls, pc, call, down, made, got, peer, pending, waker>>

PeerSends ==
  /\ peer = "open" /\ made < MaxBytes /\ Len(down) < RecvSpace
  /\ made' = made + 1 /\ down' = Append(down, made + 1)
  /\ UNCHANGED <<tls, pc, call, up, received, got, peer, pending, waker>>

PeerCloses ==
  /\ peer = "open"
  /\ peer' = "closed"
  /\ UNCHANGED <<tls, pc, call, up, received, down, made, got, pending, waker>>

PeerResets ==
  /\ peer # "reset"
  /\ peer' = "reset"
  /\ UNCHANGED <<tls, pc, call, up, received, down, made, got, pending, waker>>

Thrown == pc = "thrown" /\ UNCHANGED vars

Coroutine ==
  \/ Send \/ WriteReturns \/ Recv \/ SyscallFails \/ WouldBlock
  \/ NewEvent \/ NewWaker \/ ResumeWhen \/ Resume

Next ==
  \/ Coroutine \/ SuspendFails \/ Wake \/ Cancel
  \/ \E n \in 1 .. MaxLen : DoCall("write", n) \/ DoCall("read", n)
  \/ ConversionRaises
  \/ Drain \/ PeerSends \/ PeerCloses \/ PeerResets
  \/ Thrown

Spec == Init /\ [][Next]_vars

(* The coroutine runs when it can, and the reactor reports what is ready.  *)
(* Nothing is assumed of the peer.                                         *)
FairSpec == Spec /\ WF_vars(Coroutine) /\ WF_vars(Wake)

-----------------------------------------------------------------------------
(* Properties                                                              *)

(* The sequence goes on counting from n.                                   *)
CountsFrom(n, s) == \A i \in 1 .. Len(s) : s[i] = n + i

(* The peer reads the bytes that were given to DoWrite, in order and none  *)
(* twice, however send() splits them; and when DoWrite has returned, all   *)
(* of them are on their way.                                               *)
WritesInOrder ==
  /\ CountsFrom(0, received) /\ CountsFrom(Len(received), up)
  /\ pc = "user" => Len(received) + Len(up) = given

(* DoRead returns the bytes of the peer in order, without a gap.           *)
ReadsInOrder ==
  /\ CountsFrom(0, got) /\ CountsFrom(Len(got), down)
  /\ Len(got) + Len(down) = made

(* No wait leaves something behind, however it ends: outside of it no      *)
(* event can wake the coroutine, and the event has been released on every  *)
(* early return of ch_await_socket but one.  A call that was made with an  *)
(* exception pending leaves an event that was never armed.                 *)
WaitLeavesNothing ==
  /\ pc \notin {"suspended", "queued"} => armed = {}
  /\ event /\ pc \notin HasEvent => entered /\ pc = "thrown"

(* The coroutine is woken for what it waits for: the system call that      *)
(* follows a wait does not block again.                                    *)
WokenWhenReady == pc = "queued" /\ ~ pending => Ready(io)

(* The invariant behind the theorems of Transport_proofs: what is on its   *)
(* way is what the calls have given so far, the call in progress included, *)
(* and a wait has armed its own event and no other.                        *)
CallOK ==
  /\ CountsFrom(0, received) /\ CountsFrom(Len(received), up)
  /\ Len(received) + Len(up) = given + progress
  /\ pc \in Calling => io # "none"
  /\ pc = "user" => progress = 0 /\ len = 0 /\ ~ event
  /\ io # "write" => progress = 0
  /\ io = "write" => given + len <= MaxBytes

WaitOK ==
  /\ armed = IF pc \in {"suspended", "queued"} THEN {io} ELSE {}
  /\ pc \in HasEvent \ {"queued"} => ~ pending
  /\ pc \in Calling \ {"syscall"} => ~ tls
  /\ pc \in HasEvent => event
  /\ pc \in {"syscall", "await"} => ~ event /\ (pending => entered)
  /\ event /\ pc \notin HasEvent => entered /\ pc = "thrown"
  /\ WokenWhenReady

TransportInv == TypeOK /\ CallOK /\ ReadsInOrder /\ WaitOK

(* A call with an exception pending, from before the call or from a        *)
(* cancellation during a wait, ends whatever the peer does or does not do. *)
CancelEndsCall == (pc \in Calling /\ pending) ~> pc \notin Calling

(* The peer reads what there is, and sends or closes.                      *)
PeerWorks ==
  /\ WF_vars(Drain)
  /\ WF_vars(PeerSends \/ PeerCloses)

(* With such a peer every call returns or throws: no wake-up gets lost     *)
(* between EAGAIN and the wait.                                            *)
CallEnds == PeerWorks => (pc \in Calling ~> pc \notin Calling)

=============================================================================
