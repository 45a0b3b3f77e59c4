------------------------------ MODULE ByteStream ------------------------------
(***************************************************************************)
(* What a TcpConnection promises its user: the connection comes up once,   *)
(* goes down once, and between the two carries one stream of bytes - what  *)
(* has been accepted for sending leaves in the order in which it was       *)
(* accepted, and the stream is ended only when nothing accepted is left.   *)
(* When the connection goes down, bytes that did not leave are dropped.    *)
(***************************************************************************)
EXTENDS Naturals, Sequences

CONSTANT Payloads  \* the byte sequences users send

VARIABLES
  phase,  \* "connecting", "up" or "down"
  sent,   \* bytes given to the kernel, in order
  todo,   \* bytes accepted and not yet given to the kernel, in order
  fin     \* the end of the stream has been announced to the peer

vars == <<phase, sent, todo, fin>>

Init ==
  /\ phase = "connecting"
  /\ sent = <<>>
  /\ todo = <<>>
  /\ fin = FALSE

ComeUp ==
  /\ phase = "connecting"
  /\ phase' = "up"
  /\ UNCHANGED <<sent, todo, fin>>

\* Bytes are accepted behind everything accepted before. When nothing else
\* waits and the stream goes on, some of them may leave at once.
Accept(bytes) ==
  /\ phase = "up"
  /\ \E n \in 0..Len(bytes) :
       /\ todo # <<>> \/ fin => n = 0
       /\ sent' = sent \o SubSeq(bytes, 1, n)
       /\ todo' = todo \o SubSeq(bytes, n + 1, Len(bytes))
  /\ UNCHANGED <<phase, fin>>

\* Waiting bytes leave; with the last of them the stream may be ended.
Transmit ==
  /\ phase = "up"
  /\ ~fin
  /\ \E n \in 1..Len(todo) :
       /\ sent' = sent \o SubSeq(todo, 1, n)
       /\ todo' = SubSeq(todo, n + 1, Len(todo))
  /\ fin' \in BOOLEAN
  /\ fin' => todo' = <<>>
  /\ UNCHANGED phase

Finish ==
  /\ phase = "up" => todo = <<>>
  /\ fin' = TRUE
  /\ UNCHANGED <<phase, sent, todo>>

\* Not a step of the stream, but what a buffer can make of one: bytes are
\* accepted, and other bytes get in among those that wait, behind the first k
\* and in front of the rest.
AcceptAmongStale(bytes) ==
  /\ phase = "up"
  /\ LET all == todo \o bytes IN
     /\ Len(todo') >= Len(all)
     /\ \E k \in 0..Len(all) :
          /\ SubSeq(todo', 1, k) = SubSeq(all, 1, k)
          /\ SubSeq(todo', Len(todo') - (Len(all) - k) + 1, Len(todo'))
               = SubSeq(all, k + 1, Len(all))
  /\ UNCHANGED <<phase, sent, fin>>

GoDown ==
  /\ phase = "up"
  /\ phase' = "down"
  /\ todo' = <<>>
  /\ UNCHANGED <<sent, fin>>

Next ==
  \/ ComeUp \/ Transmit \/ Finish \/ GoDown
  \/ \E bytes \in Payloads : Accept(bytes)

Spec == Init /\ [][Next]_vars

=============================================================================
