------------------------------ MODULE ByteQueue ------------------------------
(***************************************************************************)
(* What a muduo Buffer promises its user: each buffer behaves as one       *)
(* contiguous queue of bytes, bytes go in at the tail and come out at the  *)
(* head, a header can be put before them, and moving or growing the memory *)
(* underneath changes nothing.                                             *)
(***************************************************************************)
EXTENDS Naturals, Sequences

CONSTANTS
  Buffers,
  Chunks    \* the byte sequences one call may add

VARIABLE content  \* the bytes of each buffer, head first

Init == content = [b \in Buffers |-> <<>>]

Set(b, bytes) == content' = [content EXCEPT ![b] = bytes]

PushBack(b, data)  == Set(b, content[b] \o data)
PushFront(b, data) == Set(b, data \o content[b])
PopFront(b, n)     == Set(b, SubSeq(content[b], n + 1, Len(content[b])))
Exchange(a, b) ==
  content' = [content EXCEPT ![a] = content[b], ![b] = content[a]]

Next ==
  \/ \E b \in Buffers :
       \/ \E data \in Chunks : PushBack(b, data) \/ PushFront(b, data)
       \/ \E n \in 0..Len(content[b]) : PopFront(b, n)
  \/ \E a, b \in Buffers : Exchange(a, b)

Spec == Init /\ [][Next]_content

=============================================================================
