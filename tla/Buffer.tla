------------------------------- MODULE Buffer -------------------------------
(***************************************************************************)
(* The Buffer objects of muduo/net/buffer.cc under every sequence of calls *)
(* of the class. A buffer belongs to one IO thread, so a call is one step: *)
(* it applies an operator of BufferFunctions.                              *)
(***************************************************************************)
EXTENDS BufferFunctions

CONSTANTS
  Buffers,   \* the Buffer objects
  Chunks,    \* the byte sequences callers append, prepend or receive
  ExtraBuf,  \* size of readFd's buffer on the stack
  MaxSize    \* bound: no buffer grows beyond this size

ASSUME CallsAssumption ==
  /\ Chunks \subseteq Seq(Bytes)
  /\ ExtraBuf \in Nat
  /\ MaxSize \in Nat

VARIABLE buffers  \* the state of each Buffer object

vars == buffers

-----------------------------------------------------------------------------
(* Actions *)

Init == buffers = [x \in Buffers |-> NewBuffer]

Set(x, b) ==
  /\ Len(b.buffer_) <= MaxSize
  /\ buffers' = [buffers EXCEPT ![x] = b]

Append_(x, data) == Set(x, append(buffers[x], data))

\* readv delivers at most what the two areas hold; on an error or at the end
\* of the stream it delivers nothing and the buffer stays as it is.
ReadFd(x, data) ==
  /\ Len(data) <= writableBytes(buffers[x]) + ExtraBuf
  /\ Set(x, readFd(buffers[x], data))

\* Mutant: a header longer than the room in front is let through.
PrependUnchecked(x, data) == Set(x, prepend(buffers[x], data))

Prepend(x, data) ==
  /\ Len(data) <= prependableBytes(buffers[x])
  /\ Set(x, prepend(buffers[x], data))

\* retrieve and retrieveAsString change the buffer in the same way; so do
\* retrieveAll and retrieveAllAsString when len is all there is.
Retrieve(x, len) ==
  /\ len <= readableBytes(buffers[x])
  /\ Set(x, retrieve(buffers[x], len))

EnsureWritableBytes(x, len) == Set(x, ensureWritableBytes(buffers[x], len))
MakeSpace(x, len) == Set(x, makeSpace(buffers[x], len))
Shrink(x, reserve) == Set(x, shrink(buffers[x], reserve))

\* Mutant: one of the two keeps what it had.
SwapOneWay(x, y) == buffers' = [buffers EXCEPT ![x] = buffers[y]]

Swap(x, y) ==
  buffers' = [buffers EXCEPT ![x] = buffers[y], ![y] = buffers[x]]

Next ==
  \/ \E x \in Buffers :
       \/ \E data \in Chunks : Append_(x, data) \/ ReadFd(x, data) \/ Prepend(x, data)
       \/ \E len \in 0..MaxSize :
            \/ Retrieve(x, len) \/ EnsureWritableBytes(x, len)
            \/ MakeSpace(x, len) \/ Shrink(x, len)
  \/ \E x, y \in Buffers : Swap(x, y)

Spec == Init /\ [][Next]_vars

-----------------------------------------------------------------------------
(* Properties *)

TypeOK == buffers \in [Buffers -> Buf]

\* The three areas follow one another and stay inside the vector, so no call
\* reads or writes out of bounds; data never begins to be written below
\* kCheapPrepend, and an empty buffer has its indices home, which is what
\* keeps room for a header (buffer.cc:78-90).
IndicesInOrder ==
  \A x \in Buffers : InOrderIndices(buffers[x])

\* ensureWritableBytes' own assertion (buffer.cc:43): whatever the state of
\* the buffer, the room asked for is there after the call.
RoomAfterEnsure ==
  \A x \in Buffers : \A len \in 0..MaxSize :
    writableBytes(ensureWritableBytes(buffers[x], len)) >= len

\* What an append or a readFd makes of the readable bytes.
ArrivesInOrder ==
  \A x \in Buffers : \A data \in Chunks :
    Append_(x, data) \/ ReadFd(x, data) =>
      LET old == Readable(buffers[x])
          new == Readable(buffers'[x])
      IN /\ Len(new) >= Len(old) + Len(data)
         /\ \E n \in 0..Len(data) :
              /\ Begins(new, old \o SubSeq(data, 1, n))
              /\ Ends(new, SubSeq(data, n + 1, Len(data)))

\* No byte is lost or overtaken on the way in: after append or readFd the
\* bytes that were readable still come first and the new ones after them, the
\* last ones last. readFd takes them in two parts, of which the second goes
\* through append. (That nothing stands between the parts is what
\* ImplementsByteQueue asks.)
InOrder == [][ArrivesInOrder]_vars

contents == [x \in Buffers |-> Readable(buffers[x])]

Queue == INSTANCE ByteQueue WITH content <- contents

\* doc/Buffer, "Buffer的设计": outwardly a contiguous queue, taken from at the
\* head and added to at the tail.
ImplementsByteQueue == Queue!Spec

\* The calls in which makeSpace moves data down (buffer.cc:21-29).
MovesDown ==
  \E x \in Buffers :
    /\ kCheapPrepend < buffers[x].read_idx
    /\ \/ \E data \in Chunks :
            /\ Len(data) > writableBytes(buffers[x])
            /\ Append_(x, data) \/ ReadFd(x, data)
       \/ \E len \in 0..MaxSize :
            \/ MakeSpace(x, len)
            \/ len > writableBytes(buffers[x]) /\ EnsureWritableBytes(x, len)

\* As long as no data is moved down, every call - a growth, a shrink, a read
\* that overflows into the stack buffer, a swap - is a step of the byte queue.
QueueUnlessMoved ==
  /\ Queue!Init
  /\ [][Queue!Next \/ MovesDown \/ UNCHANGED contents]_vars

=============================================================================
