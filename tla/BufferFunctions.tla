---------------------------- MODULE BufferFunctions ----------------------------
(***************************************************************************)
(* muduo/net/buffer.cc: the class Buffer as functions of its value. A      *)
(* buffer is a vector of bytes and two indices,                            *)
(*                                                                         *)
(*   | prependable | readable | writable |                                 *)
(*   0     <=  read_idx <= write_idx <= size                               *)
(*                                                                         *)
(* Each function of the class is an operator from a buffer to a buffer.    *)
(* Buffer applies them to Buffer objects in any order; TcpConnection keeps *)
(* such a buffer as output_buffer_.                                        *)
(***************************************************************************)
EXTENDS Integers, Sequences

CONSTANTS
  Bytes,          \* byte values
  Zero,           \* the value of the bytes a vector is filled with
  kCheapPrepend,  \* room kept in front of the data of a new buffer
  kInitialSize    \* writable bytes of a new buffer

ASSUME BufferAssumption ==
  /\ Zero \in Bytes
  /\ kCheapPrepend \in Nat
  /\ kInitialSize \in Nat

-----------------------------------------------------------------------------
(* A buffer and what can be observed of it *)

Record(mem, r, w) == [buffer_ |-> mem, read_idx |-> r, write_idx |-> w]

Buf == [buffer_ : Seq(Bytes), read_idx : Nat, write_idx : Nat]

readableBytes(b) == b.write_idx - b.read_idx
writableBytes(b) == Len(b.buffer_) - b.write_idx
prependableBytes(b) == b.read_idx

\* The readable bytes, from peek() on.
Readable(b) == SubSeq(b.buffer_, b.read_idx + 1, b.write_idx)

Zeros(n) == [i \in 1..n |-> Zero]

NewBuffer ==
  Record(Zeros(kCheapPrepend + kInitialSize), kCheapPrepend, kCheapPrepend)

\* std::copy of data to the bytes from index at on.
Overwrite(mem, at, data) ==
  [i \in 1..Len(mem) |->
     IF i \in at + 1 .. at + Len(data) THEN data[i - at] ELSE mem[i]]

-----------------------------------------------------------------------------
(* The functions of the class *)

\* vector::resize, in the one place that calls it, which only grows.
resize(b, size) ==
  Record(b.buffer_ \o Zeros(size - Len(b.buffer_)), b.read_idx, b.write_idx)

GrowFor(b, len) ==
  IF len > writableBytes(b) THEN resize(b, b.write_idx + len) ELSE b

\* The move of the readable bytes down to kCheapPrepend. write_idx_ is
\* computed from readableBytes() after read_idx_ has been changed, so it
\* keeps its value.
MoveDown(b) ==
  LET moved == Record(Overwrite(b.buffer_, kCheapPrepend, Readable(b)),
                      kCheapPrepend, b.write_idx)
  IN Record(moved.buffer_, moved.read_idx,
            moved.read_idx + readableBytes(moved))

\* Mutant: the bytes are moved one place too far down.
MakeSpaceOffByOne(b, len) ==
  GrowFor(IF kCheapPrepend < b.read_idx
            THEN Record(Overwrite(b.buffer_, kCheapPrepend - 1, Readable(b)),
                        kCheapPrepend, b.write_idx)
            ELSE b,
          len)

makeSpace(b, len) ==
  GrowFor(IF kCheapPrepend < b.read_idx THEN MoveDown(b) ELSE b, len)

\* Mutant: the test lets one byte too many pass.
EnsureOffByOne(b, len) ==
  IF writableBytes(b) + 1 < len THEN makeSpace(b, len) ELSE b

ensureWritableBytes(b, len) ==
  IF writableBytes(b) < len THEN makeSpace(b, len) ELSE b

append(b, data) ==
  LET c == ensureWritableBytes(b, Len(data)) IN
  Record(Overwrite(c.buffer_, c.write_idx, data), c.read_idx,
         c.write_idx + Len(data))

retrieveAll(b) == Record(b.buffer_, kCheapPrepend, kCheapPrepend)

\* Mutant: the indices do not go home when the buffer becomes empty.
RetrieveNoReset(b, len) == Record(b.buffer_, b.read_idx + len, b.write_idx)

\* assert(len <= readableBytes()) is the caller's duty.
retrieve(b, len) ==
  IF len < readableBytes(b)
    THEN Record(b.buffer_, b.read_idx + len, b.write_idx)
    ELSE retrieveAll(b)

\* assert(len <= prependableBytes()) is the caller's duty.
prepend(b, data) ==
  LET to == b.read_idx - Len(data)
  IN Record(Overwrite(b.buffer_, to, data), to, b.write_idx)

\* A new buffer takes over the readable bytes and is swapped in.
shrink(b, reserve) ==
  append(ensureWritableBytes(NewBuffer, readableBytes(b) + reserve), Readable(b))

\* readFd, when readv has delivered data: into the writable bytes and, what
\* does not fit there, by way of the buffer on the stack.
readFd(b, data) ==
  LET writable == writableBytes(b)
      Fill(part) == Overwrite(b.buffer_, b.write_idx, part)
  IN IF Len(data) <= writable
       THEN Record(Fill(data), b.read_idx, b.write_idx + Len(data))
       ELSE append(Record(Fill(SubSeq(data, 1, writable)), b.read_idx,
                          Len(b.buffer_)),
                   SubSeq(data, writable + 1, Len(data)))

-----------------------------------------------------------------------------
(* What a buffer satisfies, and how byte sequences are compared *)

InOrderIndices(b) ==
  /\ b.read_idx <= b.write_idx
  /\ b.write_idx <= Len(b.buffer_)
  /\ kCheapPrepend <= b.write_idx
  /\ b.read_idx = b.write_idx => b.read_idx = kCheapPrepend

Begins(s, front) == SubSeq(s, 1, Len(front)) = front
Ends(s, back) == SubSeq(s, Len(s) - Len(back) + 1, Len(s)) = back

=============================================================================
