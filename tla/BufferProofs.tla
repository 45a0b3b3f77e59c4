----------------------------- MODULE BufferProofs -----------------------------
(***************************************************************************)
(* Proofs about Buffer, for any bytes, chunk sizes and initial sizes: the  *)
(* indices of a buffer stay in order and inside its vector, whatever the   *)
(* sequence of calls, ensureWritableBytes keeps its promise, and outwardly *)
(* a buffer is a byte queue but for the calls that move data down.         *)
(***************************************************************************)
EXTENDS Buffer, BufferFunctionsProofs

-----------------------------------------------------------------------------
\* Every Buffer object is well formed.
AllWellFormed ==
  buffers \in [Buffers -> Buf] /\ \A x \in Buffers : WellFormed(buffers[x])

LEMMA SetKeepsAllWellFormed ==
  ASSUME AllWellFormed, NEW x \in Buffers, NEW b, WellFormed(b), Set(x, b)
  PROVE  AllWellFormed'
BY DEF AllWellFormed, Set, WellFormed

\* Every call of the class leaves its buffer well formed.
THEOREM WellFormedInvariant == Spec => []AllWellFormed
<1>1. Init => AllWellFormed
  BY NewBufferWellFormed DEF Init, AllWellFormed, WellFormed
<1>2. AllWellFormed /\ [Next]_vars => AllWellFormed'
  <2> SUFFICES ASSUME AllWellFormed, [Next]_vars PROVE AllWellFormed'
    OBVIOUS
  <2>1. ASSUME NEW x \in Buffers, NEW data \in Chunks,
               Append_(x, data) \/ ReadFd(x, data) \/ Prepend(x, data)
        PROVE  AllWellFormed'
    <3>1. data \in Seq(Bytes) /\ WellFormed(buffers[x])
      BY CallsAssumption DEF AllWellFormed
    <3>2. CASE Append_(x, data)
      BY <3>1, <3>2, AppendKeepsWellFormed, SetKeepsAllWellFormed DEF Append_
    <3>3. CASE ReadFd(x, data)
      BY <3>1, <3>3, ReadFdKeepsWellFormed, SetKeepsAllWellFormed DEF ReadFd
    <3>4. CASE Prepend(x, data)
      BY <3>1, <3>4, PrependKeepsWellFormed, SetKeepsAllWellFormed DEF Prepend
    <3>5. QED  BY <2>1, <3>2, <3>3, <3>4
  <2>2. ASSUME NEW x \in Buffers, NEW len \in 0..MaxSize,
               \/ Retrieve(x, len) \/ EnsureWritableBytes(x, len)
               \/ MakeSpace(x, len) \/ Shrink(x, len)
        PROVE  AllWellFormed'
    <3>1. len \in Nat /\ WellFormed(buffers[x])
      BY CallsAssumption DEF AllWellFormed
    <3>2. CASE Retrieve(x, len)
      <4>1. len \in 0..readableBytes(buffers[x])
        BY <3>1, <3>2, ReadableProperties DEF Retrieve
      <4>2. QED
        BY <3>1, <3>2, <4>1, RetrieveKeepsWellFormed, SetKeepsAllWellFormed DEF Retrieve
    <3>3. CASE EnsureWritableBytes(x, len)
      BY <3>1, <3>3, EnsureProperties, SetKeepsAllWellFormed DEF EnsureWritableBytes
    <3>4. CASE MakeSpace(x, len)
      BY <3>1, <3>4, MakeSpaceProperties, SetKeepsAllWellFormed DEF MakeSpace
    <3>5. CASE Shrink(x, len)
      BY <3>1, <3>5, ShrinkKeepsWellFormed, SetKeepsAllWellFormed DEF Shrink
    <3>6. QED  BY <2>2, <3>2, <3>3, <3>4, <3>5
  <2>3. ASSUME NEW x \in Buffers, NEW y \in Buffers, Swap(x, y)
        PROVE  AllWellFormed'
    BY <2>3 DEF Swap, AllWellFormed, WellFormed
  <2>4. CASE UNCHANGED vars
    BY <2>4 DEF vars, AllWellFormed
  <2>5. QED  BY <2>1, <2>2, <2>3, <2>4 DEF Next
<1>3. QED  BY <1>1, <1>2, PTL DEF Spec

\* Whatever calls are made on the buffers, in whatever order, the indices of
\* each stay in order and inside its vector (buffer.cc).
THEOREM IndicesCorrect == Spec => [](TypeOK /\ IndicesInOrder)
<1>1. AllWellFormed => TypeOK /\ IndicesInOrder
  BY DEF AllWellFormed, WellFormed, TypeOK, IndicesInOrder
<1>2. QED  BY <1>1, WellFormedInvariant, PTL

\* A vector and two indices inside it, whatever is called.
THEOREM TypeCorrect == Spec => []TypeOK
<1>1. TypeOK /\ IndicesInOrder => TypeOK
  OBVIOUS
<1>2. QED  BY <1>1, IndicesCorrect, PTL

\* The assertion at the end of ensureWritableBytes (buffer.cc:43) never fails:
\* in every reachable state, any amount of room that is asked for is made.
THEOREM EnsureMakesRoom == Spec => []RoomAfterEnsure
<1>1. TypeOK /\ IndicesInOrder => RoomAfterEnsure
  <2> SUFFICES ASSUME TypeOK, IndicesInOrder, NEW x \in Buffers, NEW len \in 0..MaxSize
               PROVE  writableBytes(ensureWritableBytes(buffers[x], len)) >= len
    BY DEF RoomAfterEnsure
  <2>1. len \in Nat /\ WellFormed(buffers[x])
    BY CallsAssumption DEF TypeOK, IndicesInOrder, WellFormed
  <2>2. QED  BY <2>1, EnsureProperties
<1>2. QED  BY IndicesCorrect, <1>1, PTL

\* What arrives through append or readFd comes after what was there, in order
\* (buffer.cc:64, :103), though makeSpace may leave stale bytes in between.
THEOREM BytesInOrder == Spec => InOrder
<1>1. ASSUME AllWellFormed PROVE ArrivesInOrder
  <2> SUFFICES ASSUME NEW x \in Buffers, NEW data \in Chunks,
                      Append_(x, data) \/ ReadFd(x, data)
               PROVE  LET old == Readable(buffers[x])
                          new == Readable(buffers'[x])
                      IN /\ Len(new) >= Len(old) + Len(data)
                         /\ \E n \in 0..Len(data) :
                              /\ Begins(new, old \o SubSeq(data, 1, n))
                              /\ Ends(new, SubSeq(data, n + 1, Len(data)))
    BY DEF ArrivesInOrder
  <2> DEFINE b == buffers[x]
             old == Readable(b)
  <2>1. data \in Seq(Bytes) /\ WellFormed(b)
    BY <1>1, CallsAssumption DEF AllWellFormed
  <2>2. CASE ReadFd(x, data)
    <3>1. buffers'[x] = readFd(b, data)
      BY <1>1, <2>2 DEF ReadFd, Set, AllWellFormed
    <3> HIDE DEF b
    <3>2. QED  BY <2>1, <3>1, ReadFdInOrder DEF b
  <2>3. CASE Append_(x, data)
    <3>1. buffers'[x] = append(b, data)
      BY <1>1, <2>3 DEF Append_, Set, AllWellFormed
    <3> HIDE DEF b
    <3>2. /\ Len(Readable(buffers'[x])) >= Len(old) + Len(data)
          /\ Begins(Readable(buffers'[x]), old) /\ Ends(Readable(buffers'[x]), data)
      BY <2>1, <3>1, AppendInOrder
    <3>3. /\ old \o SubSeq(data, 1, 0) = old
          /\ SubSeq(data, 0 + 1, Len(data)) = data
          /\ 0 \in 0..Len(data)
      <4>1. old \in Seq(Bytes) /\ Len(data) \in Nat
        BY <2>1, ReadableProperties, LenProperties
      <4>2. SubSeq(data, 1, 0) = <<>> /\ SubSeq(data, 1, Len(data)) = data
        BY <2>1, SubSeqEmpty, SubSeqFull
      <4> HIDE DEF old
      <4>3. QED  BY <4>1, <4>2, ConcatEmptySeq
    <3>4. QED  BY <3>2, <3>3 DEF b
  <2>4. QED  BY <2>2, <2>3
<1>2. AllWellFormed /\ [Next]_vars => [ArrivesInOrder]_vars
  BY <1>1
<1>3. QED  BY <1>2, WellFormedInvariant, PTL DEF Spec, InOrder

-----------------------------------------------------------------------------
(* The byte queue                                                          *)

\* A call of one buffer is a call of its queue.
LEMMA SetContents ==
  ASSUME AllWellFormed, NEW x \in Buffers, NEW b, Set(x, b)
  PROVE  contents' = [contents EXCEPT ![x] = Readable(b)]
BY DEF AllWellFormed, Set, contents

\* Every call is a step of the byte queue, leaves it alone, or moves data down.
LEMMA QueueSteps ==
  ASSUME AllWellFormed, Next
  PROVE  Queue!Next \/ MovesDown \/ UNCHANGED contents
<1>1. \A x \in Buffers : contents[x] = Readable(buffers[x])
  BY DEF contents
<1>2. \A x \in Buffers : [contents EXCEPT ![x] = Readable(buffers[x])] = contents
  BY DEF contents
<1>3. ASSUME NEW x \in Buffers, NEW data \in Chunks, Append_(x, data) \/ ReadFd(x, data)
      PROVE  Queue!PushBack(x, data) \/ MovesDown
  <2>1. data \in Seq(Bytes) /\ WellFormed(buffers[x])
    BY CallsAssumption DEF AllWellFormed
  <2>2. CASE kCheapPrepend < buffers[x].read_idx /\ Len(data) > writableBytes(buffers[x])
    BY <1>3, <2>2 DEF MovesDown
  <2>3. CASE ~(kCheapPrepend < buffers[x].read_idx /\ Len(data) > writableBytes(buffers[x]))
    <3>1. /\ Readable(append(buffers[x], data)) = Readable(buffers[x]) \o data
          /\ Readable(readFd(buffers[x], data)) = Readable(buffers[x]) \o data
      BY <2>1, <2>3, AppendInOrder, ReadFdInOrder
    <3>2. contents' = [contents EXCEPT ![x] = contents[x] \o data]
      BY <1>1, <1>3, <3>1, SetContents DEF Append_, ReadFd
    <3>3. QED  BY <3>2 DEF Queue!PushBack, Queue!Set
  <2>4. QED  BY <2>2, <2>3
<1>4. ASSUME NEW x \in Buffers, NEW data \in Chunks, Prepend(x, data)
      PROVE  Queue!PushFront(x, data)
  <2>1. data \in Seq(Bytes) /\ WellFormed(buffers[x])
    BY CallsAssumption DEF AllWellFormed
  <2>2. Readable(prepend(buffers[x], data)) = data \o Readable(buffers[x])
    BY <1>4, <2>1, PrependReadable DEF Prepend
  <2>3. contents' = [contents EXCEPT ![x] = data \o contents[x]]
    BY <1>1, <1>4, <2>2, SetContents DEF Prepend
  <2>4. QED  BY <2>3 DEF Queue!PushFront, Queue!Set
<1>5. ASSUME NEW x \in Buffers, NEW len \in 0..MaxSize, Retrieve(x, len)
      PROVE  \E n \in 0..Len(contents[x]) : Queue!PopFront(x, n)
  <2>1. /\ WellFormed(buffers[x])
        /\ len \in 0..readableBytes(buffers[x])
        /\ Len(contents[x]) = readableBytes(buffers[x])
    BY <1>1, <1>5, ReadableProperties, CallsAssumption DEF AllWellFormed, Retrieve
  <2>2. Readable(retrieve(buffers[x], len)) = SubSeq(contents[x], len + 1, Len(contents[x]))
    BY <1>1, <2>1, RetrieveReadable
  <2>3. contents' = [contents EXCEPT ![x] = SubSeq(contents[x], len + 1, Len(contents[x]))]
    BY <1>5, <2>2, SetContents DEF Retrieve
  <2>4. QED  BY <2>1, <2>3 DEF Queue!PopFront, Queue!Set
<1>6. ASSUME NEW x \in Buffers, NEW len \in 0..MaxSize,
             EnsureWritableBytes(x, len) \/ MakeSpace(x, len)
      PROVE  UNCHANGED contents \/ MovesDown
  <2>1. len \in Nat /\ WellFormed(buffers[x]) /\ writableBytes(buffers[x]) \in Int
    BY CallsAssumption, WellFormedFacts DEF AllWellFormed, writableBytes
  <2>2. CASE MakeSpace(x, len) /\ kCheapPrepend < buffers[x].read_idx
    BY <2>2 DEF MovesDown
  <2>3. CASE MakeSpace(x, len) /\ ~(kCheapPrepend < buffers[x].read_idx)
    <3>1. Readable(makeSpace(buffers[x], len)) = Readable(buffers[x])
      BY <2>1, <2>3, MakeSpaceKeepsFront
    <3>2. QED  BY <1>2, <2>3, <3>1, SetContents DEF MakeSpace
  <2>4. CASE /\ EnsureWritableBytes(x, len)
             /\ kCheapPrepend < buffers[x].read_idx /\ len > writableBytes(buffers[x])
    BY <2>4 DEF MovesDown
  <2>5. CASE /\ EnsureWritableBytes(x, len)
             /\ ~(kCheapPrepend < buffers[x].read_idx /\ len > writableBytes(buffers[x]))
    <3>1. Readable(ensureWritableBytes(buffers[x], len)) = Readable(buffers[x])
      BY <2>1, <2>5, EnsureKeepsFront
    <3>2. QED  BY <1>2, <2>5, <3>1, SetContents DEF EnsureWritableBytes
  <2>6. QED  BY <1>6, <2>2, <2>3, <2>4, <2>5
<1>7. ASSUME NEW x \in Buffers, NEW len \in 0..MaxSize, Shrink(x, len)
      PROVE  UNCHANGED contents
  <2>1. len \in Nat /\ WellFormed(buffers[x])
    BY CallsAssumption DEF AllWellFormed
  <2>2. Readable(shrink(buffers[x], len)) = Readable(buffers[x])
    BY <2>1, ShrinkReadable
  <2>3. QED  BY <1>2, <1>7, <2>2, SetContents DEF Shrink
<1>8. ASSUME NEW x \in Buffers, NEW y \in Buffers, Swap(x, y)
      PROVE  Queue!Exchange(x, y)
  <2>1. contents' = [contents EXCEPT ![x] = contents[y], ![y] = contents[x]]
    BY <1>8 DEF Swap, contents, AllWellFormed
  <2>2. QED  BY <2>1 DEF Queue!Exchange
<1>9. QED  BY <1>3, <1>4, <1>5, <1>6, <1>7, <1>8 DEF Next, Queue!Next

\* Outwardly a buffer is a queue of bytes, but for the calls in which makeSpace
\* moves data down (buffer.cc:21-29).
THEOREM QueueButForMoves == Spec => QueueUnlessMoved
<1>1. Init => Queue!Init
  <2> SUFFICES ASSUME Init PROVE Queue!Init
    OBVIOUS
  <2>1. \A x \in Buffers : Readable(buffers[x]) = <<>>
    BY NewBufferEmpty DEF Init
  <2>2. QED  BY <2>1 DEF Queue!Init, contents
<1>2. AllWellFormed /\ [Next]_vars => [Queue!Next \/ MovesDown \/ UNCHANGED contents]_vars
  BY QueueSteps
<1>3. QED  BY <1>1, <1>2, WellFormedInvariant, PTL DEF Spec, QueueUnlessMoved

=============================================================================
