------------------------- MODULE BufferFunctionsProofs -------------------------
(***************************************************************************)
(* Proofs about BufferFunctions, for any bytes and any initial sizes: what *)
(* each function of the class does to the indices of a buffer and to the   *)
(* bytes that can be read from it.                                         *)
(***************************************************************************)
EXTENDS BufferFunctions, SequenceTheorems, TLAPS

WellFormed(b) == b \in Buf /\ InOrderIndices(b)

LEMMA RecordWellFormed ==
  ASSUME NEW mem \in Seq(Bytes), NEW r \in Nat, NEW w \in Nat,
         r <= w, w <= Len(mem), kCheapPrepend <= w,
         r = w => r = kCheapPrepend
  PROVE  WellFormed(Record(mem, r, w))
BY DEF Record, WellFormed, Buf, InOrderIndices

LEMMA RecordFields ==
  ASSUME NEW mem, NEW r, NEW w
  PROVE  /\ Record(mem, r, w).buffer_ = mem
         /\ Record(mem, r, w).read_idx = r
         /\ Record(mem, r, w).write_idx = w
BY DEF Record

LEMMA WellFormedFacts ==
  ASSUME NEW b, WellFormed(b)
  PROVE  /\ b.buffer_ \in Seq(Bytes)
         /\ Len(b.buffer_) \in Nat
         /\ b.read_idx \in Nat
         /\ b.write_idx \in Nat
         /\ b.read_idx <= b.write_idx
         /\ b.write_idx <= Len(b.buffer_)
         /\ kCheapPrepend <= b.write_idx
         /\ b.read_idx = b.write_idx => b.read_idx = kCheapPrepend
BY LenProperties DEF WellFormed, Buf, InOrderIndices

LEMMA ZerosProperties ==
  ASSUME NEW n \in Nat
  PROVE  Zeros(n) \in Seq(Bytes) /\ Len(Zeros(n)) = n
BY BufferAssumption DEF Zeros

\* Copying data over bytes of the vector changes neither its length nor the
\* type of its bytes.
LEMMA OverwriteProperties ==
  ASSUME NEW mem \in Seq(Bytes), NEW at \in Int, NEW data \in Seq(Bytes)
  PROVE  /\ Overwrite(mem, at, data) \in Seq(Bytes)
         /\ Len(Overwrite(mem, at, data)) = Len(mem)
<1>1. Len(mem) \in Nat /\ Len(data) \in Nat
  BY LenProperties
<1>2. ASSUME NEW i \in 1..Len(mem)
      PROVE  (IF i \in at + 1 .. at + Len(data) THEN data[i - at] ELSE mem[i]) \in Bytes
  <2>1. CASE i \in at + 1 .. at + Len(data)
    <3>1. i - at \in 1..Len(data)
      BY <1>1, <2>1
    <3>2. data[i - at] \in Bytes
      BY <3>1, LenProperties
    <3>3. QED  BY <2>1, <3>2
  <2>2. CASE i \notin at + 1 .. at + Len(data)
    BY <2>2, LenProperties
  <2>3. QED  BY <2>1, <2>2
<1>3. Overwrite(mem, at, data) \in [1..Len(mem) -> Bytes]
  BY <1>2 DEF Overwrite
<1>4. QED  BY <1>1, <1>3

LEMMA NewBufferWellFormed ==
  /\ WellFormed(NewBuffer)
  /\ NewBuffer.read_idx = kCheapPrepend
  /\ NewBuffer.write_idx = kCheapPrepend
<1>1. kCheapPrepend + kInitialSize \in Nat
  BY BufferAssumption
<1>2. QED
  BY <1>1, BufferAssumption, ZerosProperties, RecordWellFormed, RecordFields DEF NewBuffer

\* Any part of the bytes inside the vector is a byte sequence.
LEMMA PartProperties ==
  ASSUME NEW mem \in Seq(Bytes), NEW m \in Nat \ {0}, NEW n \in 0..Len(mem)
  PROVE  /\ SubSeq(mem, m, n) \in Seq(Bytes)
         /\ Len(SubSeq(mem, m, n)) = IF m <= n THEN n - m + 1 ELSE 0
<1>1. Len(mem) \in Nat
  BY LenProperties
<1>2. \A i \in m..n : mem[i] \in Bytes
  BY <1>1, LenProperties
<1>3. m \in Int /\ n \in Int
  BY <1>1
<1>4. QED  BY <1>2, <1>3, SubSeqProperties

\* The readable bytes are as many as the indices say.
LEMMA ReadableProperties ==
  ASSUME NEW b, WellFormed(b)
  PROVE  /\ Readable(b) \in Seq(Bytes)
         /\ Len(Readable(b)) = readableBytes(b)
         /\ readableBytes(b) \in Nat
<1>1. b.read_idx + 1 \in Nat \ {0} /\ b.write_idx \in 0..Len(b.buffer_)
  BY WellFormedFacts
<1>2. QED
  BY <1>1, WellFormedFacts, PartProperties DEF Readable, readableBytes

\* Growing gives the room that was asked for and leaves the indices alone.
LEMMA GrowForProperties ==
  ASSUME NEW b, WellFormed(b), NEW len \in Nat
  PROVE  /\ WellFormed(GrowFor(b, len))
         /\ writableBytes(GrowFor(b, len)) >= len
<1>1. CASE len > writableBytes(b)
  <2> DEFINE extra == (b.write_idx + len) - Len(b.buffer_)
             grown == b.buffer_ \o Zeros(extra)
  <2>1. extra \in Nat
    BY <1>1, WellFormedFacts DEF writableBytes
  <2>2. grown \in Seq(Bytes) /\ Len(grown) = Len(b.buffer_) + extra
    <3> HIDE DEF extra
    <3>1. Zeros(extra) \in Seq(Bytes) /\ Len(Zeros(extra)) = extra
      BY <2>1, ZerosProperties
    <3>2. b.buffer_ \in Seq(Bytes)
      BY WellFormedFacts
    <3>3. /\ b.buffer_ \o Zeros(extra) \in Seq(Bytes)
          /\ Len(b.buffer_ \o Zeros(extra)) = Len(b.buffer_) + Len(Zeros(extra))
      BY <3>1, <3>2, ConcatProperties
    <3>4. QED  BY <3>1, <3>3
  <2>3. GrowFor(b, len) = Record(grown, b.read_idx, b.write_idx)
    <3>1. GrowFor(b, len) = resize(b, b.write_idx + len)
      BY <1>1 DEF GrowFor
    <3>2. resize(b, b.write_idx + len) = Record(grown, b.read_idx, b.write_idx)
      BY DEF resize
    <3>3. QED  BY <3>1, <3>2
  <2> HIDE DEF grown
  <2>4. Len(grown) = b.write_idx + len
    BY <2>2, WellFormedFacts
  <2>5. WellFormed(Record(grown, b.read_idx, b.write_idx))
    BY <2>2, <2>4, WellFormedFacts, RecordWellFormed
  <2>6. QED
    BY <2>3, <2>4, <2>5, RecordFields, WellFormedFacts DEF writableBytes
<1>2. CASE ~(len > writableBytes(b))
  BY <1>2, WellFormedFacts DEF GrowFor, writableBytes
<1>3. QED  BY <1>1, <1>2

\* Moving the data down leaves write_idx_ where it was, so the indices stay in
\* order (and the bytes between the moved data and write_idx_ stay readable).
LEMMA MoveDownWellFormed ==
  ASSUME NEW b, WellFormed(b), kCheapPrepend < b.read_idx
  PROVE  WellFormed(MoveDown(b))
<1> DEFINE mem == Overwrite(b.buffer_, kCheapPrepend, Readable(b))
<1>1. mem \in Seq(Bytes) /\ Len(mem) = Len(b.buffer_)
  BY WellFormedFacts, BufferAssumption, ReadableProperties, OverwriteProperties
<1> HIDE DEF mem
<1>2. MoveDown(b) = Record(mem, kCheapPrepend, kCheapPrepend + (b.write_idx - kCheapPrepend))
  BY RecordFields DEF MoveDown, readableBytes, mem
<1>3. kCheapPrepend + (b.write_idx - kCheapPrepend) = b.write_idx
  BY WellFormedFacts, BufferAssumption
<1>4. QED
  BY <1>1, <1>2, <1>3, WellFormedFacts, BufferAssumption, RecordWellFormed

\* makeSpace and ensureWritableBytes keep a buffer well formed and make room.
LEMMA MakeSpaceProperties ==
  ASSUME NEW b, WellFormed(b), NEW len \in Nat
  PROVE  /\ WellFormed(makeSpace(b, len))
         /\ writableBytes(makeSpace(b, len)) >= len
BY MoveDownWellFormed, GrowForProperties DEF makeSpace

LEMMA EnsureProperties ==
  ASSUME NEW b, WellFormed(b), NEW len \in Nat
  PROVE  /\ WellFormed(ensureWritableBytes(b, len))
         /\ writableBytes(ensureWritableBytes(b, len)) >= len
<1>1. writableBytes(b) \in Int
  BY WellFormedFacts DEF writableBytes
<1>2. QED  BY <1>1, MakeSpaceProperties DEF ensureWritableBytes

LEMMA AppendKeepsWellFormed ==
  ASSUME NEW b, WellFormed(b), NEW data \in Seq(Bytes)
  PROVE  WellFormed(append(b, data))
<1> DEFINE c == ensureWritableBytes(b, Len(data))
           mem == Overwrite(c.buffer_, c.write_idx, data)
<1>1. Len(data) \in Nat
  BY LenProperties
<1>2. WellFormed(c) /\ writableBytes(c) >= Len(data)
  BY <1>1, EnsureProperties
<1>3. append(b, data) = Record(mem, c.read_idx, c.write_idx + Len(data))
  BY DEF append
<1> HIDE DEF c
<1>4. mem \in Seq(Bytes) /\ Len(mem) = Len(c.buffer_)
  BY <1>2, WellFormedFacts, OverwriteProperties
<1> HIDE DEF mem
<1>5. QED
  BY <1>1, <1>2, <1>3, <1>4, WellFormedFacts, BufferAssumption, RecordWellFormed DEF writableBytes

LEMMA RetrieveKeepsWellFormed ==
  ASSUME NEW b, WellFormed(b), NEW len \in 0..readableBytes(b)
  PROVE  WellFormed(retrieve(b, len))
<1>1. CASE len < readableBytes(b)
  BY <1>1, WellFormedFacts, RecordWellFormed DEF retrieve, readableBytes
\* The indices go home, where the vector still reaches: write_idx_ was never
\* below kCheapPrepend.
<1>2. CASE ~(len < readableBytes(b))
  BY <1>2, WellFormedFacts, BufferAssumption, RecordWellFormed DEF retrieve, retrieveAll
<1>3. QED  BY <1>1, <1>2

LEMMA PrependKeepsWellFormed ==
  ASSUME NEW b, WellFormed(b), NEW data \in Seq(Bytes), Len(data) <= prependableBytes(b)
  PROVE  WellFormed(prepend(b, data))
<1> DEFINE to == b.read_idx - Len(data)
           mem == Overwrite(b.buffer_, to, data)
<1>1. to \in Nat /\ to <= b.read_idx
  BY WellFormedFacts, LenProperties DEF prependableBytes
<1>2. Len(data) = 0 => to = b.read_idx
  BY WellFormedFacts
<1>3. Len(data) \in Nat /\ to = b.read_idx - Len(data)
  BY LenProperties
<1>4. mem \in Seq(Bytes) /\ Len(mem) = Len(b.buffer_)
  BY <1>1, WellFormedFacts, OverwriteProperties
<1>5. prepend(b, data) = Record(mem, to, b.write_idx)
  BY DEF prepend
<1> HIDE DEF to, mem
<1>6. QED
  BY <1>1, <1>2, <1>3, <1>4, <1>5, WellFormedFacts, RecordWellFormed

LEMMA ShrinkKeepsWellFormed ==
  ASSUME NEW b, WellFormed(b), NEW reserve \in Nat
  PROVE  WellFormed(shrink(b, reserve))
<1>1. readableBytes(b) + reserve \in Nat /\ Readable(b) \in Seq(Bytes)
  BY ReadableProperties
<1>2. WellFormed(ensureWritableBytes(NewBuffer, readableBytes(b) + reserve))
  BY <1>1, NewBufferWellFormed, EnsureProperties
<1>3. QED  BY <1>1, <1>2, AppendKeepsWellFormed DEF shrink

LEMMA ReadFdKeepsWellFormed ==
  ASSUME NEW b, WellFormed(b), NEW data \in Seq(Bytes)
  PROVE  WellFormed(readFd(b, data))
<1> DEFINE writable == writableBytes(b)
           Fill(part) == Overwrite(b.buffer_, b.write_idx, part)
<1>1. Len(data) \in Nat /\ writable \in Nat
  BY WellFormedFacts, LenProperties DEF writableBytes
<1>2. CASE Len(data) <= writable
  <2>1. Fill(data) \in Seq(Bytes) /\ Len(Fill(data)) = Len(b.buffer_)
    BY WellFormedFacts, OverwriteProperties
  <2>2. readFd(b, data) = Record(Fill(data), b.read_idx, b.write_idx + Len(data))
    BY <1>2 DEF readFd
  <2> HIDE DEF Fill
  <2>3. QED
    BY <1>1, <1>2, <2>1, <2>2, WellFormedFacts, BufferAssumption, RecordWellFormed
    DEF writableBytes
<1>3. CASE ~(Len(data) <= writable)
  <2> DEFINE head == SubSeq(data, 1, writable)
             rest == SubSeq(data, writable + 1, Len(data))
             full == Record(Fill(head), b.read_idx, Len(b.buffer_))
  <2>1. head \in Seq(Bytes) /\ rest \in Seq(Bytes)
    <3>1. 1 \in Nat \ {0} /\ writable + 1 \in Nat \ {0} /\ writable \in 0..Len(data)
          /\ Len(data) \in 0..Len(data)
      BY <1>1, <1>3
    <3> HIDE DEF writable
    <3>2. QED  BY <3>1, PartProperties
  <2>2. readFd(b, data) = append(full, rest)
    BY <1>3 DEF readFd
  <2>3. Fill(head) \in Seq(Bytes) /\ Len(Fill(head)) = Len(b.buffer_)
    <3> HIDE DEF head
    <3>1. QED  BY <2>1, WellFormedFacts, OverwriteProperties
  <2> HIDE DEF head, rest, Fill
  <2>4. WellFormed(full)
    BY <2>3, WellFormedFacts, BufferAssumption, RecordWellFormed
  <2> HIDE DEF full
  <2>5. QED  BY <2>1, <2>2, <2>4, AppendKeepsWellFormed
<1>4. QED  BY <1>2, <1>3

-----------------------------------------------------------------------------
(* The bytes that can be read                                              *)

\* The bytes of a part of a sequence.
LEMMA PartElements ==
  ASSUME NEW mem \in Seq(Bytes), NEW m \in Nat \ {0}, NEW n \in 0..Len(mem)
  PROVE  \A i \in 1..n - m + 1 : SubSeq(mem, m, n)[i] = mem[m + i - 1]
<1>1. \A i \in m..n : mem[i] \in Bytes
  BY LenProperties
<1>2. m \in Int /\ n \in Int
  BY LenProperties
<1>3. QED  BY <1>1, <1>2, SubSeqProperties

\* What can be read are the bytes that lie there.
LEMMA ReadableIs ==
  ASSUME NEW b, WellFormed(b), NEW s \in Seq(Bytes), Len(s) = readableBytes(b)
  PROVE  Readable(b) = s <=> \A i \in 1..Len(s) : b.buffer_[b.read_idx + i] = s[i]
<1>1. /\ Readable(b) \in Seq(Bytes)
      /\ Len(Readable(b)) = Len(s)
      /\ Len(s) \in Nat
  BY ReadableProperties
<1>2. \A i \in 1..Len(s) : Readable(b)[i] = b.buffer_[b.read_idx + i]
  <2>1. b.read_idx + 1 \in Nat \ {0} /\ b.write_idx \in 0..Len(b.buffer_)
    BY WellFormedFacts
  <2>2. \A i \in 1..b.write_idx - (b.read_idx + 1) + 1 :
          Readable(b)[i] = b.buffer_[b.read_idx + 1 + i - 1]
    BY <2>1, WellFormedFacts, PartElements DEF Readable
  <2>3. \A i \in 1..Len(s) : /\ i \in 1..b.write_idx - (b.read_idx + 1) + 1
                             /\ b.read_idx + 1 + i - 1 = b.read_idx + i
    BY <1>1, WellFormedFacts DEF readableBytes
  <2>4. QED  BY <2>2, <2>3
<1>3. QED  BY <1>1, <1>2, SeqEqual

\* The bytes that were copied stand where they were copied to, the others
\* where they were.
LEMMA OverwriteElements ==
  ASSUME NEW mem \in Seq(Bytes), NEW at \in Int, NEW data \in Seq(Bytes)
  PROVE  LET after == Overwrite(mem, at, data) IN
         /\ \A i \in 1..Len(data) : at + i \in 1..Len(mem) => after[at + i] = data[i]
         /\ \A i \in 1..Len(mem) : i \notin at + 1 .. at + Len(data) => after[i] = mem[i]
<1> DEFINE after == Overwrite(mem, at, data)
<1>1. \A i \in 1..Len(mem) :
        after[i] = IF i \in at + 1 .. at + Len(data) THEN data[i - at] ELSE mem[i]
  BY DEF Overwrite
<1> HIDE DEF after
<1>2. ASSUME NEW i \in 1..Len(data), at + i \in 1..Len(mem) PROVE after[at + i] = data[i]
  <2>1. at + i \in at + 1 .. at + Len(data) /\ (at + i) - at = i
    BY LenProperties
  <2> DEFINE k == at + i
  <2>2. k \in 1..Len(mem) /\ k \in at + 1 .. at + Len(data) /\ k - at = i
    BY <1>2, <2>1
  <2> HIDE DEF k
  <2>3. after[k] = data[k - at]
    BY <1>1, <2>2
  <2>4. QED  BY <2>2, <2>3 DEF k
<1>3. ASSUME NEW i \in 1..Len(mem), i \notin at + 1 .. at + Len(data) PROVE after[i] = mem[i]
  BY <1>1, <1>3
<1>4. QED  BY <1>2, <1>3 DEF after

\* Two sequences, one after the other, begin as the first one begins, and end
\* as the second one.
LEMMA BeginsAndEnds ==
  ASSUME NEW s \in Seq(Bytes), NEW t \in Seq(Bytes), NEW front \in Seq(Bytes),
         Len(front) <= Len(s), Begins(s, front)
  PROVE  Begins(s \o t, front) /\ Ends(s \o t, t)
<1>1. /\ Len(s) \in Nat /\ Len(t) \in Nat /\ Len(front) \in Nat
      /\ s \o t \in Seq(Bytes)
      /\ Len(s \o t) = Len(s) + Len(t)
      /\ \A i \in 1..Len(s) + Len(t) :
           (s \o t)[i] = IF i <= Len(s) THEN s[i] ELSE t[i - Len(s)]
  BY LenProperties, ConcatProperties
<1>2. Begins(s \o t, front)
  <2>1. /\ SubSeq(s \o t, 1, Len(front)) \in Seq(Bytes)
        /\ Len(SubSeq(s \o t, 1, Len(front))) = Len(front)
    BY <1>1, PartProperties
  <2>2. ASSUME NEW i \in 1..Len(front) PROVE SubSeq(s \o t, 1, Len(front))[i] = front[i]
    <3>1. i \in 1..Len(front) - 1 + 1 /\ 1 + i - 1 = i /\ i <= Len(s)
      BY <1>1
    <3>2. SubSeq(s \o t, 1, Len(front))[i] = (s \o t)[i]
      BY <1>1, <3>1, PartElements
    <3>3. SubSeq(s, 1, Len(front))[i] = s[i]
      BY <1>1, <3>1, PartElements
    <3>4. (s \o t)[i] = s[i]
      BY <1>1, <3>1
    <3>5. QED  BY <3>2, <3>3, <3>4 DEF Begins
  <2>3. QED  BY <2>1, <2>2, SeqEqual DEF Begins
<1>3. Ends(s \o t, t)
  <2> DEFINE from == Len(s \o t) - Len(t) + 1
             part == SubSeq(s \o t, from, Len(s \o t))
  <2>1. from = Len(s) + 1 /\ from \in Nat \ {0} /\ Len(s \o t) \in 0..Len(s \o t)
    BY <1>1
  <2>2. part \in Seq(Bytes) /\ Len(part) = Len(t)
    <3> HIDE DEF from
    <3>1. /\ part \in Seq(Bytes)
          /\ Len(part) = IF from <= Len(s \o t) THEN Len(s \o t) - from + 1 ELSE 0
      BY <1>1, <2>1, PartProperties
    <3>2. QED  BY <1>1, <2>1, <3>1
  <2>3. ASSUME NEW i \in 1..Len(t) PROVE part[i] = t[i]
    <3>1. /\ i \in 1..Len(s \o t) - from + 1
          /\ from + i - 1 = Len(s) + i
          /\ Len(s) + i \in 1..Len(s) + Len(t) /\ ~(Len(s) + i <= Len(s)) /\ Len(s) + i - Len(s) = i
      BY <1>1, <2>1
    <3>2. part[i] = (s \o t)[from + i - 1]
      <4> HIDE DEF from
      <4>1. QED  BY <1>1, <2>1, <3>1, PartElements
    <3>3. QED  BY <1>1, <3>1, <3>2
  <2>4. part = t
    <3> HIDE DEF part
    <3>1. QED  BY <2>2, <2>3, SeqEqual
  <2>5. QED  BY <2>4 DEF Ends
<1>4. QED  BY <1>2, <1>3

\* A sequence begins as itself.
LEMMA BeginsItself ==
  ASSUME NEW s \in Seq(Bytes)
  PROVE  Begins(s, s)
BY SubSeqFull DEF Begins

\* Growing adds bytes behind those that can be read.
LEMMA GrowKeepsReadable ==
  ASSUME NEW b, WellFormed(b), NEW len \in Nat
  PROVE  /\ Readable(GrowFor(b, len)) = Readable(b)
         /\ GrowFor(b, len).read_idx = b.read_idx
<1> DEFINE g == GrowFor(b, len)
           extra == (b.write_idx + len) - Len(b.buffer_)
<1>1. CASE len > writableBytes(b)
  <2>1. extra \in Nat
    BY <1>1, WellFormedFacts DEF writableBytes
  <2>2. g = Record(b.buffer_ \o Zeros(extra), b.read_idx, b.write_idx)
    BY <1>1 DEF GrowFor, resize
  <2>3. WellFormed(g)
    BY GrowForProperties
  <2> HIDE DEF g, extra
  <2>4. /\ g.buffer_ = b.buffer_ \o Zeros(extra)
        /\ g.read_idx = b.read_idx /\ g.write_idx = b.write_idx
    BY <2>2 DEF Record
  <2>5. Zeros(extra) \in Seq(Bytes) /\ Len(Zeros(extra)) = extra
    BY <2>1, ZerosProperties
  <2>6. \A i \in 1..Len(b.buffer_) : g.buffer_[i] = b.buffer_[i]
    BY <2>4, <2>5, WellFormedFacts, ConcatProperties
  <2>7. /\ Readable(b) \in Seq(Bytes)
        /\ Len(Readable(b)) = readableBytes(b)
        /\ readableBytes(b) = readableBytes(g)
        /\ readableBytes(b) \in Nat
    BY <2>4, ReadableProperties DEF readableBytes
  <2>8. \A i \in 1..Len(Readable(b)) : b.buffer_[b.read_idx + i] = Readable(b)[i]
    BY <2>7, ReadableIs
  <2>9. \A i \in 1..Len(Readable(b)) : b.read_idx + i \in 1..Len(b.buffer_)
    BY <2>7, WellFormedFacts DEF readableBytes
  <2>10. \A i \in 1..Len(Readable(b)) : g.buffer_[g.read_idx + i] = Readable(b)[i]
    BY <2>4, <2>6, <2>8, <2>9
  <2>11. Readable(g) = Readable(b)
    BY <2>3, <2>7, <2>10, ReadableIs
  <2>12. QED  BY <2>4, <2>11 DEF g
<1>2. CASE ~(len > writableBytes(b))
  BY <1>2 DEF GrowFor
<1>3. QED  BY <1>1, <1>2

\* The move down keeps the bytes that could be read in front; behind them more
\* can be read than before.
LEMMA MoveDownKeepsFront ==
  ASSUME NEW b, WellFormed(b), kCheapPrepend < b.read_idx
  PROVE  /\ readableBytes(MoveDown(b)) >= readableBytes(b)
         /\ Begins(Readable(MoveDown(b)), Readable(b))
<1> DEFINE c == MoveDown(b)
           old == Readable(b)
<1>1. WellFormed(c)
  BY MoveDownWellFormed
<1>2. /\ c.buffer_ = Overwrite(b.buffer_, kCheapPrepend, old)
      /\ c.read_idx = kCheapPrepend
      /\ c.write_idx = kCheapPrepend + (b.write_idx - kCheapPrepend)
  BY RecordFields DEF MoveDown, readableBytes
<1> HIDE DEF c
<1>3. /\ old \in Seq(Bytes)
      /\ Len(old) = readableBytes(b)
      /\ Len(old) \in Nat
  BY ReadableProperties
<1>4. /\ readableBytes(c) = b.write_idx - kCheapPrepend
      /\ readableBytes(c) >= readableBytes(b)
      /\ readableBytes(c) \in Nat
  BY <1>2, WellFormedFacts, BufferAssumption DEF readableBytes
<1>5. Readable(c) \in Seq(Bytes) /\ Len(Readable(c)) = readableBytes(c)
  BY <1>1, ReadableProperties
<1> HIDE DEF old
<1>6. ASSUME NEW i \in 1..Len(old) PROVE c.buffer_[c.read_idx + i] = old[i]
  <2>1. kCheapPrepend + i \in 1..Len(b.buffer_)
    BY <1>3, WellFormedFacts, BufferAssumption DEF readableBytes
  <2>2. c.buffer_[kCheapPrepend + i] = old[i]
    BY <1>2, <1>3, <2>1, WellFormedFacts, BufferAssumption, OverwriteElements
  <2>3. QED  BY <1>2, <2>2
<1>7. \A i \in 1..Len(old) : Readable(c)[i] = old[i]
  <2>1. \A i \in 1..Len(Readable(c)) : c.buffer_[c.read_idx + i] = Readable(c)[i]
    BY <1>1, <1>5, ReadableIs
  <2>2. \A i \in 1..Len(old) : i \in 1..Len(Readable(c))
    BY <1>3, <1>4, <1>5
  <2>3. QED  BY <1>6, <2>1, <2>2
<1>8. Begins(Readable(c), old)
  <2>1. Len(old) \in 0..Len(Readable(c))
    BY <1>3, <1>4, <1>5
  <2>2. /\ SubSeq(Readable(c), 1, Len(old)) \in Seq(Bytes)
        /\ Len(SubSeq(Readable(c), 1, Len(old))) = Len(old)
    BY <1>3, <1>5, <2>1, PartProperties
  <2>3. \A i \in 1..Len(old) : SubSeq(Readable(c), 1, Len(old))[i] = old[i]
    <3>1. \A i \in 1..Len(old) : i \in 1..Len(old) - 1 + 1 /\ 1 + i - 1 = i
      BY <1>3
    <3>2. QED  BY <1>3, <1>5, <1>7, <2>1, <3>1, PartElements
  <2>4. QED  BY <1>3, <2>2, <2>3, SeqEqual DEF Begins
<1>9. QED  BY <1>4, <1>8 DEF c, old

\* makeSpace keeps the bytes that could be read in front, and when it moves
\* nothing it keeps them all.
LEMMA MakeSpaceKeepsFront ==
  ASSUME NEW b, WellFormed(b), NEW len \in Nat
  PROVE  /\ Begins(Readable(makeSpace(b, len)), Readable(b))
         /\ Len(Readable(makeSpace(b, len))) >= Len(Readable(b))
         /\ ~(kCheapPrepend < b.read_idx) => Readable(makeSpace(b, len)) = Readable(b)
<1>1. CASE kCheapPrepend < b.read_idx
  <2>1. WellFormed(MoveDown(b)) /\ makeSpace(b, len) = GrowFor(MoveDown(b), len)
    BY <1>1, MoveDownWellFormed DEF makeSpace
  <2>2. Readable(makeSpace(b, len)) = Readable(MoveDown(b))
    BY <2>1, GrowKeepsReadable
  <2>3. /\ Len(Readable(MoveDown(b))) = readableBytes(MoveDown(b))
        /\ Len(Readable(b)) = readableBytes(b)
    BY <2>1, ReadableProperties
  <2>4. QED  BY <1>1, <2>2, <2>3, MoveDownKeepsFront
<1>2. CASE ~(kCheapPrepend < b.read_idx)
  <2>1. Readable(makeSpace(b, len)) = Readable(b)
    BY <1>2, GrowKeepsReadable DEF makeSpace
  <2>2. Readable(b) \in Seq(Bytes) /\ Len(Readable(b)) \in Nat
    BY ReadableProperties
  <2>3. QED  BY <2>1, <2>2, BeginsItself
<1>3. QED  BY <1>1, <1>2

\* So does ensureWritableBytes, which moves data only for want of room.
LEMMA EnsureKeepsFront ==
  ASSUME NEW b, WellFormed(b), NEW len \in Nat
  PROVE  /\ Begins(Readable(ensureWritableBytes(b, len)), Readable(b))
         /\ Len(Readable(ensureWritableBytes(b, len))) >= Len(Readable(b))
         /\ ~(kCheapPrepend < b.read_idx /\ len > writableBytes(b)) =>
              Readable(ensureWritableBytes(b, len)) = Readable(b)
<1>1. writableBytes(b) \in Int
  BY WellFormedFacts DEF writableBytes
<1>2. CASE writableBytes(b) < len
  BY <1>1, <1>2, MakeSpaceKeepsFront DEF ensureWritableBytes
<1>3. CASE ~(writableBytes(b) < len)
  <2>1. Readable(b) \in Seq(Bytes) /\ Len(Readable(b)) \in Nat
    BY ReadableProperties
  <2>2. QED  BY <1>3, <2>1, BeginsItself DEF ensureWritableBytes
<1>4. QED  BY <1>2, <1>3

\* Bytes written at write_idx_, where there is room for them, follow those
\* that can be read.
LEMMA FillReadable ==
  ASSUME NEW b, WellFormed(b), NEW data \in Seq(Bytes), Len(data) <= writableBytes(b)
  PROVE  LET c == Record(Overwrite(b.buffer_, b.write_idx, data), b.read_idx,
                         b.write_idx + Len(data))
         IN WellFormed(c) /\ Readable(c) = Readable(b) \o data
<1> DEFINE mem == Overwrite(b.buffer_, b.write_idx, data)
           c == Record(mem, b.read_idx, b.write_idx + Len(data))
           old == Readable(b)
<1>1. /\ Len(data) \in Nat
      /\ mem \in Seq(Bytes) /\ Len(mem) = Len(b.buffer_)
      /\ \A i \in 1..Len(data) :
           b.write_idx + i \in 1..Len(b.buffer_) => mem[b.write_idx + i] = data[i]
      /\ \A i \in 1..Len(b.buffer_) :
           i \notin b.write_idx + 1 .. b.write_idx + Len(data) => mem[i] = b.buffer_[i]
  BY LenProperties, WellFormedFacts, OverwriteProperties, OverwriteElements
<1> HIDE DEF mem
<1>2. WellFormed(c)
  <2>1. /\ b.read_idx \in Nat /\ b.write_idx + Len(data) \in Nat
        /\ b.read_idx <= b.write_idx + Len(data)
        /\ b.write_idx + Len(data) <= Len(b.buffer_)
        /\ kCheapPrepend <= b.write_idx + Len(data)
        /\ b.read_idx = b.write_idx + Len(data) => b.read_idx = kCheapPrepend
    BY <1>1, WellFormedFacts, BufferAssumption DEF writableBytes
  <2>2. QED  BY <1>1, <2>1, RecordWellFormed
<1>3. /\ c.buffer_ = mem /\ c.read_idx = b.read_idx
      /\ c.write_idx = b.write_idx + Len(data)
  BY RecordFields
<1> HIDE DEF c
<1>4. /\ old \in Seq(Bytes)
      /\ Len(old) = readableBytes(b)
      /\ Len(old) \in Nat
      /\ \A i \in 1..Len(old) : b.buffer_[b.read_idx + i] = old[i]
  BY ReadableProperties, ReadableIs
<1>5. /\ b.read_idx + Len(old) = b.write_idx
      /\ b.write_idx + Len(data) <= Len(b.buffer_)
      /\ b.read_idx \in Nat /\ b.write_idx \in Nat
      /\ readableBytes(c) = Len(old) + Len(data)
  BY <1>1, <1>3, <1>4, WellFormedFacts DEF readableBytes, writableBytes
<1> HIDE DEF old
<1>6. /\ old \o data \in Seq(Bytes)
      /\ Len(old \o data) = Len(old) + Len(data)
      /\ \A i \in 1..Len(old) + Len(data) :
           (old \o data)[i] = IF i <= Len(old) THEN old[i] ELSE data[i - Len(old)]
  BY <1>4, ConcatProperties
<1>7. ASSUME NEW i \in 1..Len(old) + Len(data)
      PROVE  c.buffer_[c.read_idx + i] = (old \o data)[i]
  <2>1. b.read_idx + i \in 1..Len(b.buffer_)
    BY <1>1, <1>4, <1>5, WellFormedFacts
  <2>2. CASE i <= Len(old)
    <3>1. b.read_idx + i \notin b.write_idx + 1 .. b.write_idx + Len(data) /\ i \in 1..Len(old)
      BY <1>1, <1>4, <1>5, <2>2
    <3>2. QED  BY <1>1, <1>3, <1>4, <1>6, <2>1, <2>2, <3>1
  <2>3. CASE ~(i <= Len(old))
    <3>1. i - Len(old) \in 1..Len(data) /\ b.read_idx + i = b.write_idx + (i - Len(old))
      BY <1>1, <1>4, <1>5, <2>3
    <3> DEFINE k == i - Len(old)
    <3>2. (old \o data)[i] = data[k]
      BY <1>6, <2>3
    <3>3. k \in 1..Len(data) /\ b.read_idx + i = b.write_idx + k
      BY <3>1
    <3> HIDE DEF k
    <3>4. mem[b.write_idx + k] = data[k]
      BY <1>1, <2>1, <3>3
    <3>5. QED  BY <1>3, <3>2, <3>3, <3>4
  <2>4. QED  BY <2>2, <2>3
<1>8. Readable(c) = old \o data
  <2> DEFINE all == old \o data
  <2>1. all \in Seq(Bytes) /\ Len(all) = readableBytes(c)
    BY <1>5, <1>6
  <2>2. \A i \in 1..Len(all) : c.buffer_[c.read_idx + i] = all[i]
    BY <1>6, <1>7
  <2> HIDE DEF all
  <2>3. Readable(c) = all
    BY <1>2, <2>1, <2>2, ReadableIs
  <2>4. QED  BY <2>3 DEF all
<1>9. QED  BY <1>2, <1>8 DEF c, old, mem

\* append adds its bytes behind what ensureWritableBytes has left.
LEMMA AppendReadable ==
  ASSUME NEW b, WellFormed(b), NEW data \in Seq(Bytes)
  PROVE  Readable(append(b, data)) = Readable(ensureWritableBytes(b, Len(data))) \o data
<1>1. Len(data) \in Nat
  BY LenProperties
<1> DEFINE c == ensureWritableBytes(b, Len(data))
<1>2. WellFormed(c) /\ Len(data) <= writableBytes(c)
  <2>1. WellFormed(c) /\ writableBytes(c) >= Len(data)
    BY <1>1, EnsureProperties
  <2> HIDE DEF c
  <2>2. writableBytes(c) \in Int
    BY <2>1, WellFormedFacts DEF writableBytes
  <2>3. QED  BY <1>1, <2>1, <2>2
<1>3. append(b, data) = Record(Overwrite(c.buffer_, c.write_idx, data), c.read_idx, c.write_idx + Len(data))
  BY DEF append
<1> HIDE DEF c
<1>4. Readable(append(b, data)) = Readable(c) \o data
  BY <1>2, <1>3, FillReadable
<1>5. QED  BY <1>4 DEF c

\* append keeps the old bytes in front and its own last, and when it moves no
\* data nothing is between them.
LEMMA AppendInOrder ==
  ASSUME NEW b, WellFormed(b), NEW data \in Seq(Bytes)
  PROVE  LET new == Readable(append(b, data)) IN
         /\ new \in Seq(Bytes)
         /\ Len(new) >= Len(Readable(b)) + Len(data)
         /\ Begins(new, Readable(b)) /\ Ends(new, data)
         /\ ~(kCheapPrepend < b.read_idx /\ Len(data) > writableBytes(b)) =>
              new = Readable(b) \o data
<1> DEFINE c == ensureWritableBytes(b, Len(data))
<1>1. Len(data) \in Nat
  BY LenProperties
<1>2. /\ WellFormed(c)
      /\ Begins(Readable(c), Readable(b))
      /\ Len(Readable(c)) >= Len(Readable(b))
      /\ ~(kCheapPrepend < b.read_idx /\ Len(data) > writableBytes(b)) => Readable(c) = Readable(b)
  BY <1>1, EnsureProperties, EnsureKeepsFront
<1>3. Readable(append(b, data)) = Readable(c) \o data
  BY AppendReadable
<1> HIDE DEF c
<1>4. /\ Readable(c) \in Seq(Bytes) /\ Readable(b) \in Seq(Bytes)
      /\ Len(Readable(c)) \in Nat /\ Len(Readable(b)) \in Nat
  BY <1>2, ReadableProperties, LenProperties
<1>5. /\ Readable(c) \o data \in Seq(Bytes)
      /\ Len(Readable(c) \o data) = Len(Readable(c)) + Len(data)
  BY <1>4, ConcatProperties
<1>6. Begins(Readable(c) \o data, Readable(b)) /\ Ends(Readable(c) \o data, data)
  BY <1>2, <1>4, BeginsAndEnds
<1> DEFINE new == Readable(append(b, data))
<1>7. /\ new \in Seq(Bytes)
      /\ Len(new) >= Len(Readable(b)) + Len(data)
  BY <1>1, <1>2, <1>3, <1>4, <1>5
<1>8. Begins(new, Readable(b)) /\ Ends(new, data)
  BY <1>3, <1>6
<1>9. ~(kCheapPrepend < b.read_idx /\ Len(data) > writableBytes(b)) => new = Readable(b) \o data
  BY <1>2, <1>3
<1>10. QED  BY <1>7, <1>8, <1>9

\* readFd keeps the old bytes in front, then what fitted into the buffer, and
\* at the end what came by way of the stack; when append moves no data nothing
\* is between them.
LEMMA ReadFdInOrder ==
  ASSUME NEW b, WellFormed(b), NEW data \in Seq(Bytes)
  PROVE  LET new == Readable(readFd(b, data)) IN
         /\ Len(new) >= Len(Readable(b)) + Len(data)
         /\ \E n \in 0..Len(data) :
              /\ Begins(new, Readable(b) \o SubSeq(data, 1, n))
              /\ Ends(new, SubSeq(data, n + 1, Len(data)))
         /\ ~(kCheapPrepend < b.read_idx /\ Len(data) > writableBytes(b)) =>
              new = Readable(b) \o data
<1> DEFINE old == Readable(b)
           new == Readable(readFd(b, data))
           writable == writableBytes(b)
           Fill(part) == Overwrite(b.buffer_, b.write_idx, part)
<1>1. /\ Len(data) \in Nat /\ writable \in Nat
      /\ old \in Seq(Bytes) /\ Len(old) \in Nat
  BY WellFormedFacts, LenProperties, ReadableProperties DEF writableBytes
<1>2. CASE Len(data) <= writable
  <2>1. readFd(b, data) = Record(Fill(data), b.read_idx, b.write_idx + Len(data))
    BY <1>2 DEF readFd
  <2>2. new = old \o data
    BY <1>2, <2>1, FillReadable
  <2> HIDE DEF old, new, writable, Fill
  <2>3. new \in Seq(Bytes) /\ Len(new) = Len(old) + Len(data)
    BY <1>1, <2>2, ConcatProperties
  <2>4. SubSeq(data, 1, Len(data)) = data
    BY SubSeqFull
  <2>5. SubSeq(data, Len(data) + 1, Len(data)) = <<>>
    BY <1>1, SubSeqEmpty
  <2>6. Begins(new, old \o SubSeq(data, 1, Len(data)))
    BY <2>2, <2>3, <2>4, BeginsItself
  <2>7. Ends(new, <<>>)
    <3>1. Len(new) - Len(<<>>) + 1 \in Int /\ Len(new) \in Int
          /\ Len(new) < Len(new) - Len(<<>>) + 1
      BY <1>1, <2>3
    <3>2. QED  BY <3>1, SubSeqEmpty DEF Ends
  <2>8. Len(data) \in 0..Len(data) /\ Len(new) >= Len(old) + Len(data)
    BY <1>1, <2>3
  <2>9. QED  BY <2>2, <2>5, <2>6, <2>7, <2>8 DEF old, new
<1>3. CASE ~(Len(data) <= writable)
  <2> DEFINE head == SubSeq(data, 1, writable)
             rest == SubSeq(data, writable + 1, Len(data))
             full == Record(Fill(head), b.read_idx, b.write_idx + Len(head))
  <2>1. /\ head \in Seq(Bytes) /\ rest \in Seq(Bytes)
        /\ Len(head) = writable /\ Len(rest) = Len(data) - writable
    <3>1. /\ 1 \in Nat \ {0} /\ writable + 1 \in Nat \ {0} /\ writable \in 0..Len(data)
          /\ Len(data) \in 0..Len(data)
      BY <1>1, <1>3
    <3> HIDE DEF writable
    <3>2. /\ head \in Seq(Bytes)
          /\ Len(head) = IF 1 <= writable THEN writable - 1 + 1 ELSE 0
          /\ rest \in Seq(Bytes)
          /\ Len(rest) = IF writable + 1 <= Len(data) THEN Len(data) - (writable + 1) + 1 ELSE 0
      BY <3>1, PartProperties
    <3>3. QED  BY <1>1, <1>3, <3>2
  <2>2. b.write_idx + Len(head) = Len(b.buffer_)
    BY <2>1, WellFormedFacts DEF writableBytes
  <2>3. readFd(b, data) = append(full, rest)
    BY <1>3, <2>2 DEF readFd
  <2>4. data = head \o rest
    <3>1. /\ 1 \in 1..Len(data) + 1 /\ writable \in 1 - 1 .. Len(data)
          /\ Len(data) \in writable..Len(data)
      BY <1>1, <1>3
    <3> HIDE DEF writable
    <3>2. head \o rest = SubSeq(data, 1, Len(data))
      BY <3>1, ConcatAdjacentSubSeq
    <3>3. QED  BY <3>2, SubSeqFull
  <2>5. Len(head) <= writableBytes(b)
    BY <1>1, <2>1
  <2> HIDE DEF head, rest, writable
  <2>6. WellFormed(full) /\ Readable(full) = old \o head
    BY <2>1, <2>5, FillReadable
  <2>7. full.read_idx = b.read_idx
    BY RecordFields
  <2> HIDE DEF full, old, new, Fill
  <2>8. /\ new \in Seq(Bytes)
        /\ Len(new) >= Len(old \o head) + Len(rest)
        /\ Begins(new, old \o head) /\ Ends(new, rest)
        /\ ~(kCheapPrepend < full.read_idx /\ Len(rest) > writableBytes(full)) =>
             new = (old \o head) \o rest
    BY <2>1, <2>3, <2>6, AppendInOrder DEF new
  <2>9. Len(new) >= Len(old) + Len(data)
    <3>1. Len(old \o head) = Len(old) + Len(head)
      BY <1>1, <2>1, ConcatProperties
    <3>2. Len(new) \in Nat
      BY <2>8, LenProperties
    <3>3. QED  BY <1>1, <2>1, <2>8, <3>1, <3>2
  <2>10. ~(kCheapPrepend < b.read_idx) => new = old \o data
    <3>1. (old \o head) \o rest = old \o data
      BY <1>1, <2>1, <2>4, ConcatAssociative
    <3>2. QED  BY <2>7, <2>8, <3>1
  <2>11. writable \in 0..Len(data) /\ Len(data) > writable
    BY <1>1, <1>3
  <2>12. \E n \in 0..Len(data) :
           Begins(new, old \o SubSeq(data, 1, n)) /\ Ends(new, SubSeq(data, n + 1, Len(data)))
    BY <2>8, <2>11 DEF head, rest
  <2>13. QED  BY <2>9, <2>10, <2>11, <2>12 DEF old, new, writable
<1>4. QED  BY <1>2, <1>3

\* A header stands before the bytes that could be read.
LEMMA PrependReadable ==
  ASSUME NEW b, WellFormed(b), NEW data \in Seq(Bytes), Len(data) <= prependableBytes(b)
  PROVE  Readable(prepend(b, data)) = data \o Readable(b)
<1> DEFINE to == b.read_idx - Len(data)
           mem == Overwrite(b.buffer_, to, data)
           c == prepend(b, data)
           old == Readable(b)
           all == data \o old
<1>1. /\ Len(data) \in Nat /\ to \in Nat
      /\ to + Len(data) = b.read_idx
  BY WellFormedFacts, LenProperties DEF prependableBytes
<1>2. /\ Len(mem) = Len(b.buffer_)
      /\ \A i \in 1..Len(data) : to + i \in 1..Len(b.buffer_) => mem[to + i] = data[i]
      /\ \A i \in 1..Len(b.buffer_) : i \notin to + 1 .. to + Len(data) => mem[i] = b.buffer_[i]
  <2> HIDE DEF to
  <2>1. QED  BY <1>1, WellFormedFacts, OverwriteProperties, OverwriteElements
<1>3. WellFormed(c)
  BY PrependKeepsWellFormed
<1>4. c.buffer_ = mem /\ c.read_idx = to /\ c.write_idx = b.write_idx
  BY RecordFields DEF prepend
<1> HIDE DEF c, mem, to
<1>5. /\ old \in Seq(Bytes)
      /\ Len(old) = readableBytes(b)
      /\ Len(old) \in Nat
      /\ \A i \in 1..Len(old) : b.buffer_[b.read_idx + i] = old[i]
  BY ReadableProperties, ReadableIs
<1> HIDE DEF old
<1>6. /\ all \in Seq(Bytes)
      /\ Len(all) = Len(data) + Len(old)
      /\ \A i \in 1..Len(data) + Len(old) :
           all[i] = IF i <= Len(data) THEN data[i] ELSE old[i - Len(data)]
  BY <1>5, ConcatProperties
<1> HIDE DEF all
<1>7. /\ readableBytes(c) = Len(all)
      /\ b.read_idx + Len(old) = b.write_idx
      /\ b.read_idx \in Nat /\ b.write_idx \in Nat
      /\ b.write_idx <= Len(b.buffer_) /\ Len(b.buffer_) \in Nat
  BY <1>1, <1>4, <1>5, <1>6, WellFormedFacts DEF readableBytes
<1>8. ASSUME NEW i \in 1..Len(all) PROVE c.buffer_[c.read_idx + i] = all[i]
  <2>1. to + i \in 1..Len(b.buffer_)
    BY <1>1, <1>5, <1>6, <1>7
  <2>2. CASE i <= Len(data)
    <3>1. i \in 1..Len(data)
      BY <1>1, <1>5, <1>6, <2>2
    <3>2. QED  BY <1>2, <1>4, <1>6, <2>1, <2>2, <3>1
  <2>3. CASE ~(i <= Len(data))
    <3> DEFINE k == i - Len(data)
    <3>1. /\ k \in 1..Len(old) /\ to + i = b.read_idx + k
          /\ to + i \notin to + 1 .. to + Len(data)
      BY <1>1, <1>5, <1>6, <2>3
    <3>2. all[i] = old[k]
      BY <1>6, <2>3
    <3> HIDE DEF k
    <3>3. b.buffer_[to + i] = old[k]
      BY <1>5, <3>1
    <3>4. mem[to + i] = b.buffer_[to + i]
      BY <1>2, <2>1, <3>1
    <3>5. QED  BY <1>4, <3>2, <3>3, <3>4
  <2>4. QED  BY <2>2, <2>3
<1>9. Readable(c) = all
  BY <1>3, <1>6, <1>7, <1>8, ReadableIs
<1>10. QED  BY <1>9 DEF c, all, old

\* retrieve takes bytes from the head.
LEMMA RetrieveReadable ==
  ASSUME NEW b, WellFormed(b), NEW len \in 0..readableBytes(b)
  PROVE  Readable(retrieve(b, len)) = SubSeq(Readable(b), len + 1, Len(Readable(b)))
<1> DEFINE old == Readable(b)
           c == retrieve(b, len)
           rest == SubSeq(old, len + 1, Len(old))
<1>1. /\ old \in Seq(Bytes)
      /\ Len(old) = readableBytes(b)
      /\ Len(old) \in Nat /\ len \in Nat /\ len <= Len(old)
      /\ \A i \in 1..Len(old) : b.buffer_[b.read_idx + i] = old[i]
  BY ReadableProperties, ReadableIs
<1>2. WellFormed(c)
  BY RetrieveKeepsWellFormed
<1> HIDE DEF old
<1>3. len + 1 \in Nat \ {0} /\ Len(old) \in 0..Len(old)
  BY <1>1
<1>4. /\ rest \in Seq(Bytes)
      /\ Len(rest) = IF len + 1 <= Len(old) THEN Len(old) - (len + 1) + 1 ELSE 0
      /\ \A i \in 1..Len(old) - (len + 1) + 1 : rest[i] = old[len + 1 + i - 1]
  BY <1>1, <1>3, PartProperties, PartElements
<1>5. Len(rest) = Len(old) - len
  BY <1>1, <1>4
<1> HIDE DEF rest
<1>6. CASE len < readableBytes(b)
  <2>1. c = Record(b.buffer_, b.read_idx + len, b.write_idx)
    BY <1>6 DEF retrieve
  <2>2. c.buffer_ = b.buffer_ /\ c.read_idx = b.read_idx + len /\ c.write_idx = b.write_idx
    BY <2>1, RecordFields
  <2> HIDE DEF c
  <2>3. readableBytes(c) = Len(rest) /\ b.read_idx \in Nat
    BY <1>1, <1>5, <2>2, WellFormedFacts DEF readableBytes
  <2>4. ASSUME NEW i \in 1..Len(rest) PROVE c.buffer_[c.read_idx + i] = rest[i]
    <3> DEFINE k == len + i
    <3>1. /\ k \in 1..Len(old) /\ i \in 1..Len(old) - (len + 1) + 1
          /\ len + 1 + i - 1 = k /\ c.read_idx + i = b.read_idx + k
      BY <1>1, <1>5, <2>2, <2>3
    <3> HIDE DEF k
    <3>2. rest[i] = old[k]
      BY <1>4, <3>1
    <3>3. b.buffer_[b.read_idx + k] = old[k]
      BY <1>1, <3>1
    <3>4. QED  BY <2>2, <3>1, <3>2, <3>3
  <2>5. Readable(c) = rest
    BY <1>2, <1>4, <2>3, <2>4, ReadableIs
  <2>6. QED  BY <2>5 DEF c, rest, old
<1>7. CASE ~(len < readableBytes(b))
  <2>1. c = retrieveAll(b)
    BY <1>7 DEF retrieve
  <2>2. c.read_idx = kCheapPrepend /\ c.write_idx = kCheapPrepend
    BY <2>1, RecordFields DEF retrieveAll
  <2> HIDE DEF c
  <2>3. Len(rest) = 0 /\ readableBytes(c) = 0
    BY <1>1, <1>5, <1>7, <2>2, BufferAssumption DEF readableBytes
  <2>4. \A i \in 1..Len(rest) : c.buffer_[c.read_idx + i] = rest[i]
    BY <2>3
  <2>5. Readable(c) = rest
    BY <1>2, <1>4, <2>3, <2>4, ReadableIs
  <2>6. QED  BY <2>5 DEF c, rest, old
<1>8. QED  BY <1>6, <1>7

\* A new buffer has nothing to read.
LEMMA NewBufferEmpty == Readable(NewBuffer) = <<>>
<1>1. /\ kCheapPrepend + 1 \in Int /\ kCheapPrepend \in Int
      /\ kCheapPrepend < kCheapPrepend + 1
  BY BufferAssumption
<1>2. QED  BY <1>1, NewBufferWellFormed, SubSeqEmpty DEF Readable

\* shrink takes the bytes over into the new buffer.
LEMMA ShrinkReadable ==
  ASSUME NEW b, WellFormed(b), NEW reserve \in Nat
  PROVE  Readable(shrink(b, reserve)) = Readable(b)
<1> DEFINE room == readableBytes(b) + reserve
           e == ensureWritableBytes(NewBuffer, room)
           old == Readable(b)
<1>1. /\ old \in Seq(Bytes)
      /\ Len(old) \in Nat /\ room \in Nat
      /\ Len(old) <= room
  BY ReadableProperties
<1> HIDE DEF room
<1>2. WellFormed(e) /\ writableBytes(e) >= room
  BY <1>1, NewBufferWellFormed, EnsureProperties
<1>3. Readable(e) = <<>>
  <2>1. ~(kCheapPrepend < NewBuffer.read_idx)
    BY NewBufferWellFormed, BufferAssumption
  <2>2. QED  BY <1>1, <2>1, NewBufferWellFormed, NewBufferEmpty, EnsureKeepsFront
<1>4. shrink(b, reserve) = append(e, old)
  BY DEF shrink, room
<1> HIDE DEF e, old
<1>5. ~(Len(old) > writableBytes(e))
  <2>1. writableBytes(e) \in Int
    BY <1>2, WellFormedFacts DEF writableBytes
  <2>2. QED  BY <1>1, <1>2, <2>1
<1>6. Readable(append(e, old)) = <<>> \o old
  BY <1>1, <1>2, <1>3, <1>5, AppendInOrder
<1>7. QED  BY <1>1, <1>4, <1>6, ConcatEmptySeq DEF old

=============================================================================
