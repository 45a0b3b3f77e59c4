----------------------- MODULE TcpConnectionStreamProofs -----------------------
(***************************************************************************)
(* Theorems about what a TcpConnection sends: it implements ByteStream but *)
(* for the appends that move the output down (RefinesByteStream), and what *)
(* a thread sent before its shutdown leaves before the end of the stream,  *)
(* but for what handleWrite overlooks (OwnSendsLeave).                     *)
(***************************************************************************)
EXTENDS TcpConnectionProofs

-----------------------------------------------------------------------------
(* What is assumed of users *)

\* Without this, what the callback sends overtakes the bytes of the send that
\* called it, and a shutdown there ends the stream before them.
HighWaterSilent == Calls["highWater"] = {}

-----------------------------------------------------------------------------
(* Bytes that a send holds while the high water callback runs *)

KeptIn(s) ==
  IF \E i \in 1..Len(s) : s[i].frame = "append"
    THEN s[CHOOSE i \in 1..Len(s) : s[i].frame = "append"].bytes
    ELSE <<>>

\* On this stack at most one send waits, below at most its callback.
OneHeld(s) ==
  \A j \in 1..Len(s) : s[j].frame = "append" => j = 1 \/ (j = 2 /\ s[1] = User("highWater"))

\* Kept is a function of the stack.
LEMMA KeptIsIn ==
  Kept = KeptIn(stack) /\ Kept' = KeptIn(stack')
BY DEF Kept, Keeping, KeptIn

\* No send waits: nothing is held.
LEMMA KeptNone ==
  ASSUME NEW s, \A i \in 1..Len(s) : s[i].frame # "append"
  PROVE  KeptIn(s) = <<>>
BY DEF KeptIn

\* One send waits: its rest is what is held.
LEMMA KeptOne ==
  ASSUME NEW s, OneHeld(s), NEW j \in 1..Len(s), s[j].frame = "append"
  PROVE  KeptIn(s) = s[j].bytes
<1>1. ASSUME NEW i \in 1..Len(s), s[i].frame = "append" PROVE i = j
  BY <1>1 DEF OneHeld, User
<1>2. QED  BY <1>1 DEF KeptIn

\* A user or another function returns: what is held stays held.
LEMMA KeptPop ==
  ASSUME NEW s \in Seq(Frames), s # <<>>, OneHeld(s)
  PROVE  /\ OneHeld(Tail(s))
         /\ Head(s).frame # "append" => KeptIn(Tail(s)) = KeptIn(s)
         /\ Head(s).frame = "append" => KeptIn(s) = Head(s).bytes /\ KeptIn(Tail(s)) = <<>>
<1> DEFINE t == Tail(s)
<1>1. /\ Len(s) \in Nat \ {0} /\ Head(s) = s[1]
      /\ Len(t) = Len(s) - 1
      /\ \A i \in 1..Len(t) : i + 1 \in 1..Len(s) /\ t[i] = s[i + 1]
  BY Pop
<1> HIDE DEF t
<1>2. OneHeld(t)
  BY <1>1 DEF OneHeld
<1>3. ASSUME Head(s).frame # "append" PROVE KeptIn(t) = KeptIn(s)
  <2>1. CASE \E i \in 1..Len(t) : t[i].frame = "append"
    <3>1. PICK i \in 1..Len(t) : t[i].frame = "append"
      BY <2>1
    <3>2. KeptIn(t) = t[i].bytes
      BY <1>2, <3>1, KeptOne
    <3>3. i + 1 \in 1..Len(s) /\ s[i + 1] = t[i]
      BY <1>1
    <3>4. KeptIn(s) = s[i + 1].bytes
      BY <3>1, <3>3, KeptOne
    <3>5. QED  BY <3>2, <3>3, <3>4
  <2>2. CASE \A i \in 1..Len(t) : t[i].frame # "append"
    <3>1. ASSUME NEW i \in 1..Len(s) PROVE s[i].frame # "append"
      <4>1. CASE i = 1
        BY <1>1, <1>3, <4>1
      <4>2. CASE i # 1
        <5>1. i - 1 \in 1..Len(t)
          BY <1>1, <4>2
        <5>2. t[i - 1] = s[(i - 1) + 1] /\ (i - 1) + 1 = i
          BY <1>1, <5>1
        <5>3. QED  BY <2>2, <5>1, <5>2
      <4>3. QED  BY <4>1, <4>2
    <3>2. KeptIn(s) = <<>> /\ KeptIn(t) = <<>>
      BY <2>2, <3>1, KeptNone
    <3>3. QED  BY <3>2
  <2>3. QED  BY <2>1, <2>2
<1>4. ASSUME Head(s).frame = "append"
      PROVE  KeptIn(s) = Head(s).bytes /\ KeptIn(t) = <<>>
  <2>1. 1 \in 1..Len(s) /\ s[1].frame = "append"
    BY <1>1, <1>4
  <2>2. KeptIn(s) = s[1].bytes
    BY <2>1, KeptOne
  <2>3. ASSUME NEW i \in 1..Len(t) PROVE t[i].frame # "append"
    <3> SUFFICES ASSUME t[i].frame = "append" PROVE FALSE
      OBVIOUS
    <3>1. i + 1 \in 1..Len(s) /\ s[i + 1].frame = "append"
      BY <1>1
    <3>2. s[1] = User("highWater")
      BY <1>1, <3>1 DEF OneHeld
    <3>3. QED  BY <2>1, <3>2 DEF User
  <2>4. QED  BY <1>1, <2>2, <2>3, KeptNone
<1>5. QED  BY <1>2, <1>3, <1>4 DEF t

\* A stack that starts with a callback of which nothing is asked while a send
\* waits holds nothing.
LEMMA KeptFrom ==
  ASSUME HighWaterSilent, stack \in Seq(Frames), OneHeld(stack), NEW call, From(call)
  PROVE  \A i \in 1..Len(stack) : stack[i].frame # "append"
<1> SUFFICES ASSUME NEW i \in 1..Len(stack), stack[i].frame = "append" PROVE FALSE
  OBVIOUS
<1>1. stack # <<>>
  <2>1. Len(<<>>) = 0
    OBVIOUS
  <2>2. QED  BY <2>1
<1>2. Head(stack) = stack[1]
  BY <1>1, Pop
<1>3. stack[1].frame = "user" /\ call \in Calls[stack[1].place]
  BY <1>1, <1>2 DEF From
<1>4. stack[1] = User("highWater")
  BY <1>3 DEF OneHeld
<1>5. QED  BY <1>3, <1>4 DEF User, HighWaterSilent

-----------------------------------------------------------------------------
(* Who sends *)

\* The steps that give bytes to the kernel or end the stream.
LEMMA WireSteps ==
  ASSUME [Next]_vars
  PROVE  \/ UNCHANGED <<sent, fin>>
         \/ \E m \in Msgs : UserSend(m)
         \/ RunSend \/ UserShutdown \/ RunShutdown \/ handleWrite
<1>1. ASSUME UserForceClose \/ UserReturn \/ ResumeSend \/ ResumeClose \/ ResumeDestroy
      PROVE  UNCHANGED <<sent, fin>>
  BY <1>1 DEF UserForceClose, UserReturn, ResumeSend, ResumeClose, ResumeDestroy, kernel
<1>2. ASSUME NEW t \in Threads, Thread(t) \/ ThreadGoesOn(t)
      PROVE  UNCHANGED <<sent, fin>>
  BY <1>2 DEF Thread, ThreadGoesOn, ThreadSend, ThreadShutdown, ThreadForceClose, Drop,
     SetDisconnecting, QueueCall, kernel
<1>3. ASSUME StartRound \/ EndRound \/ connectEstablished \/ RunForceClose \/ RunWriteComplete
      PROVE  UNCHANGED <<sent, fin>>
  BY <1>3 DEF StartRound, EndRound, connectEstablished, RunForceClose, RunWriteComplete, kernel
<1>4. ASSUME RunDestroyed \/ ServerDestroyInLoop
      PROVE  UNCHANGED <<sent, fin>>
  BY <1>4 DEF RunDestroyed, ServerDestroyInLoop, connectDestroyed, kernel
<1>5. ASSUME Poll \/ HandleOther \/ handleRead
      PROVE  UNCHANGED <<sent, fin>>
  BY <1>5 DEF Poll, HandleOther, handleRead, kernel
<1>6. ASSUME \/ ServerRemove \/ KernelDrains \/ ServerDestroy \/ LoopEnds
             \/ PeerSends \/ PeerCloses \/ PeerResets
      PROVE  UNCHANGED <<sent, fin>>
  BY <1>6 DEF ServerRemove, KernelDrains, ServerDestroy, LoopEnds, PeerSends, PeerCloses, PeerResets,
     kernel
<1>7. UNCHANGED vars => UNCHANGED <<sent, fin>>
  BY DEF vars, kernel
<1>8. QED
  BY <1>1, <1>2, <1>3, <1>4, <1>5, <1>6, <1>7 DEF Next, UserCalls, LoopStep, Environment

\* What a send functor does is a send from an empty stack.
LEMMA RunSends ==
  ASSUME TypeOK, RunSend
  PROVE  /\ NextFunctor("send")
         /\ Head(pending).msg \in Msgs /\ Tail(pending) \in Seq(Functors)
         /\ stack = <<>>
         /\ sendInLoop(Head(pending).msg, stack, Tail(pending))
         /\ UNCHANGED history
<1>1. pending[1].msg \in Msgs /\ Tail(pending) \in Seq(Functors) /\ Head(pending) = pending[1]
  BY NextTypes, FunctorTypes DEF RunSend, Ops, TypeOK
<1>2. stack = <<>>
  BY DEF RunSend, NextFunctor, LoopIdle
<1>3. QED  BY <1>1, <1>2 DEF RunSend

-----------------------------------------------------------------------------
(* The refinement: one stream of bytes *)

\* While a send waits for a silent callback no other send starts in the loop.
LEMMA OneHeldStep ==
  ASSUME HighWaterSilent, TypeOK, ThreadsInv, OneHeld(stack), [Next]_vars
  PROVE  OneHeld(stack)'
<1> SUFFICES OneHeld(stack')
  BY DEF OneHeld
<1>1. ConnStep /\ stack \in Seq(Frames) /\ Len(stack) \in Nat
  BY ConnSteps, LenProperties DEF ThreadsInv, TypeOK, ConnTypes
<1>2. CASE stack' = stack
  BY <1>2
<1>3. CASE Returns \/ AddsLater
  BY <1>1, <1>3, KeptPop DEF Returns, AddsLater
<1>4. ASSUME NEW f, stack' = <<f>>, f.frame # "append" PROVE OneHeld(stack')
  BY <1>4 DEF OneHeld
<1>5. CASE Opens
  BY <1>4, <1>5 DEF Opens, User
<1>6. ASSUME NEW place, CallsBack(place) PROVE OneHeld(stack')
  BY <1>4, <1>6 DEF CallsBack, User
<1>7. CASE Removes
  BY <1>4, <1>7 DEF Removes, Frame
<1>8. CASE ClosesAtLast
  <2>1. stack' = <<User("connection"), Frame("remove")>>
    BY <1>8 DEF ClosesAtLast
  <2>2. Len(stack') = 2 /\ stack'[1] = User("connection") /\ stack'[2] = Frame("remove")
    BY <2>1
  <2>3. QED  BY <2>2 DEF OneHeld, User, Frame
<1>9. ASSUME NEW a \in Frames, NEW b \in Frames, NEW call, From(call),
             stack' = <<a, b>> \o stack,
             a.frame = "user", b.frame # "append" \/ a = User("highWater")
      PROVE  OneHeld(stack')
  <2>1. /\ stack'[1] = a /\ stack'[2] = b
        /\ \A i \in 3..Len(stack') : i - 2 \in 1..Len(stack) /\ stack'[i] = stack[i - 2]
    BY <1>1, <1>9, PushTwo
  <2>2. \A i \in 1..Len(stack) : stack[i].frame # "append"
    BY <1>1, <1>9, KeptFrom
  <2>3. ASSUME NEW j \in 1..Len(stack'), stack'[j].frame = "append"
        PROVE  j = 2 /\ stack'[1] = User("highWater")
    <3>1. j # 1
      BY <1>9, <2>1, <2>3
    <3>2. j \notin 3..Len(stack')
      BY <2>1, <2>2, <2>3
    <3>3. j = 2
      BY <3>1, <3>2
    <3>4. QED  BY <1>9, <2>1, <2>3, <3>3
  <2>4. QED  BY <2>3 DEF OneHeld
<1>10. CASE HoldsBack
  <2>1. PICK rest \in ByteSeqs :
          stack' = <<User("highWater"), Append_(rest)>> \o stack
    BY <1>10 DEF HoldsBack
  <2>2. User("highWater") \in Frames /\ Append_(rest) \in Frames
    BY FrameTypes DEF Places
  <2>3. QED  BY <1>9, <1>10, <2>1, <2>2 DEF HoldsBack, User
<1>11. CASE Closes
  <2>1. User("connection") \in Frames /\ Frame("close") \in Frames
    BY FrameTypes DEF Places
  <2>2. QED  BY <1>9, <1>11, <2>1 DEF Closes, User, Frame
<1>12. QED
  BY <1>1, <1>2, <1>3, <1>5, <1>6, <1>7, <1>8, <1>10, <1>11
     DEF ConnStep, CalmStep, Stays, HalfCloses, AddsAtOnce, Flushes

\* What the refinement needs to know of the stack.
LEMMA OneHeldInvariant ==
  ASSUME CloseInLoop, HighWaterSilent
  PROVE  Spec => []OneHeld(stack)
<1>1. OnceInv /\ OneHeld(stack) /\ [Next]_vars => OneHeld(stack)'
  BY HighWaterSilent, OneHeldStep DEF OnceInv
<1>2. Init => OneHeld(stack)
  <2> SUFFICES ASSUME Init PROVE OneHeld(stack)
    OBVIOUS
  <2>1. stack = <<>> /\ Len(<<>>) = 0
    BY DEF Init
  <2>2. QED  BY <2>1 DEF OneHeld
<1>3. QED  BY CloseInLoop, <1>1, <1>2, OnceInvariant, PTL DEF Spec

\* What the stream may do, an append that moves the output down included.
StreamStep ==
  \/ Stream!Next
  \/ /\ MovesDown
     /\ \E bytes \in Payloads \cup {<<>>} : Stream!AcceptAmongStale(bytes)

\* The output buffer.
LEMMA OutputFacts ==
  ASSUME TypeOK
  PROVE  /\ WellFormed(output)
         /\ Readable(output) \in ByteSeqs
         /\ Len(Readable(output)) = readableBytes(output) /\ readableBytes(output) \in Nat
         /\ readableBytes(output) = 0 => Readable(output) = <<>>
         /\ readableBytes(output) = 0 => ~(kCheapPrepend < output.read_idx)
<1>1. WellFormed(output)
  BY DEF TypeOK, ConnTypes, WellFormed
<1>2. /\ Readable(output) \in Seq(Bytes)
      /\ Len(Readable(output)) = readableBytes(output) /\ readableBytes(output) \in Nat
  BY <1>1, ReadableProperties
<1>3. readableBytes(output) = 0 => Readable(output) = <<>>
  BY <1>2, EmptySeq
<1>4. readableBytes(output) = 0 => output.read_idx = kCheapPrepend
  BY <1>1, WellFormedFacts DEF readableBytes
<1>5. kCheapPrepend \in Nat
  BY BufferAssumption
<1>6. QED  BY <1>1, <1>2, <1>3, <1>4, <1>5 DEF ByteSeqs

\* An append to the output puts the bytes behind what is there, or moves the
\* output down and lets stale bytes in between.
LEMMA AppendMoves ==
  ASSUME TypeOK, NEW rest \in ByteSeqs \ {<<>>}, output' = append(output, rest)
  PROVE  LET old == Readable(output)  new == Readable(output)' IN
         /\ new \in ByteSeqs
         /\ \/ new = old \o rest
            \/ /\ MovesDown /\ kCheapPrepend < output.read_idx
               /\ Len(new) >= Len(old) + Len(rest)
               /\ Begins(new, old) /\ Ends(new, rest)
<1> DEFINE new == Readable(append(output, rest))
<1>1. WellFormed(output) /\ rest \in Seq(Bytes) /\ Readable(output)' = new
  BY OutputFacts DEF ByteSeqs, Readable
<1>2. /\ new \in Seq(Bytes)
      /\ Len(new) >= Len(Readable(output)) + Len(rest)
      /\ Begins(new, Readable(output)) /\ Ends(new, rest)
      /\ ~(kCheapPrepend < output.read_idx /\ Len(rest) > writableBytes(output)) =>
            new = Readable(output) \o rest
  BY <1>1, AppendInOrder
<1>3. ASSUME kCheapPrepend < output.read_idx, Len(rest) > writableBytes(output)
      PROVE  MovesDown
  <2>1. readableBytes(output') > readableBytes(output)
    BY <1>1, AppendGrows
  <2>2. writableBytes(output) < Len(rest)
    BY <1>1, <1>3, WellFormedFacts, LenProperties DEF writableBytes
  <2>3. append(output, rest).read_idx = kCheapPrepend
    BY <1>3, <2>2 DEF append, ensureWritableBytes, makeSpace, GrowFor, resize, MoveDown, Record
  <2>4. QED  BY <1>3, <2>1, <2>3 DEF MovesDown
<1> HIDE DEF new
<1>4. QED  BY <1>1, <1>2, <1>3 DEF ByteSeqs

\* The bytes that could be read and those that were appended can be read, in
\* this order, with others in between.
Among(new, old, rest) ==
  /\ new \in ByteSeqs
  /\ Len(new) >= Len(old) + Len(rest)
  /\ Begins(new, old) /\ Ends(new, rest)

\* That is all that AcceptAmongStale says of the bytes.
LEMMA AmongStale ==
  ASSUME NEW new, NEW old \in ByteSeqs, NEW rest \in ByteSeqs, Among(new, old, rest)
  PROVE  LET all == old \o rest IN
         /\ Len(new) >= Len(all)
         /\ \E k \in 0..Len(all) :
              /\ SubSeq(new, 1, k) = SubSeq(all, 1, k)
              /\ SubSeq(new, Len(new) - (Len(all) - k) + 1, Len(new))
                   = SubSeq(all, k + 1, Len(all))
<1> DEFINE all == old \o rest
           k == Len(old)
<1>1. /\ Len(old) \in Nat /\ Len(rest) \in Nat
      /\ Len(all) = Len(old) + Len(rest)
  BY LenProperties, ConcatProperties DEF ByteSeqs
<1>2. Begins(all, old) /\ Ends(all, rest)
  <2>1. Begins(old, old)
    BY SubSeqFull DEF Begins, ByteSeqs
  <2>2. QED  BY <1>1, <2>1, BeginsAndEnds DEF ByteSeqs
<1> HIDE DEF all
<1>3. Len(all) - k = Len(rest) /\ Len(all) - Len(rest) + 1 = k + 1
  BY <1>1
<1>4. /\ SubSeq(new, 1, k) = SubSeq(all, 1, k)
      /\ SubSeq(new, Len(new) - (Len(all) - k) + 1, Len(new)) = SubSeq(all, k + 1, Len(all))
  BY <1>2, <1>3 DEF Among, Begins, Ends
<1>5. k \in 0..Len(all) /\ Len(new) >= Len(all)
  BY <1>1 DEF Among
<1>6. QED  BY <1>4, <1>5 DEF all

\* What KeepRest is given is accepted behind what was there, at once or while
\* its callback runs, but for an append that moves the output down.
LEMMA KeepRestAccepts ==
  ASSUME TypeOK, state # "kDisconnected", NEW rest \in ByteSeqs, KeepRest(rest, stack),
         \A i \in 1..Len(stack) : stack[i].frame # "append"
  PROVE  /\ Accepted = Readable(output) /\ state' = state
         /\ \/ Accepted' = Readable(output) \o rest
            \/ /\ MovesDown /\ kCheapPrepend < output.read_idx
               /\ Among(Accepted', Readable(output), rest)
<1> DEFINE old == Readable(output)
           new == Readable(output)'
<1>1. old \in ByteSeqs /\ stack \in Seq(Frames)
  BY OutputFacts DEF TypeOK, ConnTypes
<1>2. Kept = <<>>
  BY KeptIsIn, KeptNone
<1>3. old \o <<>> = old
  BY <1>1, ConcatEmptySeq DEF ByteSeqs
<1>4. Accepted = old
  BY <1>2, <1>3 DEF Accepted
<1>5. CASE rest = <<>>
  <2>1. stack' = stack /\ state' = state /\ output' = output
    BY <1>5 DEF KeepRest, conn
  <2>2. Kept' = <<>>
    BY <1>2, <2>1, KeptIsIn
  <2>3. Accepted' = old \o <<>>
    BY <2>1, <2>2 DEF Accepted, Readable
  <2>4. QED  BY <1>4, <1>5, <2>1, <2>3
<1>6. CASE rest # <<>> /\ Keep(rest, stack)
  <2>1. stack' = stack /\ state' = state /\ output' = append(output, rest)
    BY <1>6 DEF Keep
  <2>2. Kept' = <<>>
    BY <1>2, <2>1, KeptIsIn
  <2>3. /\ new \in ByteSeqs
        /\ \/ new = old \o rest
           \/ /\ MovesDown /\ kCheapPrepend < output.read_idx
              /\ Len(new) >= Len(old) + Len(rest)
              /\ Begins(new, old) /\ Ends(new, rest)
    BY <1>6, <2>1, AppendMoves
  <2>4. Accepted' = new
    <3>1. new \o <<>> = new
      BY <2>3, ConcatEmptySeq DEF ByteSeqs
    <3>2. Accepted' = new \o <<>>
      BY <2>1, <2>2 DEF Accepted
    <3>3. QED  BY <3>1, <3>2
  <2> HIDE DEF old, new
  <2>5. QED  BY <1>4, <2>1, <2>3, <2>4 DEF Among, old
<1>7. CASE /\ stack' = <<User("highWater"), Append_(rest)>> \o stack
           /\ UNCHANGED conn
  <2>1. User("highWater") \in Frames /\ Append_(rest) \in Frames
    BY FrameTypes DEF Places
  <2>2. /\ Len(stack') = Len(stack) + 2 /\ Len(stack) \in Nat
        /\ stack'[1] = User("highWater") /\ stack'[2] = Append_(rest)
        /\ \A i \in 3..Len(stack') : i - 2 \in 1..Len(stack) /\ stack'[i] = stack[i - 2]
    BY <1>1, <1>7, <2>1, PushTwo, LenProperties
  <2>3. OneHeld(stack')
    BY <2>2 DEF OneHeld, User
  <2>4. 2 \in 1..Len(stack') /\ stack'[2].frame = "append" /\ stack'[2].bytes = rest
    BY <2>2 DEF Append_
  <2>5. Kept' = rest
    BY <2>3, <2>4, KeptOne, KeptIsIn
  <2>6. Accepted' = old \o rest /\ state' = state
    BY <1>7, <2>5 DEF Accepted, conn, Readable
  <2>7. QED  BY <1>4, <2>6
<1>8. QED  BY <1>5, <1>6, <1>7 DEF KeepRest

\* A send accepts its bytes; when nothing waits, some of them leave at once.
LEMMA SendAccepts ==
  ASSUME TypeOK, state # "kDisconnected", NEW m \in Msgs, NEW queue,
         sendInLoop(m, stack, queue),
         \A i \in 1..Len(stack) : stack[i].frame # "append"
  PROVE  /\ state' = state /\ fin' = fin
         /\ \/ \E n \in 0..Len(Payload(m)) :
                 /\ Accepted # <<>> \/ fin => n = 0
                 /\ sent' = sent \o SubSeq(Payload(m), 1, n)
                 /\ Accepted' = Accepted \o SubSeq(Payload(m), n + 1, Len(Payload(m)))
            \/ MovesDown /\ sent' = sent /\ Among(Accepted', Accepted, Payload(m))
<1>1. /\ Payload(m) \in ByteSeqs /\ Len(Payload(m)) = Size[m] /\ Size[m] \in Nat
      /\ sent \in Seq(Bytes)
  BY PayloadType DEF ByteSeqs, TypeOK, KernelTypes
<1>2. CASE Writing \/ readableBytes(output) # 0
  <2>1. KeepRest(Payload(m), stack) /\ UNCHANGED <<sent, fin>>
    BY <1>2 DEF sendInLoop, kernel
  <2>2. /\ state' = state
        /\ \/ Accepted' = Accepted \o Payload(m)
           \/ MovesDown /\ Among(Accepted', Accepted, Payload(m))
    BY <1>1, <2>1, KeepRestAccepts
  <2>3. SubSeq(Payload(m), 1, 0) = <<>> /\ SubSeq(Payload(m), 0 + 1, Len(Payload(m))) = Payload(m)
    BY <1>1, Parts DEF ByteSeqs
  <2>4. sent \o <<>> = sent
    BY <1>1, ConcatEmptySeq
  <2>5. 0 \in 0..Len(Payload(m))
    BY <1>1
  <2>6. CASE Accepted' = Accepted \o Payload(m)
    BY <2>1, <2>2, <2>3, <2>4, <2>5, <2>6
  <2>7. QED  BY <2>1, <2>2, <2>6
<1>3. CASE ~(Writing \/ readableBytes(output) # 0)
  <2>1. PICK n \in Written(Size[m]) :
          /\ sent' = sent \o SubSeq(Payload(m), 1, n)
          /\ KeepRest(SubSeq(Payload(m), n + 1, Size[m]), stack)
          /\ UNCHANGED fin
    BY <1>3 DEF sendInLoop
  <2>2. n \in 0..Len(Payload(m))
    BY <1>1, WrittenRange
  <2>3. SubSeq(Payload(m), n + 1, Size[m]) \in ByteSeqs
    BY <1>1, <2>2, Parts DEF ByteSeqs
  <2>4. Readable(output) = <<>> /\ ~(kCheapPrepend < output.read_idx)
    BY <1>3, OutputFacts
  <2>5. /\ Accepted = Readable(output)
        /\ Accepted' = Readable(output) \o SubSeq(Payload(m), n + 1, Size[m])
        /\ state' = state
    BY <2>1, <2>3, <2>4, KeepRestAccepts
  <2>6. fin => n = 0
    BY <2>1 DEF Written
  <2>7. Accepted # <<>> \/ fin => n = 0
    BY <2>4, <2>5, <2>6
  <2>8. QED  BY <1>1, <2>1, <2>2, <2>5, <2>7
<1>4. QED  BY <1>2, <1>3

\* A send is an Accept of the stream, or nothing when the connection is closed.
LEMMA SendRefines ==
  ASSUME HighWaterSilent, OnceInv, OneHeld(stack),
         RunSend \/ \E m \in Msgs : UserSend(m)
  PROVE  [StreamStep]_(Stream!vars)
<1>1. /\ TypeOK /\ stack \in Seq(Frames)
      /\ state \in {"kConnecting", "kConnected", "kDisconnecting", "kDisconnected"}
  BY DEF OnceInv, TypeOK, ConnTypes
<1>2. PICK m \in Msgs, queue \in Seq(Functors) :
        sendInLoop(m, stack, queue) /\ From("send")
  <2>1. CASE RunSend
    BY <1>1, <2>1, RunSends DEF From
  <2>2. CASE \E m \in Msgs : UserSend(m)
    BY <1>1, <2>2 DEF UserSend, UserMay, InUserCode, From, TypeOK, LoopTypes
  <2>3. QED  BY <2>1, <2>2
<1>3. \A i \in 1..Len(stack) : stack[i].frame # "append"
  BY <1>1, <1>2, KeptFrom
<1>4. CASE state = "kDisconnected"
  <2>1. sent' = sent /\ fin' = fin /\ state' = state
    BY <1>1, <1>2, <1>4, SendEffect
  <2>2. QED  BY <1>4, <2>1 DEF Stream!vars, Phase, Accepted
<1>5. CASE state # "kDisconnected"
  <2>1. Up
    <3>1. state # "kConnecting"
      BY DEF UserSend, RunSend, NextFunctor, LoopIdle, OnceInv, ConnectingInv
    <3>2. QED  BY <1>1, <1>5, <3>1 DEF Up
  <2>2. /\ state' = state /\ fin' = fin
        /\ \/ \E n \in 0..Len(Payload(m)) :
                /\ Accepted # <<>> \/ fin => n = 0
                /\ sent' = sent \o SubSeq(Payload(m), 1, n)
                /\ Accepted' = Accepted \o SubSeq(Payload(m), n + 1, Len(Payload(m)))
           \/ MovesDown /\ sent' = sent /\ Among(Accepted', Accepted, Payload(m))
    BY <1>1, <1>2, <1>3, <1>5, SendAccepts
  <2>3. Phase = "up" /\ Phase' = Phase /\ Payload(m) \in Payloads
    BY <2>1, <2>2 DEF Phase, Up, Payloads
  <2>4. CASE MovesDown /\ sent' = sent /\ Among(Accepted', Accepted, Payload(m))
    <3>1. Accepted \in ByteSeqs
      <4>1. Kept = <<>> /\ Readable(output) \in Seq(Bytes)
        BY <1>1, <1>3, KeptIsIn, KeptNone, OutputFacts DEF ByteSeqs
      <4>2. Readable(output) \o <<>> = Readable(output)
        BY <4>1, ConcatEmptySeq
      <4>3. QED  BY <1>5, <4>1, <4>2 DEF Accepted, ByteSeqs
    <3>2. Stream!AcceptAmongStale(Payload(m))
      BY <2>2, <2>3, <2>4, <3>1, PayloadType, AmongStale DEF Stream!AcceptAmongStale
    <3>3. QED  BY <2>3, <2>4, <3>2 DEF StreamStep
  <2>5. CASE ~(MovesDown /\ sent' = sent /\ Among(Accepted', Accepted, Payload(m)))
    <3>1. Stream!Accept(Payload(m))
      BY <2>2, <2>3, <2>5 DEF Stream!Accept
    <3>2. QED  BY <2>3, <3>1 DEF Stream!Next, StreamStep
  <2>6. QED  BY <2>4, <2>5
<1>6. QED  BY <1>4, <1>5

\* handleWrite transmits, or does nothing to the stream.
LEMMA WriteRefines ==
  ASSUME OnceInv, QuietInv, handleWrite
  PROVE  [StreamStep]_(Stream!vars)
<1> DEFINE old == Readable(output)
<1>1. /\ TypeOK
      /\ state \in {"kConnecting", "kConnected", "kDisconnecting", "kDisconnected"}
      /\ sent \in Seq(Bytes) /\ fin \in BOOLEAN
  BY DEF OnceInv, TypeOK, ConnTypes, KernelTypes, ByteSeqs
<1>2. /\ WellFormed(output) /\ old \in Seq(Bytes)
      /\ Len(old) = readableBytes(output) /\ Len(old) \in Nat
  BY <1>1, OutputFacts DEF ByteSeqs
<1>3. Kept = <<>> /\ Kept' = <<>>
  <2>1. stack = <<>> /\ stack' = <<>> /\ Len(<<>>) = 0
    BY DEF handleWrite, Dispatches
  <2>2. QED  BY <2>1, KeptIsIn, KeptNone
<1>4. CASE ~Writing
  BY <1>3, <1>4 DEF handleWrite, conn, kernel, Stream!vars, Phase, Accepted, Readable
<1>5. CASE Writing
  <2>1. Up
    BY <1>1, <1>5 DEF Writing, QuietInv, OnceInv, ConnectingInv, Up
  <2>2. PICK n \in Written(Len(old)) :
          /\ sent' = sent \o SubSeq(old, 1, n)
          /\ output' = IF n > 0 THEN retrieve(output, n) ELSE output
          /\ fin' = (fin \/ (n > 0 /\ n = Len(old) /\ state = "kDisconnecting"))
          /\ state' = state
    BY <1>2, <1>5 DEF handleWrite, TakeOut
  <2>3. n \in 0..Len(old)
    BY <1>2, <2>2, WrittenRange
  <2>4. Accepted = old /\ Phase = "up" /\ Phase' = "up"
    <3>1. old \o <<>> = old
      BY <1>2, ConcatEmptySeq
    <3>2. QED  BY <1>3, <2>1, <2>2, <3>1 DEF Accepted, Phase, Up
  <2>5. Accepted' = Readable(output') \o <<>>
    BY <1>3, <2>1, <2>2 DEF Accepted, Up, Readable
  <2>6. CASE n = 0
    <3>1. sent \o <<>> = sent /\ old \o <<>> = old
      BY <1>1, <1>2, ConcatEmptySeq
    <3>2. SubSeq(old, 1, n) = <<>>
      BY <1>2, <2>3, <2>6, Parts
    <3>3. sent' = sent /\ output' = output
      <4>1. sent' = sent \o SubSeq(old, 1, n)
        BY <2>2
      <4>2. sent' = sent
        BY <3>1, <3>2, <4>1
      <4>3. ~(n > 0)
        BY <2>6
      <4>4. QED  BY <2>2, <4>2, <4>3
    <3>4. fin' = fin
      <4>1. ~(n > 0)
        BY <2>6
      <4>2. QED  BY <1>1, <2>2, <4>1
    <3>5. Accepted' = Accepted
      BY <2>4, <2>5, <3>1, <3>3
    <3>6. QED  BY <2>4, <3>3, <3>4, <3>5 DEF Stream!vars
  <2>7. CASE n # 0
    <3>1. n \in 1..Len(old) /\ n \in 0..readableBytes(output) /\ n > 0
      BY <1>2, <2>3, <2>7
    <3>2. ~fin
      BY <2>2, <2>7 DEF Written
    <3>3. Readable(output') = SubSeq(old, n + 1, Len(old))
      BY <1>2, <2>2, <3>1, RetrieveReadable
    <3>4. Readable(output') \in Seq(Bytes) /\ (n = Len(old) => Readable(output') = <<>>)
      BY <1>2, <2>3, <3>3, Parts
    <3>5. Accepted' = SubSeq(old, n + 1, Len(old))
      BY <2>5, <3>3, <3>4, ConcatEmptySeq
    <3>6. fin' \in BOOLEAN /\ (fin' => Accepted' = <<>>)
      BY <2>2, <3>2, <3>3, <3>4, <3>5
    <3>7. Stream!Transmit
      BY <2>2, <2>4, <3>1, <3>2, <3>5, <3>6 DEF Stream!Transmit
    <3>8. QED  BY <3>7 DEF Stream!Next, StreamStep
  <2>8. QED  BY <2>6, <2>7
<1>6. QED  BY <1>4, <1>5

\* The end of the stream is announced when nothing accepted is left.
LEMMA ShutdownRefines ==
  ASSUME HighWaterSilent, OnceInv, OneHeld(stack), UserShutdown \/ RunShutdown
  PROVE  [StreamStep]_(Stream!vars)
<1>1. /\ TypeOK /\ fin \in BOOLEAN /\ stack \in Seq(Frames)
      /\ Readable(output) \in Seq(Bytes)
  BY OutputFacts DEF OnceInv, TypeOK, ConnTypes, KernelTypes, ByteSeqs
<1>2. stack' = stack /\ sent' = sent /\ output' = output /\ fin' = (fin \/ ~Writing)
  BY DEF UserShutdown, RunShutdown, shutdownInLoop, conn
<1>3. Phase' = Phase /\ (state' = "kDisconnected" <=> state = "kDisconnected")
  BY DEF UserShutdown, RunShutdown, conn, Phase
<1>4. Kept = <<>> /\ Kept' = <<>>
  <2>1. From("shutdown")
    BY DEF UserShutdown, UserMay, InUserCode, RunShutdown, NextFunctor, LoopIdle, From
  <2>2. QED  BY <1>1, <1>2, <2>1, KeptFrom, KeptNone, KeptIsIn
<1>5. Accepted' = Accepted
  BY <1>2, <1>3, <1>4 DEF Accepted, Readable
<1>6. CASE fin' = fin
  BY <1>2, <1>3, <1>5, <1>6 DEF Stream!vars
<1>7. CASE fin' # fin
  <2>1. fin' = TRUE /\ ~Writing
    BY <1>1, <1>2, <1>7
  <2>2. Phase = "up" => Accepted = <<>>
    <3>1. Phase = "up" => Up
      BY DEF Phase, Up, OnceInv, TypeOK, ConnTypes
    <3>2. Up => Readable(output) = <<>>
      BY <1>1, <2>1, OutputFacts DEF Up, OnceInv, WritingIffBuffered
    <3>3. Readable(output) \o <<>> = Readable(output)
      BY <1>1, ConcatEmptySeq
    <3>4. QED  BY <1>4, <3>1, <3>2, <3>3 DEF Accepted
  <2>3. Stream!Finish
    BY <1>2, <1>3, <1>5, <2>1, <2>2 DEF Stream!Finish
  <2>4. QED  BY <2>3 DEF Stream!Next, StreamStep
<1>8. QED  BY <1>6, <1>7

\* A send that was held back appends its bytes: they have been accepted
\* already, and only a move of the output down makes a difference.
LEMMA LateRefines ==
  ASSUME OnceInv, OneHeld(stack), QuietInv, AddsLater, UNCHANGED <<sent, fin>>
  PROVE  [StreamStep]_(Stream!vars)
<1> DEFINE old == Readable(output)
           new == Readable(output)'
           rest == Head(stack).bytes
<1>1. /\ TypeOK /\ stack \in Seq(SolidFrames) /\ stack \in Seq(Frames) /\ stack # <<>>
      /\ Head(stack).frame = "append" /\ stack' = Tail(stack)
      /\ output' = append(output, rest) /\ state' = state
  BY DEF OnceInv, TypeOK, ConnTypes, HeldInv, AddsLater, Adds
<1>2. Head(stack) = stack[1] /\ Head(stack) \in SolidFrames /\ 1 \in 1..Len(stack)
  BY <1>1, Pop
<1>3. rest \in ByteSeqs \ {<<>>} /\ Up
  BY <1>1, <1>2, FunctorTypes DEF SolidFrames, QuietInv
<1>4. Kept = rest /\ Kept' = <<>>
  BY <1>1, KeptPop, KeptIsIn
<1>5. /\ new \in ByteSeqs /\ old \in ByteSeqs
      /\ \/ new = old \o rest
         \/ MovesDown /\ Among(new, old, rest)
  BY <1>1, <1>3, AppendMoves, OutputFacts DEF Among
<1>6. Accepted = old \o rest /\ Accepted' = new \o <<>> /\ Phase = "up" /\ Phase' = "up"
  BY <1>1, <1>3, <1>4 DEF Accepted, Phase, Up
<1> HIDE DEF old, new, rest
<1>7. new \o <<>> = new /\ (old \o rest) \o <<>> = old \o rest
  <2>1. old \o rest \in Seq(Bytes)
    BY <1>3, <1>5, ConcatProperties DEF ByteSeqs
  <2>2. QED  BY <1>5, <2>1, ConcatEmptySeq DEF ByteSeqs
<1>8. CASE new = old \o rest
  BY <1>6, <1>7, <1>8 DEF Stream!vars
<1>9. CASE MovesDown /\ Among(new, old, rest)
  <2> DEFINE all == old \o rest
  <2>1. /\ Len(new) >= Len(all)
        /\ \E k \in 0..Len(all) :
             /\ SubSeq(new, 1, k) = SubSeq(all, 1, k)
             /\ SubSeq(new, Len(new) - (Len(all) - k) + 1, Len(new))
                  = SubSeq(all, k + 1, Len(all))
    BY <1>3, <1>5, <1>9, AmongStale
  <2>2. Accepted \o <<>> = all /\ Accepted' = new
    BY <1>6, <1>7
  <2> HIDE DEF all
  <2>3. UNCHANGED <<Phase, sent, fin>>
    BY <1>6
  <2>4. Stream!AcceptAmongStale(<<>>)
    BY <1>6, <2>1, <2>2, <2>3 DEF Stream!AcceptAmongStale
  <2>5. QED  BY <1>9, <2>4 DEF StreamStep
<1>10. QED  BY <1>5, <1>8, <1>9

\* Another calm step lets the connection come up or go down, or changes
\* nothing of the stream.
LEMMA CalmRefines ==
  ASSUME OnceInv, OneHeld(stack), QuietInv, CalmStep, UNCHANGED <<sent, fin>>
  PROVE  [StreamStep]_(Stream!vars)
<1>1. /\ state \in {"kConnecting", "kConnected", "kDisconnecting", "kDisconnected"}
      /\ stack \in Seq(Frames)
  BY DEF OnceInv, TypeOK, ConnTypes
<1>2. ASSUME state' = state, output' = output, Kept' = Kept
      PROVE  UNCHANGED Stream!vars
  BY <1>2 DEF Stream!vars, Phase, Accepted, Readable
<1>3. stack = <<>> => Kept = <<>>
  <2>1. Len(<<>>) = 0
    OBVIOUS
  <2>2. QED  BY <2>1, KeptNone, KeptIsIn
<1>4. ASSUME NEW f, stack' = <<f>>, f.frame # "append" PROVE Kept' = <<>>
  <2>1. Len(stack') = 1 /\ stack'[1] = f
    BY <1>4
  <2>2. QED  BY <1>4, <2>1, KeptNone, KeptIsIn
<1>5. CASE Stays
  BY <1>2, <1>5, KeptIsIn DEF Stays, core
<1>6. CASE HalfCloses
  <2>1. Accepted' = Accepted
    BY <1>6, KeptIsIn DEF HalfCloses, Accepted, Readable
  <2>2. Phase' = Phase
    BY <1>6 DEF HalfCloses, Phase
  <2>3. QED  BY <2>1, <2>2 DEF Stream!vars
<1>7. CASE Returns
  <2>1. stack # <<>> /\ Head(stack).frame # "append" /\ stack' = Tail(stack)
    BY <1>7 DEF Returns, ResumeClose, ResumeDestroy, Resumes
  <2>2. Kept' = Kept
    BY <1>1, <2>1, KeptPop, KeptIsIn
  <2>3. QED  BY <1>2, <1>7, <2>2 DEF Returns, core
<1>8. ASSUME NEW place, CallsBack(place) PROVE UNCHANGED Stream!vars
  BY <1>2, <1>3, <1>4, <1>8 DEF CallsBack, User, core
<1>9. CASE Removes
  BY <1>2, <1>3, <1>4, <1>9 DEF Removes, Frame, core
<1>10. CASE AddsLater
  BY <1>10, LateRefines
<1>11. CASE Opens
  <2>1. stack = <<>> /\ Readable(output) = <<>>
    BY <1>11, NewBufferEmpty DEF Opens, OnceInv, ConnectingInv
  <2>2. Kept = <<>> /\ Kept' = <<>> /\ output' = output
    BY <1>3, <1>4, <1>11, <2>1 DEF Opens, User
  <2>3. Accepted = Accepted' /\ Phase = "connecting" /\ Phase' = "up"
    BY <1>11, <2>2 DEF Opens, Accepted, Phase, Readable
  <2>4. Stream!ComeUp
    BY <2>3 DEF Stream!ComeUp
  <2>5. QED  BY <2>4 DEF Stream!Next, StreamStep
<1>12. CASE Closes \/ ClosesAtLast
  <2>1. Phase = "up" /\ Phase' = "down" /\ Accepted' = <<>>
    BY <1>12 DEF Closes, ClosesAtLast, Up, Phase, Accepted
  <2>2. Stream!GoDown
    BY <2>1 DEF Stream!GoDown
  <2>3. QED  BY <2>2 DEF Stream!Next, StreamStep
<1>13. QED
  BY <1>5, <1>6, <1>7, <1>8, <1>9, <1>10, <1>11, <1>12 DEF CalmStep

\* What users send leaves in the order in which it was accepted, nothing is
\* lost or repeated while the connection is up, and the stream is ended only
\* when nothing accepted is left: every step of the connection is one of the
\* stream of bytes or leaves it as it is - except that an append which moves
\* the output down puts stale bytes in front of what it appends.
THEOREM RefinesByteStream ==
  ASSUME CloseInLoop, HighWaterSilent
  PROVE  Spec => StreamUnlessMoved
<1>1. HighWaterKeepsOpen
  BY HighWaterSilent DEF HighWaterSilent, HighWaterKeepsOpen
<1>2. Init => Stream!Init
  <2> SUFFICES ASSUME Init PROVE Stream!Init
    OBVIOUS
  <2>1. stack = <<>> /\ Readable(output) = <<>> /\ state = "kConnecting" /\ sent = <<>> /\ fin = FALSE
    BY NewBufferEmpty DEF Init
  <2>2. Len(<<>>) = 0 /\ <<>> \o <<>> = <<>>
    OBVIOUS
  <2>3. Kept = <<>>
    BY <2>1, <2>2, KeptNone, KeptIsIn
  <2>4. Accepted = <<>> /\ Phase = "connecting"
    BY <2>1, <2>2, <2>3 DEF Accepted, Phase
  <2>5. QED  BY <2>1, <2>4 DEF Stream!Init
<1>3. ASSUME OnceInv, QuietInv, OneHeld(stack), [Next]_vars
      PROVE  [StreamStep]_(Stream!vars)
  <2>1. CASE RunSend \/ \E m \in Msgs : UserSend(m)
    BY <1>3, <2>1, HighWaterSilent, SendRefines
  <2>2. CASE handleWrite
    BY <1>3, <2>2, WriteRefines
  <2>3. CASE UserShutdown \/ RunShutdown
    BY <1>3, <2>3, HighWaterSilent, ShutdownRefines
  <2>4. CASE ~(RunSend \/ handleWrite \/ UserShutdown \/ RunShutdown \/ \E m \in Msgs : UserSend(m))
    <3>1. CalmStep
      BY <1>3, <2>4, CalmSteps DEF OnceInv, ThreadsInv
    <3>2. UNCHANGED <<sent, fin>>
      BY <1>3, <2>4, WireSteps
    <3>3. QED  BY <1>3, <3>1, <3>2, CalmRefines
  <2>5. QED  BY <2>1, <2>2, <2>3, <2>4
<1>4. OnceInv /\ QuietInv /\ OneHeld(stack) /\ [Next]_vars =>
        [\/ Stream!Next
         \/ /\ MovesDown
            /\ \E bytes \in Payloads \cup {<<>>} : Stream!AcceptAmongStale(bytes)
        ]_(Stream!vars)
  BY <1>3 DEF StreamStep
<1>5. QED
  BY CloseInLoop, HighWaterSilent, <1>1, <1>2, <1>4, OnceInvariant, QuietInvariant,
     OneHeldInvariant, PTL DEF Spec, StreamUnlessMoved

-----------------------------------------------------------------------------
(* The flow of the bytes *)

Elems(s) == {s[k] : k \in 1..Len(s)}

\* A send on the stack holds x.
Holding(x, s) == \E i \in 1..Len(s) : s[i].frame = "append" /\ x \in Elems(s[i].bytes)

\* x has left, or waits in the output buffer.
Taken(x) == x \in Elems(sent) \cup Elems(Readable(output))
Reached(x) == Taken(x) \/ Holding(x, stack)

\* The elements of two sequences in a row.
LEMMA ElemsConcat ==
  ASSUME NEW S, NEW s \in Seq(S), NEW t \in Seq(S)
  PROVE  Elems(s \o t) = Elems(s) \cup Elems(t)
<1>1. /\ Len(s) \in Nat /\ Len(t) \in Nat
      /\ Len(s \o t) = Len(s) + Len(t)
      /\ \A i \in 1..Len(s) + Len(t) :
           (s \o t)[i] = IF i <= Len(s) THEN s[i] ELSE t[i - Len(s)]
  BY ConcatProperties, LenProperties
<1> DEFINE u == s \o t
<1> HIDE DEF u
<1>2. /\ Len(u) = Len(s) + Len(t)
      /\ \A i \in 1..Len(s) : i \in 1..Len(u) /\ u[i] = s[i]
      /\ \A i \in 1..Len(t) : Len(s) + i \in 1..Len(u) /\ u[Len(s) + i] = t[i]
  BY <1>1 DEF u
<1>3. \A i \in 1..Len(u) : \/ i \in 1..Len(s)
                           \/ i - Len(s) \in 1..Len(t) /\ Len(s) + (i - Len(s)) = i
  BY <1>1, <1>2
<1>4. Elems(s) \subseteq Elems(u)
  BY <1>2 DEF Elems
<1>5. Elems(t) \subseteq Elems(u)
  BY <1>2 DEF Elems
<1>6. ASSUME NEW i \in 1..Len(u) PROVE u[i] \in Elems(s) \cup Elems(t)
  <2>1. CASE i \in 1..Len(s)
    BY <1>2, <2>1 DEF Elems
  <2>2. CASE i - Len(s) \in 1..Len(t) /\ Len(s) + (i - Len(s)) = i
    <3>1. u[i] = t[i - Len(s)]
      BY <1>2, <2>2
    <3>2. QED  BY <2>2, <3>1 DEF Elems
  <2>3. QED  BY <1>3, <2>1, <2>2
<1>7. Elems(u) \subseteq Elems(s) \cup Elems(t)
  BY <1>6 DEF Elems
<1>8. QED  BY <1>4, <1>5, <1>7 DEF u

\* The elements of a sequence that is cut in two.
LEMMA ElemsSplit ==
  ASSUME NEW S, NEW s \in Seq(S), NEW n \in 0..Len(s)
  PROVE  Elems(s) = Elems(SubSeq(s, 1, n)) \cup Elems(SubSeq(s, n + 1, Len(s)))
<1>1. Len(s) \in Nat /\ n \in Nat /\ n <= Len(s)
  BY LenProperties
<1>2. SubSeq(s, 1, n) \in Seq(S) /\ SubSeq(s, n + 1, Len(s)) \in Seq(S)
  BY Parts
<1>3. SubSeq(s, 1, n) \o SubSeq(s, n + 1, Len(s)) = s
  <2>1. 1 \in 1..Len(s) + 1 /\ n \in 1 - 1..Len(s) /\ Len(s) \in n..Len(s)
    BY <1>1
  <2>2. SubSeq(s, 1, n) \o SubSeq(s, n + 1, Len(s)) = SubSeq(s, 1, Len(s))
    BY <2>1, ConcatAdjacentSubSeq
  <2>3. QED  BY <2>2, SubSeqFull
<1>4. QED  BY <1>2, <1>3, ElemsConcat

\* The innermost frame goes: what it held has to go somewhere.
LEMMA HoldingPop ==
  ASSUME NEW s \in Seq(Frames), s # <<>>, NEW x, Holding(x, s)
  PROVE  \/ Holding(x, Tail(s))
         \/ Head(s).frame = "append" /\ x \in Elems(Head(s).bytes)
<1> DEFINE t == Tail(s)
<1>1. /\ Len(s) \in Nat \ {0} /\ Head(s) = s[1]
      /\ Len(t) = Len(s) - 1
      /\ \A i \in 1..Len(t) : i + 1 \in 1..Len(s) /\ t[i] = s[i + 1]
  BY Pop
<1> HIDE DEF t
<1>2. PICK i \in 1..Len(s) : s[i].frame = "append" /\ x \in Elems(s[i].bytes)
  BY DEF Holding
<1>3. CASE i = 1
  BY <1>1, <1>2, <1>3
<1>4. CASE i # 1
  <2>1. i - 1 \in 1..Len(t) /\ (i - 1) + 1 = i
    BY <1>1, <1>4
  <2>2. t[i - 1] = s[i]
    BY <1>1, <2>1
  <2>3. Holding(x, t)
    BY <1>2, <2>1, <2>2 DEF Holding
  <2>4. QED  BY <2>3 DEF t
<1>5. QED  BY <1>3, <1>4

\* Two frames come: what was held stays held.
LEMMA HoldingPush ==
  ASSUME NEW s \in Seq(Frames), NEW a \in Frames, NEW b \in Frames, NEW x,
         Holding(x, s) \/ (b.frame = "append" /\ x \in Elems(b.bytes))
  PROVE  Holding(x, <<a, b>> \o s)
<1> DEFINE q == <<a, b>> \o s
<1>1. /\ Len(q) = Len(s) + 2 /\ Len(s) \in Nat
      /\ q[1] = a /\ q[2] = b
      /\ \A i \in 3..Len(q) : i - 2 \in 1..Len(s) /\ q[i] = s[i - 2]
  BY PushTwo, LenProperties
<1> HIDE DEF q
<1>2. CASE b.frame = "append" /\ x \in Elems(b.bytes)
  <2>1. 2 \in 1..Len(q)
    BY <1>1
  <2>2. Holding(x, q)
    BY <1>1, <1>2, <2>1 DEF Holding
  <2>3. QED  BY <2>2 DEF q
<1>3. CASE Holding(x, s)
  <2>1. PICK i \in 1..Len(s) : s[i].frame = "append" /\ x \in Elems(s[i].bytes)
    BY <1>3 DEF Holding
  <2>2. i + 2 \in 3..Len(q) /\ i + 2 \in 1..Len(q) /\ (i + 2) - 2 = i
    BY <1>1
  <2>3. q[i + 2] = s[i]
    BY <1>1, <2>2
  <2>4. Holding(x, q)
    BY <2>1, <2>2, <2>3 DEF Holding
  <2>5. QED  BY <2>4 DEF q
<1>4. QED  BY <1>2, <1>3

\* An append keeps the bytes that were there, and adds its own.
LEMMA AppendFlows ==
  ASSUME TypeOK, NEW rest \in ByteSeqs \ {<<>>}, output' = append(output, rest)
  PROVE  /\ Elems(Readable(output)) \subseteq Elems(Readable(output'))
         /\ Elems(rest) \subseteq Elems(Readable(output'))
<1> DEFINE old == Readable(output)
           new == Readable(output')
<1>1. /\ old \in Seq(Bytes) /\ rest \in Seq(Bytes) /\ new \in Seq(Bytes)
      /\ new = old \o rest \/ (Len(new) >= Len(old) + Len(rest) /\ Begins(new, old) /\ Ends(new, rest))
  BY OutputFacts, AppendMoves DEF ByteSeqs, Readable
<1> HIDE DEF old, new
<1>2. Len(old) \in Nat /\ Len(rest) \in Nat /\ Len(new) \in Nat
  BY <1>1, LenProperties
<1>3. CASE new = old \o rest
  <2>1. Elems(new) = Elems(old) \cup Elems(rest)
    BY <1>1, <1>3, ElemsConcat
  <2>2. QED  BY <2>1 DEF old, new
<1>4. CASE Len(new) >= Len(old) + Len(rest) /\ Begins(new, old) /\ Ends(new, rest)
  <2> DEFINE k == Len(old)
             l == Len(new) - Len(rest)
  <2>1. k \in 0..Len(new) /\ l \in 0..Len(new)
    BY <1>2, <1>4
  <2>2. SubSeq(new, 1, k) = old /\ SubSeq(new, l + 1, Len(new)) = rest
    BY <1>4 DEF Begins, Ends
  <2> HIDE DEF k, l
  <2>3. Elems(new) = Elems(old) \cup Elems(SubSeq(new, k + 1, Len(new)))
    BY <1>1, <2>1, <2>2, ElemsSplit
  <2>4. Elems(new) = Elems(SubSeq(new, 1, l)) \cup Elems(rest)
    BY <1>1, <2>1, <2>2, ElemsSplit
  <2>5. Elems(old) \subseteq Elems(new) /\ Elems(rest) \subseteq Elems(new)
    BY <2>3, <2>4
  <2>6. QED  BY <2>5 DEF old, new
<1>5. QED  BY <1>1, <1>3, <1>4

\* What has been written stays written or leaves, and what a send holds is
\* written after its callback.
Flows ==
  /\ Elems(sent) \subseteq Elems(sent')
  /\ \A x : Taken(x) => Taken(x)'
  /\ \A x : Reached(x) => Reached(x)'

LEMMA FlowPrimes ==
  /\ \A x : Reached(x)' <=> (x \in Elems(sent') \cup Elems(Readable(output')) \/ Holding(x, stack'))
  /\ \A x : Taken(x)' <=> x \in Elems(sent') \cup Elems(Readable(output'))
BY DEF Reached, Taken, Holding, Elems, Readable

\* What KeepRest is given is kept or held.
LEMMA KeepRestFlows ==
  ASSUME TypeOK, NEW rest \in ByteSeqs, KeepRest(rest, stack)
  PROVE  /\ Elems(Readable(output)) \subseteq Elems(Readable(output'))
         /\ \A x : Holding(x, stack) => Holding(x, stack')
         /\ \A x \in Elems(rest) : x \in Elems(Readable(output')) \/ Holding(x, stack')
<1>1. stack \in Seq(Frames)
  BY DEF TypeOK, ConnTypes
<1>2. CASE rest = <<>>
  <2>1. stack' = stack /\ output' = output
    BY <1>2 DEF KeepRest, conn
  <2>2. Elems(rest) = {}
    BY <1>2 DEF Elems
  <2>3. QED  BY <2>1, <2>2
<1>3. CASE rest # <<>> /\ Keep(rest, stack)
  <2>1. stack' = stack /\ output' = append(output, rest)
    BY <1>3 DEF Keep
  <2>2. /\ Elems(Readable(output)) \subseteq Elems(Readable(output'))
        /\ Elems(rest) \subseteq Elems(Readable(output'))
    BY <1>3, <2>1, AppendFlows
  <2>3. QED  BY <2>1, <2>2
<1>4. CASE /\ stack' = <<User("highWater"), Append_(rest)>> \o stack
           /\ UNCHANGED conn
  <2>1. User("highWater") \in Frames /\ Append_(rest) \in Frames
    BY FrameTypes DEF Places
  <2>2. Append_(rest).frame = "append" /\ Append_(rest).bytes = rest
    BY DEF Append_
  <2>3. ASSUME NEW x, Holding(x, stack) \/ x \in Elems(rest) PROVE Holding(x, stack')
    BY <1>1, <1>4, <2>1, <2>2, <2>3, HoldingPush
  <2>4. output' = output
    BY <1>4 DEF conn
  <2>5. QED  BY <2>3, <2>4
<1>5. QED  BY <1>2, <1>3, <1>4 DEF KeepRest

\* A send loses nothing, of its own bytes either.
LEMMA SendFlows ==
  ASSUME TypeOK, state # "kDisconnected", NEW m \in Msgs, NEW queue,
         sendInLoop(m, stack, queue)
  PROVE  /\ Flows
         /\ \A x \in Elems(Payload(m)) : Reached(x)'
<1>1. /\ Payload(m) \in Seq(Bytes) /\ Len(Payload(m)) = Size[m]
      /\ sent \in Seq(Bytes)
  BY PayloadType DEF ByteSeqs, TypeOK, KernelTypes
<1>2. ASSUME NEW rest \in ByteSeqs, KeepRest(rest, stack), NEW part \in Seq(Bytes),
             sent' = sent \o part \/ (sent' = sent /\ part = <<>>),
             Elems(Payload(m)) = Elems(part) \cup Elems(rest)
      PROVE  Flows /\ \A x \in Elems(Payload(m)) : Reached(x)'
  <2>1. Elems(sent') = Elems(sent) \cup Elems(part)
    <3>1. CASE sent' = sent \o part
      BY <1>1, <1>2, <3>1, ElemsConcat
    <3>2. CASE sent' = sent /\ part = <<>>
      <4>1. Elems(part) = {}
        BY <3>2 DEF Elems
      <4>2. QED  BY <3>2, <4>1
    <3>3. QED  BY <1>2, <3>1, <3>2
  <2>2. /\ Elems(Readable(output)) \subseteq Elems(Readable(output'))
        /\ \A x : Holding(x, stack) => Holding(x, stack')
        /\ \A x \in Elems(rest) : x \in Elems(Readable(output')) \/ Holding(x, stack')
    BY <1>2, KeepRestFlows
  <2>3. /\ \A x : Reached(x)' <=> (x \in Elems(sent') \cup Elems(Readable(output')) \/ Holding(x, stack'))
        /\ \A x : Taken(x)' <=> x \in Elems(sent') \cup Elems(Readable(output'))
    BY FlowPrimes
  <2>4. Flows
    BY <2>1, <2>2, <2>3 DEF Flows, Reached, Taken, Elems
  <2>5. QED  BY <1>2, <2>1, <2>2, <2>3, <2>4
<1>3. CASE Writing \/ readableBytes(output) # 0
  <2>1. KeepRest(Payload(m), stack) /\ sent' = sent
    BY <1>3 DEF sendInLoop, kernel
  <2>2. <<>> \in Seq(Bytes) /\ Elems(<<>>) = {}
    BY EmptySeq DEF Elems
  <2>3. QED  BY <1>1, <1>2, <2>1, <2>2 DEF ByteSeqs
<1>4. CASE ~(Writing \/ readableBytes(output) # 0)
  <2>1. PICK n \in Written(Size[m]) :
          /\ sent' = sent \o SubSeq(Payload(m), 1, n)
          /\ KeepRest(SubSeq(Payload(m), n + 1, Size[m]), stack)
    BY <1>4 DEF sendInLoop
  <2>2. n \in 0..Len(Payload(m))
    BY <1>1, <2>1, PayloadType, WrittenRange
  <2>3. /\ SubSeq(Payload(m), n + 1, Size[m]) \in ByteSeqs
        /\ SubSeq(Payload(m), 1, n) \in Seq(Bytes)
    BY <1>1, <2>2, Parts DEF ByteSeqs
  <2>4. Elems(Payload(m)) = Elems(SubSeq(Payload(m), 1, n))
                            \cup Elems(SubSeq(Payload(m), n + 1, Size[m]))
    BY <1>1, <2>2, ElemsSplit
  <2>5. QED  BY <1>2, <2>1, <2>3, <2>4
<1>5. QED  BY <1>3, <1>4

\* handleWrite loses nothing, and empties the buffer before it ends the stream.
LEMMA WriteFlows ==
  ASSUME TypeOK, handleWrite
  PROVE  Flows /\ (~fin /\ fin' => Readable(output') = <<>>)
<1> DEFINE old == Readable(output)
           new == Readable(output')
<1>1. /\ WellFormed(output) /\ old \in Seq(Bytes)
      /\ Len(old) = readableBytes(output) /\ Len(old) \in Nat
  BY OutputFacts DEF ByteSeqs
<1>2. sent \in Seq(Bytes) /\ stack' = stack
  BY DEF handleWrite, TypeOK, KernelTypes, ByteSeqs
<1>3. CASE UNCHANGED <<sent, output>> /\ fin' = fin
  BY <1>2, <1>3 DEF Flows, Taken, Reached
<1>4. CASE Writing
  <2>1. PICK n \in Written(Len(old)) :
          /\ sent' = sent \o SubSeq(old, 1, n)
          /\ output' = IF n > 0 THEN retrieve(output, n) ELSE output
          /\ fin' = (fin \/ (n > 0 /\ n = Len(old) /\ state = "kDisconnecting"))
    <3> HIDE DEF old, new
    <3>1. PICK n \in Written(readableBytes(output)) :
            /\ TakeOut(n)
            /\ fin' = (fin \/ (n > 0 /\ n = readableBytes(output) /\ state = "kDisconnecting"))
      BY <1>4 DEF handleWrite
    <3>2. QED  BY <1>1, <3>1 DEF TakeOut, old
  <2>2. n \in 0..Len(old)
    BY <1>1, <2>1, WrittenRange
  <2>3. SubSeq(old, 1, n) \in Seq(Bytes) /\ (n = Len(old) => SubSeq(old, n + 1, Len(old)) = <<>>)
    BY <1>1, <2>2, Parts
  <2>4. new = SubSeq(old, n + 1, Len(old))
    <3>1. CASE n > 0
      <4>1. n \in 0..readableBytes(output)
        BY <1>1, <2>2
      <4>2. output' = retrieve(output, n)
        BY <2>1, <3>1
      <4>3. QED  BY <1>1, <4>1, <4>2, RetrieveReadable
    <3>2. CASE ~(n > 0)
      <4>1. n = 0
        BY <1>1, <2>2, <3>2
      <4>2. SubSeq(old, n + 1, Len(old)) = old
        BY <1>1, <2>2, <4>1, Parts
      <4>3. output' = output
        BY <2>1, <3>2
      <4>4. QED  BY <4>2, <4>3
    <3>3. QED  BY <3>1, <3>2
  <2> HIDE DEF old, new
  <2>5. /\ Elems(sent') = Elems(sent) \cup Elems(SubSeq(old, 1, n))
        /\ Elems(old) = Elems(SubSeq(old, 1, n)) \cup Elems(new)
    <3> DEFINE part == SubSeq(old, 1, n)
    <3>1. Elems(sent \o part) = Elems(sent) \cup Elems(part)
      <4>1. part \in Seq(Bytes)
        BY <2>3
      <4> HIDE DEF part
      <4>2. QED  BY <1>2, <4>1, ElemsConcat
    <3>2. Elems(old) = Elems(SubSeq(old, 1, n)) \cup Elems(SubSeq(old, n + 1, Len(old)))
      BY <1>1, <2>2, ElemsSplit
    <3>3. QED  BY <2>1, <2>4, <3>1, <3>2
  <2>6. Flows
    <3>1. Elems(Readable(output)) = Elems(SubSeq(old, 1, n)) \cup Elems(Readable(output'))
      BY <2>5 DEF old, new
    <3>2. QED  BY <1>2, <2>5, <3>1, FlowPrimes DEF Flows, Reached, Taken
  <2>7. ASSUME ~fin, fin' PROVE Readable(output') = <<>>
    BY <2>1, <2>3, <2>4, <2>7 DEF new
  <2>8. QED  BY <2>6, <2>7
<1>5. QED  BY <1>3, <1>4 DEF handleWrite, conn, kernel

\* No step loses bytes while the connection stays up, and the stream is ended
\* only when the output buffer is empty.
LEMMA BytesFlow ==
  ASSUME OnceInv, [Next]_vars, Up, Up'
  PROVE  Flows /\ (~fin /\ fin' => Readable(output') = <<>>)
<1>1. /\ TypeOK /\ stack \in Seq(Frames)
      /\ state # "kDisconnected" /\ (~Writing => Readable(output) = <<>>)
  BY OutputFacts DEF OnceInv, TypeOK, ConnTypes, Up, WritingIffBuffered
<1>2. ASSUME NEW m \in Msgs, NEW queue \in Seq(Functors), sendInLoop(m, stack, queue)
      PROVE  Flows /\ fin' = fin
  BY <1>1, <1>2, SendFlows, SendEffect
<1>3. CASE \E m \in Msgs : UserSend(m)
  BY <1>1, <1>2, <1>3 DEF UserSend, TypeOK, LoopTypes
<1>4. CASE RunSend
  BY <1>1, <1>2, <1>4, RunSends
<1>5. CASE handleWrite
  BY <1>1, <1>5, WriteFlows
<1>6. ASSUME UNCHANGED <<sent, output, stack>> PROVE Flows
  BY <1>6 DEF Flows, Reached, Taken
<1>7. CASE UserShutdown \/ RunShutdown
  <2>1. UNCHANGED <<sent, output, stack>> /\ fin' = (fin \/ ~Writing)
    BY <1>7 DEF UserShutdown, RunShutdown, shutdownInLoop, conn
  <2>2. QED  BY <1>1, <1>6, <2>1
<1>8. CASE CalmStep /\ UNCHANGED <<sent, fin>>
  <2>1. CASE Stays \/ HalfCloses
    BY <1>6, <1>8, <2>1 DEF Stays, HalfCloses, core
  <2>2. CASE stack = <<>> /\ output' = output
    <3>1. \A x : ~Holding(x, stack)
      BY <2>2 DEF Holding
    <3>2. QED  BY <1>8, <2>2, <3>1 DEF Flows, Reached, Taken
  <2>3. CASE Returns
    <3>1. stack # <<>> /\ Head(stack).frame # "append" /\ stack' = Tail(stack) /\ output' = output
      BY <2>3 DEF Returns, ResumeClose, ResumeDestroy, Resumes, core
    <3>2. \A x : Holding(x, stack) => Holding(x, stack')
      BY <1>1, <3>1, HoldingPop
    <3>3. QED  BY <1>8, <3>1, <3>2 DEF Flows, Reached, Taken
  <2>4. CASE AddsLater
    <3>1. /\ stack # <<>> /\ Head(stack).frame = "append" /\ stack' = Tail(stack)
          /\ output' = append(output, Head(stack).bytes)
      BY <2>4 DEF AddsLater, Adds
    <3>2. Head(stack).bytes \in ByteSeqs \ {<<>>}
      <4>1. Head(stack) \in SolidFrames
        BY <3>1, Pop DEF OnceInv, HeldInv
      <4>2. QED  BY <3>1, <4>1, FunctorTypes DEF SolidFrames
    <3>3. /\ Elems(Readable(output)) \subseteq Elems(Readable(output'))
          /\ Elems(Head(stack).bytes) \subseteq Elems(Readable(output'))
      BY <1>1, <3>1, <3>2, AppendFlows
    <3>4. \A x : Holding(x, stack) => Holding(x, stack') \/ x \in Elems(Readable(output'))
      BY <1>1, <3>1, <3>3, HoldingPop
    <3>5. sent' = sent /\ fin' = fin
      BY <1>8
    <3>6. Flows
      BY <3>3, <3>4, <3>5, FlowPrimes DEF Flows, Reached, Taken
    <3>7. QED  BY <3>5, <3>6
  <2>5. ~Opens /\ ~Closes /\ ~ClosesAtLast
    BY DEF Opens, Closes, ClosesAtLast, Up
  <2>6. (\E place : CallsBack(place)) \/ Removes => stack = <<>> /\ output' = output
    BY DEF CallsBack, Removes, core
  <2>7. QED  BY <1>8, <2>1, <2>2, <2>3, <2>4, <2>5, <2>6 DEF CalmStep
<1>9. QED
  BY <1>1, <1>3, <1>4, <1>5, <1>7, <1>8, CalmSteps, WireSteps DEF OnceInv, ThreadsInv

-----------------------------------------------------------------------------
(* What a thread sent before its shutdown leaves before the end *)

\* Without this, a shutdown in the high water callback ends the stream before
\* the bytes of the send that called it.
HighWaterKeepsWriting == "shutdown" \notin Calls["highWater"]

\* No thread is in the middle of the call, and no functor of it waits.
NoCall(op) ==
  /\ \A t \in Threads : pc[t] # op
  /\ pending \in Seq(FunctorsBut(op))

\* Before shutdown has had its effect, nothing of it is there.
FinInv == state \in {"kConnecting", "kConnected"} => ~fin /\ NoCall("shutdown")

\* Before a message is on its way, nobody has sent it.
NewInv ==
  /\ state = "kConnecting" => \A m \in Msgs : by[m] = "nobody"
  /\ \A m \in unsent : by[m] = "nobody"
  /\ \A t \in Threads : pc[t] = "send" => arg[t] \notin unsent /\ by[arg[t]] = "nobody"
  /\ \A t, u \in Threads : pc[t] = "send" /\ pc[u] = "send" /\ arg[t] = arg[u] => t = u
  /\ \A m \in owed : by[m] # "nobody"

\* Functors hold what other threads have sent, and behind a shutdown nothing
\* that was sent before it.
QueueInv ==
  /\ \A k \in 1..Len(pending) : pending[k].op = "send" => by[pending[k].msg] \in Threads
  /\ \A j, k \in 1..Len(pending) :
       j < k /\ pending[j].op = "shutdown" /\ pending[k].op = "send" => pending[k].msg \notin owed

\* A loop that has ended was between two iterations.
EndedInv == server = "ended" => stack = <<>> /\ dispatch = <<>>

\* A functor holds the message.
Waiting(m) == \E k \in 1..Len(pending) : pending[k] = SendFunctor(m)

\* What has been sent is somewhere.
FlowInv ==
  Up /\ server # "ended" =>
    \A m \in Msgs : by[m] # "nobody" => Waiting(m) \/ \A x \in Elems(Payload(m)) : Reached(x)

FinishedInv == Up /\ fin => \A m \in owed \ late : Elems(Payload(m)) \subseteq Elems(sent)

OwedInv == FinInv /\ NewInv /\ QueueInv /\ EndedInv /\ FlowInv /\ FinishedInv

\* A thread is in shutdown only because it has called it, and in send as well.
LEMMA CallStarts ==
  ASSUME TypeOK, [Next]_vars, NEW t \in Threads
  PROVE  /\ pc'[t] = "shutdown" => pc[t] = "shutdown" \/ state' = "kDisconnecting"
         /\ pc'[t] = "send" =>
              \/ pc[t] = "send" /\ arg'[t] = arg[t]
              \/ \E m \in Msgs : ThreadSend(t, m) /\ arg'[t] = m
<1>1. /\ pc \in [Threads -> {"none", "holds", "send", "shutdown", "checked", "forceClose"}]
      /\ arg \in [Threads -> Msgs \cup {"none"}]
  BY DEF TypeOK, ThreadTypes
<1>2. arg' = arg \/ \E u \in Threads, m \in Msgs : ThreadSend(u, m)
  <2>1. ASSUME UserCalls \/ UserReturn \/ ResumeSend \/ ResumeClose \/ ResumeDestroy PROVE arg' = arg
    BY <2>1 DEF UserCalls, UserSend, UserShutdown, UserForceClose, UserReturn, ResumeSend,
       ResumeClose, ResumeDestroy, threads
  <2>2. ASSUME NEW u \in Threads, ThreadShutdown(u) \/ ThreadForceClose(u) \/ Drop(u) \/ ThreadGoesOn(u)
        PROVE  arg' = arg
    BY <2>2 DEF ThreadGoesOn, ThreadShutdown, ThreadForceClose, Drop, SetDisconnecting, QueueCall
  <2>3. ASSUME \/ StartRound \/ EndRound \/ connectEstablished \/ RunSend \/ RunShutdown
               \/ RunForceClose \/ RunWriteComplete \/ RunDestroyed
        PROVE  arg' = arg
    BY <2>3 DEF StartRound, EndRound, connectEstablished, RunSend, RunShutdown, RunForceClose,
       RunWriteComplete, RunDestroyed, connectDestroyed, threads
  <2>4. ASSUME \/ Poll \/ HandleOther \/ handleRead \/ handleWrite \/ ServerRemove \/ KernelDrains
               \/ ServerDestroy \/ ServerDestroyInLoop \/ LoopEnds
               \/ PeerSends \/ PeerCloses \/ PeerResets
        PROVE  arg' = arg
    BY <2>4 DEF Poll, HandleOther, handleRead, handleWrite, ServerRemove, KernelDrains, ServerDestroy,
       ServerDestroyInLoop, connectDestroyed, LoopEnds, PeerSends, PeerCloses, PeerResets, threads
  <2>5. UNCHANGED vars => arg' = arg
    BY DEF vars, threads
  <2>6. QED  BY <2>1, <2>2, <2>3, <2>4, <2>5 DEF Next, LoopStep, Environment, Thread
<1>3. ASSUME NEW u \in Threads, NEW m \in Msgs, ThreadSend(u, m)
      PROVE  IF u = t THEN pc'[t] = "send" /\ arg'[t] = m ELSE pc'[t] = pc[t] /\ arg'[t] = arg[t]
  BY <1>1, <1>3 DEF ThreadSend, ThreadGoto
<1>4. CASE arg' = arg
  <2>1. CASE pc' = pc
    BY <1>4, <2>1
  <2>2. CASE connectEstablished
    BY <1>1, <1>4, <2>2 DEF connectEstablished
  <2>3. ASSUME NEW u \in Threads, Thread(u)
        PROVE  \/ pc'[t] = pc[t] \/ pc'[t] \notin {"send", "shutdown"}
               \/ pc'[t] = "shutdown" /\ state' = "kDisconnecting"
               \/ \E m \in Msgs : ThreadSend(u, m)
    BY <1>1, <2>3 DEF Thread, ThreadShutdown, ThreadForceClose, Drop, ThreadGoto
  <2>4. ASSUME NEW u \in Threads, ThreadGoesOn(u)
        PROVE  pc'[t] = pc[t] \/ pc'[t] \notin {"send", "shutdown"}
    BY <1>1, <2>4 DEF ThreadGoesOn, SetDisconnecting, QueueCall, ThreadGoto
  <2>5. QED  BY <1>3, <1>4, <2>1, <2>2, <2>3, <2>4, ThreadSteps
<1>5. QED  BY <1>2, <1>3, <1>4

\* The functors of the next state are those of this one, the first of them
\* perhaps gone, and perhaps a new one at the end.
LEMMA QueueMoves ==
  ASSUME TypeOK, [Next]_vars
  PROVE  \E d \in {0, 1} : \A i \in 1..Len(pending') :
           \/ i + d \in 1..Len(pending) /\ pending'[i] = pending[i + d]
           \/ /\ i = Len(pending')
              /\ \/ pending'[i].op \in {"writeComplete", "destroyed"}
                 \/ \E t \in Threads :
                      /\ QueueCall(t)
                      /\ pending'[i] = IF pc[t] = "send" THEN SendFunctor(arg[t])
                                                         ELSE Functor(pc[t])
<1> DEFINE New(f) == \/ f.op \in {"writeComplete", "destroyed"}
                     \/ \E t \in Threads :
                          /\ QueueCall(t)
                          /\ f = IF pc[t] = "send" THEN SendFunctor(arg[t]) ELSE Functor(pc[t])
           Moved(q, d) == \A i \in 1..Len(q) : \/ i + d \in 1..Len(pending) /\ q[i] = pending[i + d]
                                               \/ i = Len(q) /\ New(q[i])
<1> SUFFICES \E d \in {0, 1} : Moved(pending', d)
  BY DEF New
<1>1. pending \in Seq(Functors) /\ Len(pending) \in Nat
  BY LenProperties DEF TypeOK, LoopTypes
<1>2. New(Functor("writeComplete")) /\ New(Functor("destroyed"))
  BY DEF Functor
<1> HIDE DEF New
<1>3. ASSUME NEW q \in Seq(Functors), NEW d \in {0, 1}, NEW f, New(f),
             \A i \in 1..Len(q) : i + d \in 1..Len(pending) /\ q[i] = pending[i + d]
      PROVE  Moved(q, d) /\ Moved(Append(q, f), d)
  <2>1. /\ Len(Append(q, f)) = Len(q) + 1 /\ Len(q) \in Nat
        /\ \A i \in 1..Len(q) : Append(q, f)[i] = q[i]
        /\ Append(q, f)[Len(q) + 1] = f
    BY LenProperties
  <2> DEFINE r == Append(q, f)
  <2> HIDE DEF r
  <2>2. ASSUME NEW i \in 1..Len(r)
        PROVE  (i + d \in 1..Len(pending) /\ r[i] = pending[i + d]) \/ (i = Len(r) /\ New(r[i]))
    <3>1. CASE i = Len(q) + 1
      BY <1>3, <2>1, <3>1 DEF r
    <3>2. CASE i \in 1..Len(q)
      BY <1>3, <2>1, <3>2 DEF r
    <3>3. QED  BY <2>1, <3>1, <3>2 DEF r
  <2>3. QED  BY <1>3, <2>2 DEF r
<1>4. \A i \in 1..Len(pending) : i + 0 \in 1..Len(pending) /\ pending[i] = pending[i + 0]
  BY <1>1
<1>5. ASSUME NEW op \in Ops, NextFunctor(op)
      PROVE  /\ Tail(pending) \in Seq(Functors)
             /\ \A i \in 1..Len(Tail(pending)) :
                  i + 1 \in 1..Len(pending) /\ Tail(pending)[i] = pending[i + 1]
  <2>1. pending # <<>>
    BY <1>5, NextTypes DEF TypeOK
  <2>2. QED  BY <1>1, <2>1, Pop
<1>6. \A f : New(f) => Moved(pending, 0) /\ Moved(Append(pending, f), 0)
  BY <1>1, <1>3, <1>4
<1>7. ASSUME NEW op \in Ops, NextFunctor(op), NEW f, New(f)
      PROVE  Moved(Tail(pending), 1) /\ Moved(Append(Tail(pending), f), 1)
  <2>1. /\ Tail(pending) \in Seq(Functors)
        /\ \A i \in 1..Len(Tail(pending)) :
             i + 1 \in 1..Len(pending) /\ Tail(pending)[i] = pending[i + 1]
    BY <1>5, <1>7
  <2> HIDE DEF Moved
  <2> DEFINE q == Tail(pending)
  <2> HIDE DEF q
  <2>2. Moved(q, 1) /\ Moved(Append(q, f), 1)
    BY <1>3, <1>7, <2>1 DEF q
  <2>3. QED  BY <2>2 DEF q
<1>8. pending' = <<>> => Moved(pending', 0)
  OBVIOUS
<1> HIDE DEF Moved
<1>9. CASE Waits
  BY <1>2, <1>6, <1>9 DEF Waits
<1>10. CASE QueuesDestroyed \/ QueuesComplete
  BY <1>2, <1>6, <1>10 DEF QueuesDestroyed, QueuesComplete
<1>11. CASE TakesSend
  BY <1>2, <1>7, <1>11 DEF TakesSend, Ops
<1>12. CASE \E op \in Ops : Takes(op)
  BY <1>2, <1>7, <1>12 DEF Takes
<1>13. ASSUME NEW t \in Threads, QueueCall(t) PROVE \E d \in {0, 1} : Moved(pending', d)
  <2> DEFINE f == IF pc[t] = "send" THEN SendFunctor(arg[t]) ELSE Functor(pc[t])
  <2>1. New(f)
    BY <1>13 DEF New
  <2>2. pending' = pending \/ pending' = Append(pending, f)
    BY <1>13 DEF QueueCall
  <2> HIDE DEF f
  <2>3. QED  BY <1>6, <2>1, <2>2
<1>14. CASE LoopEnds
  BY <1>8, <1>14 DEF LoopEnds
<1>15. QED
  BY <1>9, <1>10, <1>11, <1>12, <1>13, <1>14, FunctorSteps DEF FunctorStep

\* A functor that holds a message waits until it runs or the loop ends.
LEMMA WaitsOn ==
  ASSUME TypeOK, [Next]_vars, NEW m \in Msgs, Waiting(m)
  PROVE  \/ Waiting(m)'
         \/ LoopEnds
         \/ RunSend /\ Head(pending).msg = m
<1> DEFINE In(q) == \E k \in 1..Len(q) : q[k] = SendFunctor(m)
<1> SUFFICES \/ In(pending')
             \/ LoopEnds
             \/ RunSend /\ Head(pending).msg = m
  BY DEF Waiting, SendFunctor
<1>1. pending \in Seq(Functors) /\ In(pending)
  BY DEF TypeOK, LoopTypes, Waiting
<1>2. ASSUME NEW q \in Seq(Functors), In(q), NEW f PROVE In(Append(q, f))
  <2>1. /\ Len(Append(q, f)) = Len(q) + 1 /\ Len(q) \in Nat
        /\ \A i \in 1..Len(q) : Append(q, f)[i] = q[i]
    BY LenProperties
  <2>2. PICK k \in 1..Len(q) : q[k] = SendFunctor(m)
    BY <1>2
  <2>3. k \in 1..Len(Append(q, f)) /\ Append(q, f)[k] = SendFunctor(m)
    BY <2>1, <2>2
  <2>4. QED  BY <2>3
<1>3. ASSUME NEW op \in Ops, NextFunctor(op)
      PROVE  /\ Tail(pending) \in Seq(Functors)
             /\ In(Tail(pending)) \/ (op = "send" /\ Head(pending).msg = m)
  <2>1. pending # <<>> /\ Head(pending) = pending[1] /\ pending[1].op = op
    BY <1>3, NextTypes DEF TypeOK
  <2>2. /\ Tail(pending) \in Seq(Functors) /\ Len(pending) \in Nat
        /\ Len(Tail(pending)) = Len(pending) - 1
        /\ \A i \in 1..Len(Tail(pending)) : Tail(pending)[i] = pending[i + 1]
    BY <1>1, <2>1, Pop
  <2>3. PICK k \in 1..Len(pending) : pending[k] = SendFunctor(m)
    BY <1>1
  <2>4. CASE k = 1
    BY <2>1, <2>2, <2>3, <2>4 DEF SendFunctor
  <2>5. CASE k # 1
    <3>1. k - 1 \in 1..Len(Tail(pending)) /\ (k - 1) + 1 = k
      BY <2>2, <2>5
    <3>2. Tail(pending)[k - 1] = SendFunctor(m)
      BY <2>2, <2>3, <3>1
    <3>3. QED  BY <2>2, <3>1, <3>2
  <2>6. QED  BY <2>4, <2>5
<1> HIDE DEF In
<1>4. CASE Waits \/ QueuesDestroyed \/ QueuesComplete
  BY <1>1, <1>2, <1>4 DEF Waits, QueuesDestroyed, QueuesComplete
<1>5. CASE TakesSend
  <2>1. /\ RunSend /\ pending' = Append(Tail(pending), Functor("writeComplete"))
        /\ Tail(pending) \in Seq(Functors)
        /\ In(Tail(pending)) \/ Head(pending).msg = m
    BY <1>3, <1>5 DEF TakesSend, Ops
  <2>2. QED  BY <1>2, <2>1
<1>6. CASE \E op \in Ops : Takes(op)
  BY <1>3, <1>6 DEF Takes
<1>7. ASSUME NEW t \in Threads, QueueCall(t) PROVE In(pending')
  <2> DEFINE f == IF pc[t] = "send" THEN SendFunctor(arg[t]) ELSE Functor(pc[t])
  <2>1. pending' = pending \/ pending' = Append(pending, f)
    BY <1>7 DEF QueueCall
  <2> HIDE DEF f
  <2>2. QED  BY <1>1, <1>2, <2>1
<1>8. QED
  BY <1>4, <1>5, <1>6, <1>7, FunctorSteps DEF FunctorStep

\* What has been sent, by whom, what is owed and what is late changes in these
\* steps.
LEMMA HistorySteps ==
  ASSUME [Next]_vars
  PROVE  /\ \/ UNCHANGED <<unsent, by, owed>>
            \/ \E m \in Msgs : UserSend(m)
            \/ UserShutdown
            \/ \E t \in Threads : ThreadShutdown(t) \/ QueueCall(t) \/ \E m \in Msgs : ThreadSend(t, m)
         /\ late' = late \/ handleWrite
<1> DEFINE Same == UNCHANGED <<unsent, by, owed, late>>
<1>1. ASSUME UserForceClose \/ UserReturn \/ ResumeSend \/ ResumeClose \/ ResumeDestroy
      PROVE  Same
  BY <1>1 DEF UserForceClose, UserReturn, ResumeSend, ResumeClose, ResumeDestroy, history
<1>2. ASSUME NEW t \in Threads, ThreadForceClose(t) \/ Drop(t) \/ SetDisconnecting(t)
      PROVE  Same
  BY <1>2 DEF ThreadForceClose, Drop, SetDisconnecting, history
<1>3. ASSUME \/ StartRound \/ EndRound \/ connectEstablished \/ RunSend \/ RunShutdown
             \/ RunForceClose \/ RunWriteComplete
      PROVE  Same
  BY <1>3 DEF StartRound, EndRound, connectEstablished, RunSend, RunShutdown, RunForceClose,
     RunWriteComplete, history
<1>4. ASSUME RunDestroyed \/ ServerDestroyInLoop \/ LoopEnds
      PROVE  Same
  BY <1>4 DEF RunDestroyed, ServerDestroyInLoop, connectDestroyed, LoopEnds, history
<1>5. ASSUME Poll \/ HandleOther \/ handleRead
      PROVE  Same
  BY <1>5 DEF Poll, HandleOther, handleRead, history
<1>6. ASSUME handleWrite PROVE UNCHANGED <<unsent, by, owed>>
  BY <1>6 DEF handleWrite
<1>7. ASSUME ServerRemove \/ KernelDrains \/ ServerDestroy \/ PeerSends \/ PeerCloses \/ PeerResets
      PROVE  Same
  BY <1>7 DEF ServerRemove, KernelDrains, ServerDestroy, PeerSends, PeerCloses, PeerResets, history
<1>8. UNCHANGED vars => Same
  BY DEF vars, history
<1>9. ASSUME UserShutdown \/ \E m \in Msgs : UserSend(m) PROVE late' = late
  BY <1>9 DEF UserShutdown, UserSend
<1>10. ASSUME NEW t \in Threads, ThreadShutdown(t) \/ QueueCall(t) \/ \E m \in Msgs : ThreadSend(t, m)
       PROVE  late' = late
  BY <1>10 DEF ThreadShutdown, QueueCall, ThreadSend
<1>11. QED
  BY <1>1, <1>2, <1>3, <1>4, <1>5, <1>6, <1>7, <1>8, <1>9, <1>10
     DEF Next, UserCalls, LoopStep, Environment, Thread, ThreadGoesOn

\* Whoever sends a message is recorded once: when the loop sends it itself, or
\* when the functor is queued that holds it.
LEMMA BySteps ==
  ASSUME TypeOK, NewInv, [Next]_vars, NEW m \in Msgs
  PROVE  \/ by'[m] = by[m]
         \/ by[m] = "nobody" /\ by'[m] = "io" /\ UserSend(m)
         \/ /\ by[m] = "nobody" /\ by'[m] \in Threads
            /\ pending' = Append(pending, SendFunctor(m))
<1>1. by \in [Msgs -> Threads \cup {"io", "nobody"}]
  BY DEF TypeOK, HistoryTypes
<1>2. CASE by' = by
  BY <1>2
<1>3. ASSUME NEW n \in Msgs, UserSend(n)
      PROVE  by'[m] = by[m] \/ (by[m] = "nobody" /\ by'[m] = "io" /\ UserSend(m))
  BY <1>1, <1>3 DEF UserSend, NewInv
<1>4. CASE UserShutdown \/ \E t \in Threads : ThreadShutdown(t) \/ \E n \in Msgs : ThreadSend(t, n)
  BY <1>2, <1>4 DEF UserShutdown, ThreadShutdown, ThreadSend
<1>5. ASSUME NEW t \in Threads, QueueCall(t)
      PROVE  \/ by'[m] = by[m]
             \/ /\ by[m] = "nobody" /\ by'[m] \in Threads
                /\ pending' = Append(pending, SendFunctor(m))
  <2>1. CASE by' = by
    BY <2>1
  <2>2. CASE pc[t] = "send" /\ by' = [by EXCEPT ![arg[t]] = t] /\ pending' = Append(pending, SendFunctor(arg[t]))
    BY <1>1, <2>2 DEF NewInv
  <2>3. QED  BY <1>5, <2>1, <2>2 DEF QueueCall
<1>6. QED  BY <1>2, <1>3, <1>4, <1>5, HistorySteps

\* What is owed is settled by shutdown alone, which finds the connection open.
LEMMA OwedSteps ==
  ASSUME [Next]_vars
  PROVE  \/ owed' = owed
         \/ /\ state = "kConnected" /\ by' = by /\ pending' = pending /\ unsent' = unsent
            /\ \A m \in owed' : m \in Msgs /\ by[m] \in Threads \cup {"io"}
<1>1. ASSUME UserShutdown \/ \E t \in Threads : ThreadShutdown(t)
      PROVE  /\ state = "kConnected" /\ by' = by /\ pending' = pending /\ unsent' = unsent
             /\ \A m \in owed' : m \in Msgs /\ by[m] \in Threads \cup {"io"}
  BY <1>1 DEF UserShutdown, ThreadShutdown, loop, polled
<1>2. ASSUME \/ \E m \in Msgs : UserSend(m)
             \/ \E t \in Threads : QueueCall(t) \/ \E m \in Msgs : ThreadSend(t, m)
      PROVE  owed' = owed
  BY <1>2 DEF UserSend, QueueCall, ThreadSend
<1>3. QED  BY <1>1, <1>2, HistorySteps

\* Every step keeps the order of shutdown: state_, then the functor, then the
\* end of the stream.
LEMMA FinStep ==
  ASSUME TypeOK, TypeOK', ThreadsInv, FinInv, [Next]_vars
  PROVE  FinInv'
<1> SUFFICES ASSUME state' \in {"kConnecting", "kConnected"}
             PROVE  ~fin' /\ NoCall("shutdown")'
  BY DEF FinInv
<1>1. state \in {"kConnecting", "kConnected"}
  BY ConnSteps DEF ThreadsInv, ConnStep, CalmStep, Stays, Opens, HalfCloses, Returns,
     CallsBack, AddsAtOnce, AddsLater, Adds, HoldsBack, Closes, ClosesAtLast, Removes, Flushes,
     core
<1>2. ~fin /\ NoCall("shutdown")
  BY <1>1 DEF FinInv
<1>3. NoCall("shutdown")'
  <2>1. \A t \in Threads : pc'[t] # "shutdown"
    BY <1>2, CallStarts DEF NoCall
  <2>2. pending' \in Seq(Functors) /\ pending \in Seq(Functors)
    BY DEF TypeOK, LoopTypes
  <2>3. PICK d \in {0, 1} : \A i \in 1..Len(pending') :
          \/ i + d \in 1..Len(pending) /\ pending'[i] = pending[i + d]
          \/ /\ i = Len(pending')
             /\ \/ pending'[i].op \in {"writeComplete", "destroyed"}
                \/ \E t \in Threads :
                     /\ QueueCall(t)
                     /\ pending'[i] = IF pc[t] = "send" THEN SendFunctor(arg[t])
                                                        ELSE Functor(pc[t])
    BY QueueMoves
  <2>4. ASSUME NEW i \in 1..Len(pending') PROVE pending'[i].op # "shutdown"
    <3>1. CASE i + d \in 1..Len(pending) /\ pending'[i] = pending[i + d]
      <4>1. pending[i + d] \in FunctorsBut("shutdown")
        BY <1>2, <3>1, LenProperties DEF NoCall
      <4>2. QED  BY <3>1, <4>1 DEF FunctorsBut
    <3>2. CASE pending'[i].op \in {"writeComplete", "destroyed"}
      BY <3>2
    <3>3. ASSUME NEW t \in Threads,
                 pending'[i] = IF pc[t] = "send" THEN SendFunctor(arg[t]) ELSE Functor(pc[t])
          PROVE  pending'[i].op # "shutdown"
      BY <1>2, <3>3 DEF NoCall, SendFunctor, Functor
    <3>4. QED  BY <2>3, <3>1, <3>2, <3>3
  <2>5. \A i \in 1..Len(pending') : pending'[i] \in FunctorsBut("shutdown")
    BY <2>2, <2>4, LenProperties DEF FunctorsBut
  <2>6. pending' \in Seq(FunctorsBut("shutdown"))
    BY <2>2, <2>5, SeqDef, LenProperties
  <2>7. QED  BY <2>1, <2>6 DEF NoCall, FunctorsBut
<1>4. ~UserShutdown
  BY DEF UserShutdown
<1>5. ~RunShutdown
  <2> SUFFICES ASSUME NextFunctor("shutdown") PROVE FALSE
    BY DEF RunShutdown
  <2>1. pending # <<>> /\ Head(pending).op = "shutdown"
    BY NextTypes DEF TypeOK, NextFunctor, Ops
  <2>2. Head(pending) \in FunctorsBut("shutdown")
    BY <1>2, <2>1, Pop DEF NoCall
  <2>3. QED  BY <2>1, <2>2 DEF FunctorsBut
<1>6. ASSUME NEW m \in Msgs, UserSend(m) PROVE fin' = fin
  BY <1>6, SendEffect DEF UserSend, TypeOK, ConnTypes, LoopTypes
<1>7. RunSend => fin' = fin
  BY RunSends, SendEffect DEF TypeOK, ConnTypes
<1>8. handleWrite => fin' = fin
  BY <1>1 DEF handleWrite, kernel, TypeOK, KernelTypes
<1>9. QED  BY <1>2, <1>3, <1>4, <1>5, <1>6, <1>7, <1>8, WireSteps

\* Every message is recorded when it is sent, and not before.
LEMMA NewStep ==
  ASSUME TypeOK, ThreadsInv, ConnectingInv, NewInv, [Next]_vars
  PROVE  NewInv'
<1>1. /\ by \in [Msgs -> Threads \cup {"io", "nobody"}]
      /\ \A t \in Threads : pc[t] = "send" => arg[t] \in Msgs
      /\ unsent \subseteq Msgs /\ owed \subseteq Msgs
      /\ "io" \notin Threads /\ "nobody" \notin Threads
  BY ConnectionAssumption DEF TypeOK, HistoryTypes, ThreadTypes
<1>2. ASSUME state' = "kConnecting", NEW m \in Msgs PROVE by'[m] = "nobody"
  <2>1. state = "kConnecting"
    BY <1>2, ConnSteps DEF ThreadsInv, ConnStep, CalmStep, Stays, Opens, HalfCloses, Returns,
       CallsBack, AddsAtOnce, AddsLater, Adds, HoldsBack, Closes, ClosesAtLast, Removes, Flushes,
       core
  <2>2. \A t \in Threads : ~QueueCall(t)
    BY <2>1 DEF ConnectingInv, QueueCall
  <2>3. by' = by
    BY <2>1, <2>2, HistorySteps DEF UserSend, UserShutdown, ThreadShutdown, ThreadSend
  <2>4. QED  BY <2>1, <2>3 DEF NewInv
<1>3. unsent' \subseteq unsent
  BY HistorySteps DEF UserSend, UserShutdown, ThreadShutdown, ThreadSend, QueueCall
<1>4. ASSUME NEW m \in unsent' PROVE by'[m] = "nobody"
  <2>1. m \in unsent /\ by[m] = "nobody" /\ m \in Msgs
    BY <1>1, <1>3 DEF NewInv
  <2>2. ~UserSend(m)
    BY DEF UserSend
  <2>3. ASSUME NEW t \in Threads, QueueCall(t) PROVE by'[m] = by[m]
    <3>1. pc[t] = "send" => arg[t] # m
      BY <2>1 DEF NewInv
    <3>2. QED  BY <1>1, <2>1, <2>3, <3>1 DEF QueueCall
  <2>4. ASSUME NEW n \in Msgs, UserSend(n) PROVE by'[m] = by[m]
    BY <1>1, <2>1, <2>2, <2>4 DEF UserSend
  <2>5. QED
    BY <2>1, <2>3, <2>4, HistorySteps DEF UserShutdown, ThreadShutdown, ThreadSend
<1>5. ASSUME NEW t \in Threads, pc'[t] = "send" PROVE arg'[t] \notin unsent' /\ by'[arg'[t]] = "nobody"
  <2>1. ASSUME NEW m \in Msgs, ThreadSend(t, m), arg'[t] = m
        PROVE  arg'[t] \notin unsent' /\ by'[arg'[t]] = "nobody"
    BY <2>1 DEF ThreadSend, NewInv
  <2>2. CASE pc[t] = "send" /\ arg'[t] = arg[t]
    <3> DEFINE m == arg[t]
    <3>1. m \in Msgs /\ m \notin unsent /\ by[m] = "nobody"
      BY <1>1, <2>2 DEF NewInv
    <3>2. ~UserSend(m)
      BY <3>1 DEF UserSend
    <3>3. ASSUME NEW u \in Threads, QueueCall(u) PROVE by'[m] = by[m]
      <4>1. CASE u = t
        BY <1>5, <2>2, <3>3, <4>1 DEF QueueCall, ThreadGoto, TypeOK, ThreadTypes
      <4>2. CASE u # t
        <5>1. pc[u] = "send" => arg[u] # m
          BY <2>2, <4>2 DEF NewInv
        <5>2. QED  BY <1>1, <3>1, <3>3, <5>1 DEF QueueCall
      <4>3. QED  BY <4>1, <4>2
    <3>4. ASSUME NEW n \in Msgs, UserSend(n) PROVE by'[m] = by[m]
      BY <1>1, <3>1, <3>2, <3>4 DEF UserSend
    <3>5. by'[m] = by[m]
      BY <3>3, <3>4, HistorySteps DEF UserShutdown, ThreadShutdown, ThreadSend
    <3>6. QED  BY <1>3, <2>2, <3>1, <3>5
  <2>3. QED  BY <1>5, <2>1, <2>2, CallStarts
<1>6. ASSUME NEW t \in Threads, NEW u \in Threads, pc'[t] = "send", pc'[u] = "send", arg'[t] = arg'[u]
      PROVE  t = u
  <2>1. ASSUME NEW v \in Threads, NEW m \in Msgs, ThreadSend(v, m)
        PROVE  \A w \in Threads : w # v => pc'[w] = pc[w] /\ arg'[w] = arg[w]
    BY <2>1 DEF ThreadSend, ThreadGoto, TypeOK, ThreadTypes
  <2>2. ASSUME NEW v \in Threads, NEW w \in Threads, NEW m \in Msgs, ThreadSend(v, m), arg'[v] = m,
               pc'[w] = "send", w # v
        PROVE  arg'[w] # m
    <3>1. m \in unsent
      BY <2>2 DEF ThreadSend
    <3>2. pc[w] = "send" /\ arg'[w] = arg[w]
      BY <2>1, <2>2
    <3>3. QED  BY <3>1, <3>2 DEF NewInv
  <2>3. CASE /\ pc[t] = "send" /\ arg'[t] = arg[t]
             /\ pc[u] = "send" /\ arg'[u] = arg[u]
    BY <1>6, <2>3 DEF NewInv
  <2>4. QED  BY <1>6, <2>2, <2>3, CallStarts
<1>7. ASSUME NEW m \in owed' PROVE by'[m] # "nobody"
  <2>1. m \in Msgs
    BY <1>1, OwedSteps
  <2>2. CASE owed' = owed
    <3>1. by[m] # "nobody"
      BY <2>2 DEF NewInv
    <3>2. QED  BY <1>1, <2>1, <3>1, BySteps
  <2>3. CASE owed' # owed
    BY <1>1, <2>3, OwedSteps
  <2>4. QED  BY <2>2, <2>3
<1>8. QED  BY <1>2, <1>4, <1>5, <1>6, <1>7 DEF NewInv

\* What waits keeps its order, and what comes behind a shutdown was sent after it.
LEMMA QueueStep ==
  ASSUME TypeOK, TypeOK', FinInv, NewInv, QueueInv, [Next]_vars
  PROVE  QueueInv'
<1>1. /\ pending \in Seq(Functors) /\ pending' \in Seq(Functors)
      /\ Len(pending) \in Nat /\ Len(pending') \in Nat
      /\ "io" \notin Threads /\ "nobody" \notin Threads
  BY LenProperties, ConnectionAssumption DEF TypeOK, LoopTypes
<1>2. /\ \A k \in 1..Len(pending) : pending[k].op = "send" => pending[k].msg \in Msgs
      /\ \A k \in 1..Len(pending') : pending'[k].op = "send" => pending'[k].msg \in Msgs
  BY <1>1, FunctorTypes, LenProperties
<1>3. PICK d \in {0, 1} : \A i \in 1..Len(pending') :
        \/ i + d \in 1..Len(pending) /\ pending'[i] = pending[i + d]
        \/ /\ i = Len(pending')
           /\ \/ pending'[i].op \in {"writeComplete", "destroyed"}
              \/ \E t \in Threads :
                   /\ QueueCall(t)
                   /\ pending'[i] = IF pc[t] = "send" THEN SendFunctor(arg[t])
                                                      ELSE Functor(pc[t])
  BY QueueMoves
<1>4. ASSUME NEW i \in 1..Len(pending'), NEW t \in Threads, QueueCall(t),
             pending'[i] = IF pc[t] = "send" THEN SendFunctor(arg[t]) ELSE Functor(pc[t]),
             pending'[i].op = "send", ~(i + d \in 1..Len(pending) /\ pending'[i] = pending[i + d])
      PROVE  pending'[i].msg \notin owed' /\ by'[pending'[i].msg] \in Threads
  <2>1. pc[t] = "send" /\ pending'[i].msg = arg[t]
    <3>1. CASE pc[t] = "send"
      <4>1. pending'[i] = SendFunctor(arg[t])
        BY <1>4, <3>1
      <4>2. QED  BY <3>1, <4>1 DEF SendFunctor
    <3>2. CASE pc[t] # "send"
      <4>1. pending'[i] = Functor(pc[t])
        BY <1>4, <3>2
      <4>2. pending'[i].op = pc[t]
        BY <4>1 DEF Functor
      <4>3. QED  BY <1>4, <3>2, <4>2
    <3>3. QED  BY <3>1, <3>2
  <2>2. arg[t] \in Msgs /\ by[arg[t]] = "nobody"
    BY <2>1 DEF NewInv, TypeOK, ThreadTypes
  <2>3. owed' = owed /\ arg[t] \notin owed
    BY <1>4, <2>2 DEF QueueCall, NewInv
  <2>4. server # "ended"
    <3>1. CASE server = "ended"
      <4>1. pending' = pending
        BY <1>4, <3>1 DEF QueueCall
      <4>2. QueueInv
        OBVIOUS
      <4>3. PICK k \in 1..Len(pending) : pending[k].op = "send" /\ pending[k].msg = arg[t]
        BY <1>4, <2>1, <4>1
      <4>4. by[arg[t]] \in Threads
        BY <4>3 DEF QueueInv
      <4>5. QED  BY <1>1, <2>2, <4>4
    <3>2. QED  BY <3>1
  <2>5. by' = [by EXCEPT ![arg[t]] = t]
    BY <1>4, <2>1, <2>4 DEF QueueCall
  <2>6. QED  BY <2>1, <2>2, <2>3, <2>5 DEF TypeOK, HistoryTypes
<1>5. ASSUME NEW k \in 1..Len(pending'), pending'[k].op = "send"
      PROVE  by'[pending'[k].msg] \in Threads
  <2>1. CASE k + d \in 1..Len(pending) /\ pending'[k] = pending[k + d]
    <3>1. by[pending'[k].msg] \in Threads /\ pending'[k].msg \in Msgs
      BY <1>2, <1>5, <2>1 DEF QueueInv
    <3>2. QED  BY <1>1, <3>1, BySteps
  <2>2. CASE ~(k + d \in 1..Len(pending) /\ pending'[k] = pending[k + d])
    <3>1. PICK t \in Threads :
            /\ QueueCall(t)
            /\ pending'[k] = IF pc[t] = "send" THEN SendFunctor(arg[t]) ELSE Functor(pc[t])
      BY <1>3, <1>5, <2>2
    <3>2. QED  BY <1>4, <1>5, <2>2, <3>1
  <2>3. QED  BY <2>1, <2>2
<1>6. ASSUME NEW j \in 1..Len(pending'), NEW k \in 1..Len(pending'),
             j < k, pending'[j].op = "shutdown", pending'[k].op = "send"
      PROVE  pending'[k].msg \notin owed'
  <2>1. j + d \in 1..Len(pending) /\ pending'[j] = pending[j + d]
    <3>1. j # Len(pending')
      BY <1>1, <1>6
    <3>2. QED  BY <1>3, <3>1
  <2>2. state # "kConnected"
    <3> SUFFICES ASSUME NoCall("shutdown") PROVE FALSE
      BY DEF FinInv
    <3>1. pending[j + d] \in FunctorsBut("shutdown")
      BY <2>1, LenProperties DEF NoCall
    <3>2. QED  BY <1>6, <2>1, <3>1 DEF FunctorsBut
  <2>3. owed' = owed
    BY <2>2, OwedSteps
  <2>4. CASE k + d \in 1..Len(pending) /\ pending'[k] = pending[k + d]
    <3>1. j + d < k + d
      BY <1>1, <1>6
    <3>2. QED  BY <1>6, <2>1, <2>3, <2>4, <3>1 DEF QueueInv
  <2>5. CASE ~(k + d \in 1..Len(pending) /\ pending'[k] = pending[k + d])
    <3>1. PICK t \in Threads :
            /\ QueueCall(t)
            /\ pending'[k] = IF pc[t] = "send" THEN SendFunctor(arg[t]) ELSE Functor(pc[t])
      BY <1>3, <1>6, <2>5
    <3>2. QED  BY <1>4, <1>6, <2>5, <3>1
  <2>6. QED  BY <2>4, <2>5
<1>7. QED  BY <1>5, <1>6 DEF QueueInv

\* Once it has ended, the loop runs nothing any more.
LEMMA EndedSteps ==
  ASSUME EndedInv, server = "ended", [Next]_vars
  PROVE  server' = "ended" /\ stack' = <<>> /\ dispatch' = <<>>
<1>1. stack = <<>> /\ dispatch = <<>> /\ ~LoopIdle
  BY DEF EndedInv, LoopIdle
<1>2. ~UserCalls /\ ~UserReturn
  BY <1>1 DEF UserCalls, UserSend, UserShutdown, UserForceClose, UserReturn, UserMay, InUserCode
<1>3. ~ResumeSend /\ ~ResumeClose /\ ~ResumeDestroy
  BY <1>1 DEF ResumeSend, ResumeClose, ResumeDestroy, Resumes
<1>4. /\ ~StartRound /\ ~EndRound /\ ~connectEstablished /\ ~RunSend /\ ~RunShutdown
      /\ ~RunForceClose /\ ~RunWriteComplete /\ ~RunDestroyed
  BY <1>1 DEF StartRound, RoundOver, EndRound, connectEstablished, RunSend, RunShutdown,
     RunForceClose, RunWriteComplete, RunDestroyed, NextFunctor
<1>5. ~Poll /\ ~HandleOther /\ ~handleRead /\ ~handleWrite
  BY <1>1 DEF Poll, RoundOver, HandleOther, handleRead, handleWrite, Dispatches
<1>6. ~ServerDestroyInLoop /\ ~LoopEnds /\ ~ServerDestroy
  BY <1>1 DEF ServerDestroyInLoop, LoopEnds, RoundOver, ServerDestroy
<1>7. ASSUME NEW t \in Threads, Thread(t) \/ ThreadGoesOn(t)
      PROVE  UNCHANGED <<server, stack, dispatch>>
  BY <1>7 DEF Thread, ThreadGoesOn, ThreadSend, ThreadShutdown, ThreadForceClose, Drop,
     SetDisconnecting, QueueCall, loop, polled, owner
<1>8. ASSUME ServerRemove \/ KernelDrains \/ PeerSends \/ PeerCloses \/ PeerResets
      PROVE  UNCHANGED <<server, stack, dispatch>>
  BY <1>8 DEF ServerRemove, KernelDrains, PeerSends, PeerCloses, PeerResets, loop, polled, owner
<1>9. UNCHANGED vars => UNCHANGED <<server, stack, dispatch>>
  BY DEF vars, loop, polled, owner
<1>10. UNCHANGED <<server, stack, dispatch>>
  BY <1>2, <1>3, <1>4, <1>5, <1>6, <1>7, <1>8, <1>9 DEF Next, LoopStep, Environment
<1>11. QED  BY <1>1, <1>10

\* The loop ends in one step, between two iterations.
LEMMA EndedStep ==
  ASSUME EndedInv, [Next]_vars
  PROVE  EndedInv'
<1> SUFFICES ASSUME server' = "ended" PROVE stack' = <<>> /\ dispatch' = <<>>
  BY DEF EndedInv
<1>1. CASE server = "ended"
  BY <1>1, EndedSteps
<1>2. CASE LoopEnds
  BY <1>2 DEF LoopEnds, RoundOver, LoopIdle, polled
<1>3. CASE server # "ended" /\ ~LoopEnds
  <2>1. ~UserCalls /\ ~UserReturn /\ ~ResumeSend /\ ~ResumeClose /\ ~ResumeDestroy
    BY <1>3 DEF UserCalls, UserSend, UserShutdown, UserForceClose, UserReturn, ResumeSend,
       ResumeClose, ResumeDestroy, owner
  <2>2. \A t \in Threads : ~Thread(t) /\ ~ThreadGoesOn(t)
    BY <1>3 DEF Thread, ThreadGoesOn, ThreadSend, ThreadShutdown, ThreadForceClose, Drop,
       SetDisconnecting, QueueCall, owner
  <2>3. /\ ~StartRound /\ ~EndRound /\ ~connectEstablished /\ ~RunSend /\ ~RunShutdown
        /\ ~RunForceClose /\ ~RunWriteComplete /\ ~RunDestroyed
    BY <1>3 DEF StartRound, EndRound, connectEstablished, RunSend, RunShutdown, RunForceClose,
       RunWriteComplete, RunDestroyed, owner
  <2>4. ~Poll /\ ~HandleOther /\ ~handleRead /\ ~handleWrite
    BY <1>3 DEF Poll, HandleOther, handleRead, handleWrite, owner
  <2>5. /\ ~ServerRemove /\ ~KernelDrains /\ ~ServerDestroy /\ ~ServerDestroyInLoop
        /\ ~PeerSends /\ ~PeerCloses /\ ~PeerResets
    BY <1>3 DEF ServerRemove, KernelDrains, ServerDestroy, ServerDestroyInLoop, PeerSends,
       PeerCloses, PeerResets, owner
  <2>6. UNCHANGED vars => server' = server
    BY DEF vars, owner
  <2>7. QED
    BY <1>3, <2>1, <2>2, <2>3, <2>4, <2>5, <2>6 DEF Next, LoopStep, Environment
<1>4. QED  BY <1>1, <1>2, <1>3

\* Users call shutdown where no send waits for its callback.
LEMMA ShutdownHoldsNothing ==
  ASSUME HighWaterKeepsWriting, OnceInv, Up, From("shutdown")
  PROVE  \A x : ~Holding(x, stack)
<1> SUFFICES ASSUME NEW j \in 1..Len(stack), stack[j].frame = "append" PROVE FALSE
  BY DEF Holding
<1>1. stack \in Seq(Frames) /\ Len(stack) \in Nat
  BY LenProperties DEF OnceInv, TypeOK, ConnTypes
<1>2. stack # <<>>
  <2>1. Len(<<>>) = 0
    OBVIOUS
  <2>2. QED  BY <2>1
<1>3. Head(stack) = stack[1]
  BY <1>1, <1>2, Pop
<1>4. stack[1].frame = "user" /\ "shutdown" \in Calls[stack[1].place]
  BY <1>2, <1>3 DEF From
<1>5. 1 \in 1..j - 1
  BY <1>1, <1>4
<1>6. stack[1] = User("highWater")
  BY <1>4, <1>5 DEF OnceInv, AboveInv
<1>7. QED  BY <1>4, <1>6 DEF User, HighWaterKeepsWriting

\* While the connection stays up, what has been sent stays somewhere.
LEMMA FlowStep ==
  ASSUME OnceInv, OwedInv, [Next]_vars
  PROVE  FlowInv'
<1>1. /\ TypeOK /\ ConnStep
      /\ by \in [Msgs -> Threads \cup {"io", "nobody"}]
  BY ConnSteps DEF OnceInv, ThreadsInv, TypeOK, HistoryTypes
<1>2. ASSUME Up', server' # "ended", NEW m \in Msgs, by'[m] # "nobody"
      PROVE  Waiting(m)' \/ \A x \in Elems(Payload(m)) : Reached(x)'
  <2>1. Up
    <3>1. Up \/ (state = "kConnecting" /\ state' = "kConnected")
      BY <1>1, <1>2 DEF ConnStep, CalmStep, Stays, Opens, HalfCloses, Returns, CallsBack,
         AddsAtOnce, AddsLater, Adds, HoldsBack, Closes, ClosesAtLast, Removes, Flushes, core, Up
    <3>2. ASSUME state = "kConnecting", state' = "kConnected" PROVE FALSE
      <4>1. connectEstablished
        BY <1>1, <3>2, ConnectingSteps DEF OnceInv, conn
      <4>2. by' = by
        BY <4>1 DEF connectEstablished
      <4>3. QED  BY <1>2, <3>2, <4>2 DEF OwedInv, NewInv
    <3>3. QED  BY <3>1, <3>2
  <2>2. server # "ended"
    BY <1>2, EndedSteps DEF OwedInv
  <2>3. Flows
    BY <1>2, <2>1, BytesFlow
  <2>4. CASE UserSend(m)
    <3>1. sendInLoop(m, stack, pending) /\ state # "kDisconnected"
      BY <2>4 DEF UserSend
    <3>2. QED  BY <1>1, <3>1, SendFlows
  <2>5. CASE pending' = Append(pending, SendFunctor(m))
    <3>1. Len(pending') \in 1..Len(pending') /\ pending'[Len(pending')] = SendFunctor(m)
      BY <1>1, <2>5, LenProperties DEF TypeOK, LoopTypes
    <3>2. QED  BY <3>1 DEF Waiting, SendFunctor
  <2>6. CASE by'[m] = by[m]
    <3>1. CASE \A x \in Elems(Payload(m)) : Reached(x)
      BY <2>3, <3>1 DEF Flows
    <3>2. CASE Waiting(m)
      <4>1. CASE RunSend /\ Head(pending).msg = m
        <5>1. sendInLoop(m, stack, Tail(pending)) /\ state # "kDisconnected"
          BY <1>1, <2>1, <4>1, RunSends DEF Up
        <5>2. QED  BY <1>1, <5>1, SendFlows
      <4>2. ~LoopEnds
        BY <1>2 DEF LoopEnds
      <4>3. QED  BY <1>1, <3>2, <4>1, <4>2, WaitsOn
    <3>3. QED  BY <1>2, <2>1, <2>2, <2>6, <3>1, <3>2 DEF OwedInv, FlowInv
  <2>7. QED  BY <1>1, <2>4, <2>5, <2>6, BySteps DEF OwedInv
<1>3. QED
  <2>1. Up' /\ server' # "ended" =>
          \A m \in Msgs : by'[m] # "nobody" => Waiting(m)' \/ \A x \in Elems(Payload(m)) : Reached(x)'
    BY <1>2
  <2>2. QED  BY <2>1 DEF FlowInv, Payload, Elems

\* When the stream is ended, nothing that is owed waits but what is late.
LEMMA FinishedStep ==
  ASSUME HighWaterKeepsWriting, OnceInv, OwedInv, FinInv', [Next]_vars
  PROVE  FinishedInv'
<1>1. /\ TypeOK /\ ConnStep
      /\ fin \in BOOLEAN /\ owed \subseteq Msgs
      /\ "io" \notin Threads
  BY ConnSteps, ConnectionAssumption DEF OnceInv, ThreadsInv, TypeOK, HistoryTypes, KernelTypes
<1>2. ASSUME Up', fin', NEW m \in owed', m \notin late' PROVE Elems(Payload(m)) \subseteq Elems(sent')
  <2>1. Up
    <3>1. state' # "kConnected"
      BY <1>2 DEF FinInv
    <3>2. QED
      BY <1>1, <1>2, <3>1 DEF ConnStep, CalmStep, Stays, Opens, HalfCloses, Returns, CallsBack,
         AddsAtOnce, AddsLater, Adds, HoldsBack, Closes, ClosesAtLast, Removes, Flushes, core, Up
  <2>2. Flows /\ (~fin => Readable(output') = <<>>)
    BY <1>2, <2>1, BytesFlow
  <2>3. CASE fin
    <3>1. owed' = owed
      BY <2>3, OwedSteps DEF OwedInv, FinInv
    <3>2. late' = late
      <4>1. ASSUME handleWrite PROVE late' = late
        BY <2>3, <4>1 DEF handleWrite, Written
      <4>2. QED  BY <4>1, HistorySteps
    <3>3. Elems(Payload(m)) \subseteq Elems(sent)
      BY <1>2, <2>1, <2>3, <3>1, <3>2 DEF OwedInv, FinishedInv
    <3>4. QED  BY <2>2, <3>3 DEF Flows
  <2>4. CASE ~fin
    <3>1. SUFFICES \A x \in Elems(Payload(m)) : Taken(x)
      <4>1. Elems(Readable(output')) = {}
        BY <2>2, <2>4 DEF Elems
      <4>2. ASSUME \A x \in Elems(Payload(m)) : Taken(x)
            PROVE  Elems(Payload(m)) \subseteq Elems(sent')
        BY <2>2, <4>1, <4>2, FlowPrimes DEF Flows
      <4>3. QED  BY <3>1, <4>2
    <3>2. ASSUME server # "ended", m \in Msgs, by[m] # "nobody", ~Waiting(m),
                 \A x : ~Holding(x, stack)
          PROVE  \A x \in Elems(Payload(m)) : Taken(x)
      BY <2>1, <3>2 DEF OwedInv, FlowInv, Reached
    <3>3. stack = <<>> => \A x : ~Holding(x, stack)
      BY DEF Holding
    <3>4. CASE UserShutdown
      <4>1. stack # <<>> /\ From("shutdown") /\ m \in Msgs /\ by[m] = "io"
        BY <1>2, <3>4 DEF UserShutdown, UserMay, InUserCode, From
      <4>2. server # "ended"
        BY <4>1 DEF OwedInv, EndedInv
      <4>3. ~Waiting(m)
        <5> SUFFICES ASSUME NEW k \in 1..Len(pending), pending[k] = SendFunctor(m) PROVE FALSE
          BY DEF Waiting
        <5>1. pending[k].op = "send" /\ pending[k].msg = m
          BY DEF SendFunctor
        <5>2. by[m] \in Threads
          BY <5>1 DEF OwedInv, QueueInv
        <5>3. QED  BY <1>1, <4>1, <5>2
      <4>4. \A x : ~Holding(x, stack)
        BY <2>1, <4>1, ShutdownHoldsNothing
      <4>5. QED  BY <3>2, <4>1, <4>2, <4>3, <4>4
    <3>5. CASE RunShutdown
      <4>1. /\ server # "ended" /\ stack = <<>> /\ NextFunctor("shutdown")
            /\ owed' = owed
        BY <3>5 DEF RunShutdown, NextFunctor, LoopIdle, history
      <4>2. m \in owed /\ m \in Msgs /\ by[m] # "nobody"
        BY <1>1, <1>2, <4>1 DEF OwedInv, NewInv
      <4>3. ~Waiting(m)
        <5> SUFFICES ASSUME NEW k \in 1..Len(pending), pending[k] = SendFunctor(m) PROVE FALSE
          BY DEF Waiting
        <5>1. pending[k].op = "send" /\ pending[k].msg = m
          BY DEF SendFunctor
        <5>2. pending[1].op = "shutdown" /\ pending # <<>> /\ Len(pending) \in Nat
          BY <1>1, <4>1, NextTypes, LenProperties DEF TypeOK, LoopTypes, Ops
        <5>3. 1 < k /\ 1 \in 1..Len(pending)
          BY <5>1, <5>2
        <5>4. QED  BY <4>2, <5>1, <5>2, <5>3 DEF OwedInv, QueueInv
      <4>4. QED  BY <3>2, <3>3, <4>1, <4>2, <4>3
    <3>6. CASE handleWrite
      <4>1. late' = Queued /\ owed' = owed /\ stack = <<>> /\ dispatch # <<>>
        BY <1>2, <2>4, <3>6 DEF handleWrite, Dispatches, kernel
      <4>2. m \in owed /\ m \in Msgs /\ by[m] # "nobody"
        BY <1>1, <1>2, <4>1 DEF OwedInv, NewInv
      <4>3. ~Waiting(m)
        BY <1>2, <4>1, <4>2 DEF Queued, Waiting
      <4>4. server # "ended"
        BY <4>1 DEF OwedInv, EndedInv
      <4>5. QED  BY <3>2, <3>3, <4>1, <4>2, <4>3, <4>4
    <3>7. ASSUME (\E n \in Msgs : UserSend(n)) \/ RunSend PROVE fin' = fin
      <4>1. ASSUME NEW n \in Msgs, UserSend(n) PROVE fin' = fin
        BY <1>1, <4>1, SendEffect DEF UserSend, TypeOK, ConnTypes, LoopTypes
      <4>2. RunSend => fin' = fin
        BY <1>1, RunSends, SendEffect DEF TypeOK, ConnTypes
      <4>3. QED  BY <3>7, <4>1, <4>2
    <3>8. QED  BY <1>2, <2>4, <3>4, <3>5, <3>6, <3>7, WireSteps
  <2>5. QED  BY <1>1, <2>3, <2>4
<1>3. QED
  <2>1. Up' /\ fin' => \A m \in owed' \ late' : Elems(Payload(m)) \subseteq Elems(sent')
    BY <1>2
  <2>2. QED  BY <2>1 DEF FinishedInv, Payload, Elems

\* Every step keeps the invariant.
LEMMA OwedStep ==
  ASSUME HighWaterKeepsWriting, OnceInv, OnceInv', OwedInv, [Next]_vars
  PROVE  OwedInv'
<1>1. TypeOK /\ TypeOK' /\ ThreadsInv /\ ConnectingInv
  BY DEF OnceInv
<1>2. FinInv'
  BY <1>1, FinStep DEF OwedInv
<1>3. NewInv'
  BY <1>1, NewStep DEF OwedInv
<1>4. QueueInv'
  BY <1>1, QueueStep DEF OwedInv
<1>5. EndedInv'
  BY EndedStep DEF OwedInv
<1>6. FlowInv'
  BY FlowStep
<1>7. FinishedInv'
  BY <1>2, FinishedStep
<1>8. QED  BY <1>2, <1>3, <1>4, <1>5, <1>6, <1>7 DEF OwedInv

\* The invariant holds at the start.
LEMMA OwedStart == Init => OwedInv
<1> SUFFICES ASSUME Init PROVE OwedInv
  OBVIOUS
<1>1. /\ pending = <<Functor("established")>> /\ Len(pending) = 1
      /\ pending[1] = Functor("established")
  BY DEF Init
<1>2. Functor("established") \in FunctorsBut("shutdown")
  BY FunctorTypes DEF FunctorsBut, Functor, Ops
<1>3. FinInv
  <2>1. pending \in Seq(FunctorsBut("shutdown"))
    BY <1>1, <1>2
  <2>2. QED  BY <2>1 DEF Init, FinInv, NoCall
<1>4. QueueInv
  <2>1. \A k \in 1..Len(pending) : pending[k].op = "established"
    BY <1>1 DEF Functor
  <2>2. QED  BY <2>1 DEF QueueInv
<1>5. NewInv /\ EndedInv /\ FlowInv /\ FinishedInv
  BY ConnectionAssumption DEF Init, NewInv, EndedInv, FlowInv, FinishedInv, Up
<1>6. QED  BY <1>3, <1>4, <1>5 DEF OwedInv

\* The bytes that a thread sent before its shutdown took effect have left
\* before the stream is ended, but for those of a message that still waited in
\* a functor when handleWrite ended it: for any threads that send and shut
\* down in any order, and a server that is destroyed at any time.
THEOREM OwnSendsLeave ==
  ASSUME CloseInLoop, HighWaterKeepsWriting
  PROVE  Spec => []OwnSendsBeforeFin
<1>1. ASSUME OnceInv, OwedInv PROVE OwnSendsBeforeFin
  <2> SUFFICES ASSUME fin, state # "kDisconnected", NEW m \in owed \ late, NEW i \in 1..Size[m]
               PROVE  \E k \in 1..Len(sent) : sent[k] = <<m, i>>
    BY DEF OwnSendsBeforeFin
  <2>1. m \in Msgs /\ state \in {"kConnecting", "kConnected", "kDisconnecting", "kDisconnected"}
    BY <1>1 DEF OnceInv, TypeOK, HistoryTypes, ConnTypes
  <2>2. Up
    BY <1>1, <2>1 DEF OwedInv, FinInv, Up
  <2>3. Elems(Payload(m)) \subseteq Elems(sent)
    BY <1>1, <2>2 DEF OwedInv, FinishedInv
  <2>4. Len(Payload(m)) = Size[m] /\ Payload(m)[i] = <<m, i>>
    BY <2>1, PayloadType DEF Payload
  <2>5. <<m, i>> \in Elems(sent)
    BY <2>3, <2>4 DEF Elems
  <2>6. QED  BY <2>5 DEF Elems
<1>2. OnceInv /\ OnceInv' /\ OwedInv /\ [Next]_vars => OwedInv'
  BY HighWaterKeepsWriting, OwedStep
<1>3. QED
  BY CloseInLoop, <1>1, <1>2, OwedStart, OnceInvariant, PTL DEF Spec
=============================================================================
