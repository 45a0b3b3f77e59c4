-------------------------- MODULE TcpConnectionProofs --------------------------
(***************************************************************************)
(* Theorems about TcpConnection, for any messages, threads, high water mark*)
(* and bounds, and any calls of users but those each theorem excludes.     *)
(*                                                                         *)
(* TypeCorrect needs nothing. The invariants come in layers, each with what*)
(* it assumes of users, those before it included:                          *)
(*   OnceInv      no forceClose in another thread (CloseInLoop)            *)
(*   QuietInv     no forceClose in the high water callback                 *)
(*                (HighWaterKeepsOpen)                                     *)
(*   DispatchInv  nothing more                                             *)
(*   LifeInv      the server outlives the connection (TcpConnectionLife-   *)
(*                Proofs)                                                  *)
(* Steps are first grouped by what they do to the connection and its stack *)
(* (ConnStep) and to the queued functors (FunctorStep); most of the proofs *)
(* go through the kinds of steps instead of the actions.                   *)
(***************************************************************************)
EXTENDS TcpConnection, BufferFunctionsProofs, FiniteSetTheorems

-----------------------------------------------------------------------------
(* Frames and functors *)

\* What the code puts on the stack are frames.
LEMMA FrameTypes ==
  /\ \A place \in Places : User(place) \in Frames
  /\ \A kind \in {"close", "remove"} : Frame(kind) \in Frames
  /\ \A bytes \in ByteSeqs : Append_(bytes) \in Frames
BY DEF User, Frame, Append_, Frames

\* What the code queues are functors; the parts of functors and frames.
LEMMA FunctorTypes ==
  /\ \A op \in Ops \ {"send"} : Functor(op) \in Functors
  /\ \A m \in Msgs : SendFunctor(m) \in Functors
  /\ \A f \in Functors : f.op \in Ops /\ (f.op = "send" => f.msg \in Msgs)
  /\ \A g \in Frames : /\ g.frame \in {"user", "append", "close", "remove"}
                       /\ g.frame = "append" => g.bytes \in ByteSeqs
                       /\ g.frame = "user" => g.place \in Places
BY DEF Functor, SendFunctor, Functors, Ops, Frames

\* A callback on top of what goes on after it.
LEMMA PushTwo ==
  ASSUME NEW S, NEW s \in Seq(S), NEW a \in S, NEW b \in S
  PROVE  LET q == <<a, b>> \o s IN
         /\ q \in Seq(S)
         /\ Len(q) = Len(s) + 2
         /\ q[1] = a /\ q[2] = b
         /\ \A i \in 3..Len(q) : i - 2 \in 1..Len(s) /\ q[i] = s[i - 2]
<1> DEFINE q == <<a, b>> \o s
<1>1. <<a, b>> \in Seq(S) /\ Len(<<a, b>>) = 2
  OBVIOUS
<1>2. Len(s) \in Nat
  BY LenProperties
<1>3. /\ q \in Seq(S)
      /\ Len(q) = 2 + Len(s)
      /\ \A i \in 1..2 + Len(s) : q[i] = IF i <= 2 THEN <<a, b>>[i] ELSE s[i - 2]
  BY <1>1, ConcatProperties
<1>4. q[1] = a /\ q[2] = b
  <2>1. 1 \in 1..2 + Len(s) /\ 2 \in 1..2 + Len(s)
    BY <1>2
  <2>2. q[1] = <<a, b>>[1] /\ q[2] = <<a, b>>[2]
    BY <1>3, <2>1
  <2>3. QED  BY <2>2
<1>5. \A i \in 3..Len(q) : i - 2 \in 1..Len(s) /\ q[i] = s[i - 2]
  BY <1>2, <1>3
<1>6. QED  BY <1>2, <1>3, <1>4, <1>5

\* The first of a sequence, and the rest.
LEMMA Pop ==
  ASSUME NEW S, NEW s \in Seq(S), s # <<>>
  PROVE  /\ Len(s) \in Nat \ {0}
         /\ Head(s) = s[1] /\ Head(s) \in S
         /\ Tail(s) \in Seq(S)
         /\ Len(Tail(s)) = Len(s) - 1
         /\ \A i \in 1..Len(Tail(s)) : i + 1 \in 1..Len(s) /\ Tail(s)[i] = s[i + 1]
<1>1. Len(s) \in Nat \ {0}
  BY EmptySeq
<1>2. Len(Tail(s)) = Len(s) - 1 /\ \A i \in 1..Len(Tail(s)) : Tail(s)[i] = s[i+1]
  BY HeadTailProperties
<1>3. QED  BY <1>1, <1>2, HeadTailProperties

\* The bytes of a message.
LEMMA PayloadType ==
  ASSUME NEW m \in Msgs
  PROVE  /\ Payload(m) \in ByteSeqs
         /\ Len(Payload(m)) = Size[m]
         /\ Size[m] \in Nat \ {0}
<1>1. Size[m] \in Nat \ {0} /\ Payload(m) \in Seq(Bytes)
  BY ConnectionAssumption
<1>2. Len(Payload(m)) = Size[m]
  BY <1>1 DEF Payload
<1>3. QED  BY <1>1, <1>2 DEF ByteSeqs

\* The part of a sequence that has been written, and the rest.
LEMMA Parts ==
  ASSUME NEW S, NEW s \in Seq(S), NEW n \in 0..Len(s)
  PROVE  /\ SubSeq(s, 1, n) \in Seq(S)
         /\ SubSeq(s, n + 1, Len(s)) \in Seq(S)
         /\ Len(SubSeq(s, 1, n)) = n
         /\ Len(SubSeq(s, n + 1, Len(s))) = Len(s) - n
         /\ n = 0 => SubSeq(s, 1, n) = <<>> /\ SubSeq(s, n + 1, Len(s)) = s
         /\ n = Len(s) => SubSeq(s, n + 1, Len(s)) = <<>>
<1>1. Len(s) \in Nat /\ n \in Nat
  BY LenProperties
<1>2. \A i \in 1..Len(s) : s[i] \in S
  BY ElementOfSeq
<1>3. SubSeq(s, 1, n) \in Seq(S) /\ Len(SubSeq(s, 1, n)) = n
  BY <1>1, <1>2, SubSeqProperties
<1>4. SubSeq(s, n + 1, Len(s)) \in Seq(S) /\ Len(SubSeq(s, n + 1, Len(s))) = Len(s) - n
  BY <1>1, <1>2, SubSeqProperties
<1>5. n = 0 => SubSeq(s, 1, n) = <<>> /\ SubSeq(s, n + 1, Len(s)) = s
  BY <1>1, SubSeqEmpty, SubSeqFull
<1>6. n = Len(s) => SubSeq(s, n + 1, Len(s)) = <<>>
  BY <1>1, SubSeqEmpty
<1>7. QED  BY <1>3, <1>4, <1>5, <1>6

\* write() takes no more than it is given.
LEMMA WrittenRange ==
  ASSUME NEW k \in Nat
  PROVE  Written(k) \subseteq 0..k
BY DEF Written


-----------------------------------------------------------------------------
(* What a send does to the connection *)

\* Nothing is left to keep, or everything is dropped.
Passes(under) == stack' = under /\ UNCHANGED conn

\* What is left is kept at once, or after the high water callback.
Buffers(rest, under) == rest # <<>> /\ Keep(rest, under)
Holds(rest, under) ==
  /\ rest # <<>>
  /\ stack' = <<User("highWater"), Append_(rest)>> \o under
  /\ UNCHANGED conn

\* The three ways in which KeepRest goes on.
LEMMA KeepRestEffect ==
  ASSUME NEW bytes, NEW under, KeepRest(bytes, under)
  PROVE  /\ failed' = failed
         /\ Passes(under) \/ Buffers(bytes, under) \/ Holds(bytes, under)
BY DEF KeepRest, Passes, Buffers, Holds, Keep

\* sendInLoop ends the stream in no case, drops the message when the connection
\* is closed, and else passes it on, keeps a rest, or holds one back.
LEMMA SendEffect ==
  ASSUME TypeOK, NEW m \in Msgs, NEW under \in Seq(Frames), NEW queue \in Seq(Functors),
         sendInLoop(m, under, queue)
  PROVE  /\ fin' = fin /\ failed' = failed /\ state' = state
         /\ sent' \in ByteSeqs /\ room' \in BOOLEAN
         /\ pending' \in {queue, Append(queue, Functor("writeComplete"))}
         /\ state = "kDisconnected" => Passes(under) /\ pending' = queue /\ sent' = sent
         /\ \/ Passes(under)
            \/ \E rest \in ByteSeqs : Buffers(rest, under) \/ Holds(rest, under)
<1>1. CASE state = "kDisconnected"
  BY <1>1 DEF sendInLoop, kernel, Passes, conn, TypeOK, KernelTypes
<1>2. CASE state # "kDisconnected" /\ (Writing \/ readableBytes(output) # 0)
  BY <1>2, PayloadType, KeepRestEffect DEF sendInLoop, kernel, TypeOK, KernelTypes, Passes, Buffers, Holds, conn, Keep
<1>3. CASE state # "kDisconnected" /\ ~(Writing \/ readableBytes(output) # 0)
  <2>1. PICK n \in Written(Size[m]) :
          /\ sent' = sent \o SubSeq(Payload(m), 1, n)
          /\ room' = (room /\ n \in {0, Size[m]})
          /\ pending' = IF n = Size[m] THEN Append(queue, Functor("writeComplete")) ELSE queue
          /\ KeepRest(SubSeq(Payload(m), n + 1, Size[m]), under)
          /\ UNCHANGED fin
    BY <1>3 DEF sendInLoop
  <2>2. n \in 0..Len(Payload(m)) /\ Payload(m) \in Seq(Bytes) /\ Len(Payload(m)) = Size[m]
    BY <2>1, PayloadType, WrittenRange DEF ByteSeqs
  <2> DEFINE rest == SubSeq(Payload(m), n + 1, Size[m])
  <2>3. SubSeq(Payload(m), 1, n) \in ByteSeqs /\ rest \in ByteSeqs
    BY <2>2, Parts DEF ByteSeqs
  <2>4. sent' \in ByteSeqs
    BY <2>1, <2>3, ConcatProperties DEF TypeOK, KernelTypes, ByteSeqs
  <2>5. /\ failed' = failed
        /\ Passes(under) \/ Buffers(rest, under) \/ Holds(rest, under)
    BY <2>1, KeepRestEffect
  <2>6. state' = state
    BY <2>5 DEF Passes, Buffers, Holds, Keep, conn
  <2>7. room' \in BOOLEAN
    BY <2>1 DEF TypeOK, KernelTypes
  <2>8. QED  BY <1>3, <2>1, <2>3, <2>4, <2>5, <2>6, <2>7
<1>4. QED  BY <1>1, <1>2, <1>3

\* What a send does keeps the types.
LEMMA KeepTypes ==
  ASSUME ConnTypes, NEW under \in Seq(Frames), NEW rest \in ByteSeqs, Keep(rest, under)
  PROVE  ConnTypes'
<1>1. WellFormed(output')
  BY AppendKeepsWellFormed DEF WellFormed, ConnTypes, Keep, ByteSeqs
<1>2. QED  BY <1>1 DEF Keep, ConnTypes, Writing, WellFormed

\* What sendInLoop does keeps the types.
LEMMA SendTypes ==
  ASSUME TypeOK, NEW m \in Msgs, NEW under \in Seq(Frames), NEW queue \in Seq(Functors),
         sendInLoop(m, under, queue)
  PROVE  /\ ConnTypes' /\ KernelTypes'
         /\ pending' \in Seq(Functors)
         /\ Len(pending') \in {Len(queue), Len(queue) + 1}
<1>0. ConnTypes
  BY DEF TypeOK
<1>1. ASSUME Passes(under)
      PROVE  ConnTypes'
  BY <1>0, <1>1 DEF Passes, conn, ConnTypes
<1>2. ASSUME NEW rest \in ByteSeqs, Buffers(rest, under)
      PROVE  ConnTypes'
  BY <1>0, <1>2, KeepTypes DEF Buffers
<1>3. ASSUME NEW rest \in ByteSeqs, Holds(rest, under)
      PROVE  ConnTypes'
  <2>1. User("highWater") \in Frames /\ Append_(rest) \in Frames
    BY FrameTypes DEF Places
  <2>2. stack' \in Seq(Frames)
    BY <1>3, <2>1, PushTwo DEF Holds
  <2>3. QED  BY <1>0, <1>3, <2>2 DEF Holds, conn, ConnTypes
<1>4. ConnTypes'
  BY <1>1, <1>2, <1>3, SendEffect
<1>5. Functor("writeComplete") \in Functors
  BY FunctorTypes DEF Ops
<1>6. pending' \in Seq(Functors) /\ Len(pending') \in {Len(queue), Len(queue) + 1}
  BY <1>5, SendEffect, AppendProperties
<1>7. KernelTypes'
  BY SendEffect DEF TypeOK, KernelTypes
<1>8. QED  BY <1>4, <1>6, <1>7

\* What handleClose does keeps the types.
LEMMA CloseTypes ==
  ASSUME ConnTypes, downs \in Nat, NEW under \in Seq(Frames), handleClose(under)
  PROVE  ConnTypes' /\ downs' \in Nat
<1>1. User("connection") \in Frames /\ Frame("close") \in Frames
  BY FrameTypes DEF Places
<1>2. CASE state \notin {"kConnected", "kDisconnecting"}
  BY <1>2 DEF handleClose, Fail, conn, ConnTypes
<1>3. CASE state \in {"kConnected", "kDisconnecting"} /\ ~added
  BY <1>3 DEF handleClose, Fail, conn, ConnTypes
<1>4. CASE state \in {"kConnected", "kDisconnecting"} /\ added
  <2>1. <<User("connection"), Frame("close")>> \o under \in Seq(Frames)
    BY <1>1, PushTwo
  <2>2. stack' \in Seq(Frames) /\ state' = "kDisconnected" /\ events' = {}
        /\ UNCHANGED <<added, output>> /\ downs' = downs + 1
    BY <1>4, <2>1 DEF handleClose
  <2>3. QED  BY <2>2 DEF ConnTypes
<1>5. QED  BY <1>2, <1>3, <1>4

-----------------------------------------------------------------------------
(* Types *)

\* The initial values have their types.
LEMMA TypesStart == Init => TypeOK
<1> SUFFICES ASSUME Init PROVE TypeOK
  OBVIOUS
<1>1. Functor("established") \in Functors
  BY FunctorTypes DEF Ops
<1>2. ConnTypes
  BY EmptySeq, NewBufferWellFormed DEF Init, ConnTypes, WellFormed
<1>3. LoopTypes
  <2>1. pending \in Seq(Functors) /\ Len(pending) = 1
    BY <1>1 DEF Init
  <2>2. dispatch \in Seq({"R", "W"})
    BY EmptySeq DEF Init
  <2>3. quota = 0 /\ roundRef \in BOOLEAN /\ handlers \in Nat
    BY DEF Init
  <2>4. QED  BY <2>1, <2>2, <2>3 DEF LoopTypes
<1>4. ThreadTypes /\ PeerTypes /\ HistoryTypes
  BY DEF Init, ThreadTypes, PeerTypes, HistoryTypes
<1>5. OwnerTypes /\ KernelTypes
  BY ConnectionAssumption, EmptySeq DEF Init, OwnerTypes, KernelTypes, ByteSeqs
<1>6. QED  BY <1>2, <1>3, <1>4, <1>5 DEF TypeOK

\* The user's calls in the IO thread.
LEMMA UserTypes ==
  ASSUME TypeOK, UserCalls \/ UserReturn
  PROVE  TypeOK'
<1> USE DEF TypeOK
<1>1. ASSUME NEW m \in Msgs, UserSend(m)
      PROVE  TypeOK'
  <2>1. ConnTypes' /\ KernelTypes' /\ pending' \in Seq(Functors)
        /\ Len(pending') \in {Len(pending), Len(pending) + 1}
    BY <1>1, SendTypes DEF UserSend, ConnTypes, LoopTypes
  <2>2. LoopTypes'
    BY <1>1, <2>1, LenProperties DEF UserSend, LoopTypes, polled
  <2>3. ThreadTypes' /\ OwnerTypes' /\ PeerTypes'
    BY <1>1 DEF UserSend, ThreadTypes, OwnerTypes, PeerTypes, threads, owner, peer
  <2>4. HistoryTypes'
    BY <1>1 DEF UserSend, HistoryTypes
  <2>5. QED  BY <2>1, <2>2, <2>3, <2>4
<1>2. CASE UserShutdown
  <2>1. ConnTypes' /\ KernelTypes' /\ HistoryTypes'
    BY <1>2 DEF UserShutdown, shutdownInLoop, ConnTypes, KernelTypes, HistoryTypes
  <2>2. LoopTypes' /\ ThreadTypes' /\ OwnerTypes' /\ PeerTypes'
    BY <1>2 DEF UserShutdown, LoopTypes, ThreadTypes, OwnerTypes, PeerTypes, loop, polled,
       threads, owner, peer
  <2>3. QED  BY <2>1, <2>2
<1>3. CASE UserForceClose
  <2>1. ConnTypes' /\ downs' \in Nat
    BY <1>3, CloseTypes DEF UserForceClose, ConnTypes, HistoryTypes
  <2>2. LoopTypes' /\ ThreadTypes' /\ OwnerTypes' /\ PeerTypes' /\ KernelTypes'
    BY <1>3 DEF UserForceClose, LoopTypes, ThreadTypes, OwnerTypes, PeerTypes, KernelTypes,
       loop, polled, threads, owner, peer, kernel
  <2>3. HistoryTypes'
    BY <1>3, <2>1 DEF UserForceClose, HistoryTypes
  <2>4. QED  BY <2>1, <2>2, <2>3
<1>4. CASE UserReturn
  <2>1. stack' \in Seq(Frames)
    BY <1>4, Pop DEF UserReturn, InUserCode, ConnTypes
  <2>2. ConnTypes'
    BY <1>4, <2>1 DEF UserReturn, ConnTypes, conn
  <2>3. LoopTypes' /\ ThreadTypes' /\ OwnerTypes' /\ PeerTypes' /\ KernelTypes' /\ HistoryTypes'
    BY <1>4 DEF UserReturn, LoopTypes, ThreadTypes, OwnerTypes, PeerTypes, KernelTypes,
       HistoryTypes, loop, polled, threads, owner, peer, kernel, history
  <2>4. QED  BY <2>2, <2>3
<1>5. QED  BY <1>1, <1>2, <1>3, <1>4 DEF UserCalls

\* The calls of other threads.
LEMMA ThreadsKeepTypes ==
  ASSUME TypeOK, NEW t \in Threads, Thread(t) \/ ThreadGoesOn(t)
  PROVE  TypeOK'
<1> USE DEF TypeOK
<1>1. OwnerTypes' /\ PeerTypes' /\ KernelTypes'
  <2>1. UNCHANGED <<owner, peer, kernel>>
    BY DEF Thread, ThreadGoesOn, ThreadSend, ThreadShutdown, ThreadForceClose, Drop,
       SetDisconnecting, QueueCall
  <2>2. QED  BY <2>1 DEF OwnerTypes, PeerTypes, KernelTypes, owner, peer, kernel
<1>2. CASE Thread(t)
  <2>1. ConnTypes' /\ LoopTypes'
    BY <1>2 DEF Thread, ThreadSend, ThreadShutdown, ThreadForceClose, Drop, ConnTypes,
       LoopTypes, conn, loop, polled
  <2>2. HistoryTypes'
    BY <1>2 DEF Thread, ThreadSend, ThreadShutdown, ThreadForceClose, Drop, HistoryTypes, history
  <2>3. ThreadTypes'
    BY <1>2 DEF Thread, ThreadSend, ThreadShutdown, ThreadForceClose, Drop, ThreadTypes, ThreadGoto
  <2>4. QED  BY <1>1, <2>1, <2>2, <2>3
<1>3. CASE SetDisconnecting(t)
  <2>1. ConnTypes' /\ LoopTypes' /\ HistoryTypes'
    BY <1>3 DEF SetDisconnecting, ConnTypes, LoopTypes, HistoryTypes, loop, polled, history
  <2>2. ThreadTypes'
    BY <1>3 DEF SetDisconnecting, ThreadTypes, ThreadGoto
  <2>3. QED  BY <1>1, <2>1, <2>2
<1>4. CASE QueueCall(t)
  <2> DEFINE f == IF pc[t] = "send" THEN SendFunctor(arg[t]) ELSE Functor(pc[t])
  <2>1. f \in Functors
    BY <1>4, FunctorTypes DEF QueueCall, ThreadTypes, Ops
  <2>2. pending' = pending \/ pending' = Append(pending, f)
    BY ONLY <1>4 DEF QueueCall
  <2>3. /\ pending' \in Seq(Functors) /\ Len(pending) \in Nat
        /\ Len(pending') \in {Len(pending), Len(pending) + 1}
    <3> HIDE DEF f
    <3>1. pending \in Seq(Functors)
      BY DEF LoopTypes
    <3>2. Append(pending, f) \in Seq(Functors) /\ Len(Append(pending, f)) = Len(pending) + 1
      BY <2>1, <3>1, AppendProperties
    <3>3. Len(pending) \in Nat
      BY <3>1, LenProperties
    <3>4. CASE pending' = pending
      BY <3>1, <3>3, <3>4
    <3>5. CASE pending' = Append(pending, f)
      BY <3>2, <3>3, <3>5
    <3>6. QED  BY <2>2, <3>4, <3>5
  <2>4. LoopTypes'
    <3>1. UNCHANGED <<dispatch, handlers, quota, roundRef>>
      BY ONLY <1>4 DEF QueueCall, polled
    <3> HIDE DEF f
    <3>2. QED  BY <2>3, <3>1 DEF LoopTypes
  <2>5. ConnTypes'
    BY <1>4 DEF QueueCall, ConnTypes, conn
  <2>6. ThreadTypes' /\ HistoryTypes'
    BY <1>4 DEF QueueCall, ThreadTypes, HistoryTypes, ThreadGoto
  <2>7. QED  BY <1>1, <2>4, <2>5, <2>6
<1>5. QED  BY <1>2, <1>3, <1>4 DEF ThreadGoesOn

\* A functor leaves the queue.
LEMMA NextTypes ==
  ASSUME LoopTypes, NEW op \in Ops, NextFunctor(op)
  PROVE  /\ pending # <<>> /\ pending[1] \in Functors /\ pending[1].op = op
         /\ Head(pending) = pending[1]
         /\ Tail(pending) \in Seq(Functors)
         /\ quota' = quota - 1 /\ quota' \in 0..Len(Tail(pending)) /\ UNCHANGED polled
         /\ pending' = Tail(pending) => LoopTypes'
<1>1. pending # <<>>
  BY EmptySeq DEF LoopTypes, NextFunctor
<1>2. /\ Tail(pending) \in Seq(Functors)
      /\ Len(Tail(pending)) = Len(pending) - 1
      /\ Head(pending) = pending[1] /\ Head(pending) \in Functors
      /\ Len(pending) \in Nat
  BY <1>1, Pop DEF LoopTypes
<1>3. quota' = quota - 1 /\ quota' \in 0..Len(Tail(pending)) /\ UNCHANGED polled
  BY <1>2 DEF LoopTypes, NextFunctor
<1>4. roundRef' \in BOOLEAN
  BY DEF LoopTypes, NextFunctor, Owning
<1>5. QED  BY <1>1, <1>2, <1>3, <1>4 DEF LoopTypes, NextFunctor, polled

\* What connectDestroyed does keeps the types.
LEMMA DestroyTypes ==
  ASSUME TypeOK, connectDestroyed
  PROVE  ConnTypes' /\ HistoryTypes' /\ ThreadTypes' /\ PeerTypes' /\ KernelTypes'
<1>1. User("connection") \in Frames /\ Frame("remove") \in Frames
  BY FrameTypes DEF Places
<1>2. stack' \in Seq(Frames)
  <2>1. <<User("connection"), Frame("remove")>> \in Seq(Frames) /\ <<Frame("remove")>> \in Seq(Frames)
    BY <1>1
  <2>2. stack' \in {<<User("connection"), Frame("remove")>>, <<Frame("remove")>>}
    BY DEF connectDestroyed
  <2>3. QED  BY <2>1, <2>2
<1>3. ConnTypes' /\ HistoryTypes'
  <2>1. CASE state = "kConnected"
    BY <1>2, <2>1 DEF connectDestroyed, TypeOK, ConnTypes, HistoryTypes
  <2>2. CASE state # "kConnected"
    BY <1>2, <2>2 DEF connectDestroyed, TypeOK, ConnTypes, HistoryTypes
  <2>3. QED  BY <2>1, <2>2
<1>4. ThreadTypes' /\ PeerTypes' /\ KernelTypes'
  BY DEF connectDestroyed, TypeOK, ThreadTypes, PeerTypes, KernelTypes, threads, peer, kernel
<1>5. QED  BY <1>3, <1>4

\* The functors, and the round they are run in.
LEMMA RoundTypes ==
  ASSUME TypeOK
  PROVE  (StartRound \/ EndRound \/ connectEstablished \/ RunSend \/ RunShutdown \/ RunForceClose \/ RunWriteComplete \/ RunDestroyed) => TypeOK'
<1> USE DEF TypeOK
<1>0. ASSUME StartRound PROVE TypeOK'
  <2>1. Len(pending) \in Nat /\ pending' = pending
    BY <1>0, LenProperties DEF StartRound, LoopTypes
  <2>2. LoopTypes'
    BY <1>0, <2>1 DEF StartRound, LoopTypes
  <2>3. ConnTypes' /\ ThreadTypes' /\ OwnerTypes' /\ PeerTypes' /\ KernelTypes' /\ HistoryTypes'
    BY <1>0 DEF StartRound, ConnTypes, ThreadTypes, OwnerTypes, PeerTypes,
       KernelTypes, HistoryTypes, conn, threads, owner, peer, kernel, history
  <2>4. QED  BY <2>2, <2>3
<1>1. ASSUME EndRound PROVE TypeOK'
  <2>1. LoopTypes'
    BY <1>1 DEF EndRound, LoopTypes, polled
  <2>2. ConnTypes' /\ ThreadTypes' /\ OwnerTypes' /\ PeerTypes' /\ KernelTypes' /\ HistoryTypes'
    BY <1>1 DEF EndRound, ConnTypes, ThreadTypes, OwnerTypes, PeerTypes,
       KernelTypes, HistoryTypes, conn, threads, owner, peer, kernel, history
  <2>3. QED  BY <2>1, <2>2
<1>2. ASSUME connectEstablished PROVE TypeOK'
  <2>1. LoopTypes'
    BY <1>2, NextTypes DEF connectEstablished, Ops
  <2>2. OwnerTypes' /\ PeerTypes' /\ KernelTypes'
    BY <1>2 DEF connectEstablished, OwnerTypes, PeerTypes, KernelTypes, owner, peer, kernel
  <2>3. CASE state # "kConnecting"
    BY <1>2, <2>1, <2>2, <2>3 DEF connectEstablished, Fail, conn, ConnTypes, ThreadTypes,
       HistoryTypes
  <2>4. CASE state = "kConnecting"
    <3>1. <<User("connection")>> \in Seq(Frames)
      BY FrameTypes DEF Places
    <3>2. ConnTypes'
      BY <1>2, <2>4, <3>1 DEF connectEstablished, ConnTypes
    <3>3. ThreadTypes' /\ HistoryTypes'
      BY <1>2, <2>4 DEF connectEstablished, ThreadTypes, HistoryTypes
    <3>4. QED  BY <2>1, <2>2, <3>2, <3>3
  <2>5. QED  BY <2>3, <2>4
<1>3. ASSUME RunSend PROVE TypeOK'
  <2>1. /\ pending[1].msg \in Msgs /\ Head(pending) = pending[1]
        /\ Tail(pending) \in Seq(Functors)
        /\ quota' \in 0..Len(Tail(pending)) /\ UNCHANGED polled
    BY <1>3, NextTypes, FunctorTypes DEF RunSend, Ops
  <2>2. sendInLoop(pending[1].msg, <<>>, Tail(pending))
    BY <1>3, <2>1 DEF RunSend
  <2>3. ConnTypes' /\ KernelTypes' /\ pending' \in Seq(Functors)
        /\ Len(pending') \in {Len(Tail(pending)), Len(Tail(pending)) + 1}
    BY <2>1, <2>2, EmptySeq, SendTypes
  <2>4. roundRef' \in BOOLEAN /\ Len(Tail(pending)) \in Nat
    BY <1>3, <2>1, LenProperties DEF RunSend, NextFunctor, LoopTypes, Owning
  <2>5. quota' \in 0..Len(pending')
    BY <2>1, <2>3, <2>4
  <2>6. LoopTypes'
    BY <2>1, <2>3, <2>4, <2>5 DEF LoopTypes, polled
  <2>7. ThreadTypes' /\ OwnerTypes' /\ PeerTypes' /\ HistoryTypes'
    BY <1>3 DEF RunSend, ThreadTypes, OwnerTypes, PeerTypes, HistoryTypes, threads, owner,
       peer, history
  <2>8. QED  BY <2>3, <2>6, <2>7
<1>4. ASSUME RunShutdown PROVE TypeOK'
  <2>1. LoopTypes'
    BY <1>4, NextTypes DEF RunShutdown, Ops
  <2>2. ConnTypes' /\ ThreadTypes' /\ OwnerTypes' /\ PeerTypes' /\ KernelTypes' /\ HistoryTypes'
    BY <1>4 DEF RunShutdown, shutdownInLoop, ConnTypes, ThreadTypes, OwnerTypes, PeerTypes,
       KernelTypes, HistoryTypes, conn, threads, owner, peer, kernel, history
  <2>3. QED  BY <2>1, <2>2
<1>5. ASSUME RunForceClose PROVE TypeOK'
  <2>1. LoopTypes'
    BY <1>5, NextTypes DEF RunForceClose, Ops
  <2>2. ConnTypes' /\ downs' \in Nat
    <3>1. CASE state \in {"kConnected", "kDisconnecting"}
      BY <1>5, <3>1, CloseTypes, EmptySeq DEF RunForceClose, HistoryTypes
    <3>2. CASE state \notin {"kConnected", "kDisconnecting"}
      BY <1>5, <3>2 DEF RunForceClose, HistoryTypes, ConnTypes, conn
    <3>3. QED  BY <3>1, <3>2
  <2>3. ThreadTypes' /\ OwnerTypes' /\ PeerTypes' /\ KernelTypes'
    BY <1>5 DEF RunForceClose, ThreadTypes, OwnerTypes, PeerTypes, KernelTypes, threads,
       owner, peer, kernel
  <2>4. HistoryTypes'
    BY <1>5, <2>2 DEF RunForceClose, HistoryTypes
  <2>5. QED  BY <2>1, <2>2, <2>3, <2>4
<1>6. ASSUME RunWriteComplete PROVE TypeOK'
  <2>1. LoopTypes'
    BY <1>6, NextTypes DEF RunWriteComplete, Ops
  <2>2. <<User("writeComplete")>> \in Seq(Frames)
    BY FrameTypes DEF Places
  <2>3. ConnTypes'
    <3>1. CASE Alive
      BY <1>6, <2>2, <3>1 DEF RunWriteComplete, ConnTypes, conn
    <3>2. CASE ~Alive
      BY <1>6, <3>2 DEF RunWriteComplete, Fail, ConnTypes, conn
    <3>3. QED  BY <3>1, <3>2
  <2>4. ThreadTypes' /\ OwnerTypes' /\ PeerTypes' /\ KernelTypes' /\ HistoryTypes'
    BY <1>6 DEF RunWriteComplete, ThreadTypes, OwnerTypes, PeerTypes, KernelTypes,
       HistoryTypes, threads, owner, peer, kernel, history
  <2>5. QED  BY <2>1, <2>3, <2>4
<1>7. ASSUME RunDestroyed PROVE TypeOK'
  <2>1. LoopTypes'
    BY <1>7, NextTypes DEF RunDestroyed, Ops
  <2>2. ConnTypes' /\ HistoryTypes' /\ ThreadTypes' /\ PeerTypes' /\ KernelTypes'
    BY <1>7, DestroyTypes DEF RunDestroyed
  <2>3. OwnerTypes'
    BY <1>7 DEF RunDestroyed, connectDestroyed, OwnerTypes
  <2>4. QED  BY <2>1, <2>2, <2>3
<1>8. QED  BY <1>0, <1>1, <1>2, <1>3, <1>4, <1>5, <1>6, <1>7

\* What removeConnectionInLoop does keeps the types.
LEMMA RemoveTypes ==
  ASSUME LoopTypes, OwnerTypes, removeConnectionInLoop, UNCHANGED <<polled, quota, roundRef>>
  PROVE  LoopTypes' /\ inMap' \in BOOLEAN
<1>1. Functor("destroyed") \in Functors
  BY FunctorTypes DEF Ops
<1>2. /\ Append(pending, Functor("destroyed")) \in Seq(Functors)
      /\ Len(Append(pending, Functor("destroyed"))) = Len(pending) + 1
      /\ Len(pending) \in Nat
  BY <1>1, AppendProperties, LenProperties DEF LoopTypes
<1>3. pending' \in Seq(Functors) /\ Len(pending') \in {Len(pending), Len(pending) + 1}
  BY <1>2 DEF removeConnectionInLoop, LoopTypes
<1>4. inMap' \in BOOLEAN
  BY DEF removeConnectionInLoop, OwnerTypes
<1>5. QED  BY <1>2, <1>3, <1>4 DEF LoopTypes, polled

\* What goes on after a callback.
LEMMA ResumeTypes ==
  ASSUME TypeOK
  PROVE  (ResumeSend \/ ResumeClose \/ ResumeDestroy) => TypeOK'
<1> USE DEF TypeOK
<1>1. stack # <<>> => Head(stack) \in Frames /\ Tail(stack) \in Seq(Frames)
  BY Pop DEF ConnTypes
<1>2. ResumeSend \/ ResumeClose \/ ResumeDestroy => stack # <<>>
  BY DEF ResumeSend, ResumeClose, ResumeDestroy, Resumes
<1>3. ASSUME ResumeSend PROVE TypeOK'
  <2>1. ConnTypes'
    BY <1>1, <1>2, <1>3, KeepTypes, FunctorTypes DEF ResumeSend, Resumes
  <2>2. LoopTypes' /\ ThreadTypes' /\ OwnerTypes' /\ PeerTypes' /\ KernelTypes' /\ HistoryTypes'
    BY <1>3 DEF ResumeSend, LoopTypes, ThreadTypes, OwnerTypes, PeerTypes, KernelTypes,
       HistoryTypes, loop, polled, threads, owner, peer, kernel, history
  <2>3. QED  BY <2>1, <2>2
<1>4. ASSUME ResumeClose PROVE TypeOK'
  <2>1. ConnTypes'
    BY <1>1, <1>2, <1>4 DEF ResumeClose, ConnTypes, conn
  <2>2. LoopTypes' /\ inMap' \in BOOLEAN
    <3>1. CASE server \in {"other", "stopped"}
      BY <1>4, <3>1 DEF ResumeClose, LoopTypes, OwnerTypes, polled
    <3>2. CASE server \notin {"other", "stopped"}
      BY <1>4, <3>2, RemoveTypes DEF ResumeClose
    <3>3. QED  BY <3>1, <3>2
  <2>3. OwnerTypes'
    BY <1>4, <2>2 DEF ResumeClose, OwnerTypes
  <2>4. ThreadTypes' /\ PeerTypes' /\ KernelTypes' /\ HistoryTypes'
    BY <1>4 DEF ResumeClose, ThreadTypes, PeerTypes, KernelTypes, HistoryTypes, threads, peer,
       kernel, history
  <2>5. QED  BY <2>1, <2>2, <2>3, <2>4
<1>5. ASSUME ResumeDestroy PROVE TypeOK'
  <2>1. ConnTypes'
    BY <1>1, <1>2, <1>5 DEF ResumeDestroy, Fail, ConnTypes, conn
  <2>2. LoopTypes' /\ ThreadTypes' /\ OwnerTypes' /\ PeerTypes' /\ KernelTypes' /\ HistoryTypes'
    BY <1>5 DEF ResumeDestroy, LoopTypes, ThreadTypes, OwnerTypes, PeerTypes, KernelTypes,
       HistoryTypes, loop, polled, threads, owner, peer, kernel, history
  <2>3. QED  BY <2>1, <2>2
<1>6. QED  BY <1>3, <1>4, <1>5

\* One event has been dispatched.
LEMMA DispatchTypes ==
  ASSUME dispatch \in Seq({"R", "W"}), NEW e, Dispatches(e)
  PROVE  /\ dispatch' \in Seq({"R", "W"})
         /\ dispatch # <<>> /\ stack = <<>>
         /\ Len(dispatch) \in Nat \ {0}
         /\ dispatch' = Tail(dispatch) /\ Len(dispatch') = Len(dispatch) - 1
BY Pop DEF Dispatches

\* What handleWrite does keeps the types.
LEMMA WriteTypes ==
  ASSUME TypeOK, handleWrite
  PROVE  ConnTypes' /\ KernelTypes' /\ pending' \in Seq(Functors) /\ late' \subseteq Msgs
         /\ Len(pending') \in {Len(pending), Len(pending) + 1}
<1> USE DEF TypeOK
<1>1. CASE ~Writing
  BY <1>1 DEF handleWrite, conn, kernel, ConnTypes, KernelTypes, LoopTypes, HistoryTypes
<1>2. CASE Writing
  <2>1. PICK n \in Written(readableBytes(output)) :
          LET flushed == n > 0 /\ n = readableBytes(output)
              ends    == flushed /\ state = "kDisconnecting"
          IN
          /\ TakeOut(n)
          /\ events' = IF flushed THEN events \ {"W"} ELSE events
          /\ pending' = IF flushed THEN Append(pending, Functor("writeComplete"))
                                   ELSE pending
          /\ fin' = (fin \/ ends)
          /\ late' = IF ends THEN Queued ELSE late
          /\ UNCHANGED <<state, added>>
    BY <1>2 DEF handleWrite
  <2>2. n \in 0..readableBytes(output)
    BY <2>1, WrittenRange, ReadableProperties DEF ConnTypes, WellFormed
  <2>3. SubSeq(Readable(output), 1, n) \in ByteSeqs
    BY <2>2, Parts, ReadableProperties DEF ConnTypes, ByteSeqs, WellFormed
  <2>4. sent' \in ByteSeqs
    BY <2>1, <2>3, ConcatProperties DEF TakeOut, KernelTypes, ByteSeqs
  <2>5. ConnTypes'
    <3>1. WellFormed(output')
      BY <2>1, <2>2, RetrieveKeepsWellFormed DEF TakeOut, ConnTypes, WellFormed
    <3>2. QED  BY <2>1, <3>1 DEF ConnTypes, WellFormed, handleWrite
  <2>6. KernelTypes'
    BY <2>1, <2>4 DEF TakeOut, KernelTypes
  <2>7. Functor("writeComplete") \in Functors
    BY FunctorTypes DEF Ops
  <2>8. late' \subseteq Msgs
    BY <2>1 DEF Queued, HistoryTypes
  <2>9. pending' \in Seq(Functors) /\ Len(pending') \in {Len(pending), Len(pending) + 1}
    BY <2>1, <2>7, AppendProperties DEF LoopTypes
  <2>10. QED  BY <2>5, <2>6, <2>8, <2>9
<1>3. QED  BY <1>1, <1>2

\* The channel has at most two filters.
LEMMA ReadyCount ==
  ASSUME NEW S \in SUBSET {"R", "W"}
  PROVE  Cardinality(S) \in Nat /\ (S # {} => Cardinality(S) > 0)
<1>1. S \in {{}, {"R"}, {"W"}, {"R"} \cup {"W"}}
  OBVIOUS
<1>2. IsFiniteSet({}) /\ IsFiniteSet({"R"}) /\ IsFiniteSet({"W"})
  BY FS_Singleton, FS_EmptySet
<1>3. IsFiniteSet(S)
  <2>1. IsFiniteSet({"R"} \cup {"W"})
    BY <1>2, FS_Union
  <2>2. QED  BY <1>1, <1>2, <2>1
<1>4. Cardinality(S) \in Nat
  BY <1>3, FS_CardinalityType
<1>5. S # {} => Cardinality(S) # 0
  BY <1>3, FS_EmptySet
<1>6. QED  BY <1>4, <1>5

\* Events, and their handlers.
LEMMA EventTypes ==
  ASSUME TypeOK
  PROVE  (Poll \/ HandleOther \/ handleRead \/ handleWrite) => TypeOK'
<1> USE DEF TypeOK
<1>1. ASSUME Poll PROVE TypeOK'
  <2>1. Ready \subseteq {"R", "W"}
    BY DEF Ready, ConnTypes
  <2>2. Cardinality(Ready) \in Nat
    BY <2>1, ReadyCount
  <2>3. dispatch' \in Seq({"R", "W"}) /\ handlers' \in Nat
    <3>1. PICK e \in Ready : dispatch' = [i \in 1..Cardinality(Ready) |-> e]
      BY <1>1 DEF Poll
    <3>2. dispatch' \in Seq({"R", "W"})
      BY <2>1, <2>2, <3>1
    <3>3. QED  BY <1>1, <3>2, LenProperties DEF Poll
  <2>4. ConnTypes' /\ ThreadTypes' /\ OwnerTypes' /\ PeerTypes' /\ KernelTypes' /\ HistoryTypes'
    BY <1>1 DEF Poll, ConnTypes, ThreadTypes, OwnerTypes, PeerTypes, KernelTypes, HistoryTypes,
       conn, threads, owner, peer, kernel, history
  <2>5. QED  BY <1>1, <2>3, <2>4 DEF Poll, LoopTypes
<1>2. ASSUME HandleOther PROVE TypeOK'
  <2>1. User("other") \in Frames
    BY FrameTypes DEF Places
  <2>2. ConnTypes' /\ HistoryTypes'
    BY <1>2, <2>1 DEF HandleOther, ConnTypes, HistoryTypes, conn, history
  <2>3. LoopTypes' /\ ThreadTypes' /\ OwnerTypes' /\ PeerTypes' /\ KernelTypes'
    BY <1>2 DEF HandleOther, LoopTypes, ThreadTypes, OwnerTypes, PeerTypes, KernelTypes,
       threads, owner, peer, kernel
  <2>4. QED  BY <2>2, <2>3
<1>3. ASSUME handleRead PROVE TypeOK'
  <2>1. dispatch' \in Seq({"R", "W"}) /\ UNCHANGED <<handlers, quota, roundRef>>
    <3>1. dispatch \in Seq({"R", "W"})
      BY DEF LoopTypes
    <3>2. Dispatches("R")
      BY <1>3 DEF handleRead
    <3>3. UNCHANGED <<handlers, quota, roundRef>>
      BY <3>2 DEF Dispatches
    <3>4. QED  BY <3>1, <3>2, <3>3, DispatchTypes
  <2>2. LoopTypes'
    BY <1>3, <2>1 DEF handleRead, LoopTypes
  <2>3. ConnTypes' /\ downs' \in Nat
    <3>1. CASE rx
      <4>1. <<User("message")>> \in Seq(Frames)
        BY FrameTypes DEF Places
      <4>2. QED  BY <1>3, <3>1, <4>1 DEF handleRead, ConnTypes, HistoryTypes, conn
    <3>2. CASE ~rx /\ end = "eof"
      BY <1>3, <3>2, CloseTypes, EmptySeq DEF handleRead, HistoryTypes
    <3>3. CASE ~rx /\ end # "eof"
      BY <1>3, <3>3 DEF handleRead, ConnTypes, HistoryTypes, conn
    <3>4. QED  BY <3>1, <3>2, <3>3
  <2>4. ThreadTypes' /\ OwnerTypes' /\ PeerTypes' /\ KernelTypes' /\ HistoryTypes'
    BY <1>3, <2>3 DEF handleRead, ThreadTypes, OwnerTypes, PeerTypes, KernelTypes, HistoryTypes,
       threads, owner, kernel
  <2>5. QED  BY <2>2, <2>3, <2>4
<1>4. ASSUME handleWrite PROVE TypeOK'
  <2>1. dispatch' \in Seq({"R", "W"}) /\ UNCHANGED <<handlers, quota, roundRef>>
    <3>1. dispatch \in Seq({"R", "W"})
      BY DEF LoopTypes
    <3>2. Dispatches("W")
      BY <1>4 DEF handleWrite
    <3>3. UNCHANGED <<handlers, quota, roundRef>>
      BY <3>2 DEF Dispatches
    <3>4. QED  BY <3>1, <3>2, <3>3, DispatchTypes
  <2>2. ConnTypes' /\ KernelTypes' /\ pending' \in Seq(Functors)
        /\ Len(pending') \in {Len(pending), Len(pending) + 1}
    BY <1>4, WriteTypes
  <2>3. LoopTypes'
    BY <2>1, <2>2, LenProperties DEF LoopTypes
  <2>4. ThreadTypes' /\ OwnerTypes' /\ PeerTypes' /\ HistoryTypes'
    BY <1>4, WriteTypes DEF handleWrite, ThreadTypes, OwnerTypes, PeerTypes, HistoryTypes, threads, owner,
       peer, history
  <2>5. QED  BY <2>2, <2>3, <2>4
<1>5. QED  BY <1>1, <1>2, <1>3, <1>4

\* The server's thread, the peer and the kernel.
LEMMA OutsideTypes ==
  ASSUME TypeOK
  PROVE  (ServerRemove \/ KernelDrains \/ Environment) => TypeOK'
<1> USE DEF TypeOK
<1>1. ASSUME ServerRemove PROVE TypeOK'
  <2>1. LoopTypes' /\ inMap' \in BOOLEAN
    BY <1>1, RemoveTypes DEF ServerRemove
  <2>2. OwnerTypes'
    BY <1>1, <2>1 DEF ServerRemove, OwnerTypes
  <2>3. ConnTypes' /\ ThreadTypes' /\ PeerTypes' /\ KernelTypes' /\ HistoryTypes'
    BY <1>1 DEF ServerRemove, ConnTypes, ThreadTypes, PeerTypes, KernelTypes, HistoryTypes,
       conn, threads, peer, kernel, history
  <2>4. QED  BY <2>1, <2>2, <2>3
<1>2. ASSUME ServerDestroy PROVE TypeOK'
  <2>1. Functor("destroyed") \in Functors
    BY FunctorTypes DEF Ops
  <2>2. /\ Append(pending, Functor("destroyed")) \in Seq(Functors)
        /\ Len(Append(pending, Functor("destroyed"))) = Len(pending) + 1
        /\ Len(pending) \in Nat
    BY <2>1, AppendProperties, LenProperties DEF LoopTypes
  <2>3. LoopTypes'
    BY <1>2, <2>2 DEF ServerDestroy, LoopTypes, polled
  <2>4. ConnTypes' /\ ThreadTypes' /\ OwnerTypes' /\ PeerTypes' /\ KernelTypes' /\ HistoryTypes'
    BY <1>2 DEF ServerDestroy, ConnTypes, ThreadTypes, OwnerTypes, PeerTypes, KernelTypes,
       HistoryTypes, conn, threads, peer, kernel, history
  <2>5. QED  BY <2>3, <2>4
<1>3. ASSUME ServerDestroyInLoop PROVE TypeOK'
  <2>1. LoopTypes' /\ OwnerTypes'
    BY <1>3 DEF ServerDestroyInLoop, connectDestroyed, LoopTypes, OwnerTypes, loop, polled
  <2>2. ConnTypes' /\ ThreadTypes' /\ PeerTypes' /\ KernelTypes' /\ HistoryTypes'
    <3>1. CASE inMap
      BY <1>3, <3>1, DestroyTypes DEF ServerDestroyInLoop
    <3>2. CASE ~inMap
      BY <1>3, <3>2 DEF ServerDestroyInLoop, ConnTypes, ThreadTypes, PeerTypes, KernelTypes,
         HistoryTypes, conn, threads, peer, kernel, history
    <3>3. QED  BY <3>1, <3>2
  <2>3. QED  BY <2>1, <2>2
<1>4. ASSUME PeerSends \/ PeerCloses \/ PeerResets \/ KernelDrains PROVE TypeOK'
  <2>1. ASSUME PeerSends PROVE PeerTypes' /\ KernelTypes'
    BY <2>1 DEF PeerSends, PeerTypes, KernelTypes, kernel
  <2>2. ASSUME PeerCloses PROVE PeerTypes' /\ KernelTypes'
    BY <2>2 DEF PeerCloses, PeerTypes, KernelTypes, kernel
  <2>3. ASSUME PeerResets PROVE PeerTypes' /\ KernelTypes'
    BY <2>3 DEF PeerResets, PeerTypes, KernelTypes, kernel
  <2>4. ASSUME KernelDrains PROVE PeerTypes' /\ KernelTypes'
    BY <2>4 DEF KernelDrains, PeerTypes, KernelTypes, peer
  <2>5. PeerTypes' /\ KernelTypes'
    BY <1>4, <2>1, <2>2, <2>3, <2>4
  <2>6. ConnTypes' /\ LoopTypes' /\ ThreadTypes' /\ OwnerTypes' /\ HistoryTypes'
    BY <1>4 DEF PeerSends, PeerCloses, PeerResets, KernelDrains, ConnTypes, LoopTypes,
       ThreadTypes, OwnerTypes, HistoryTypes, conn, loop, polled, threads, owner, history
  <2>7. QED  BY <2>5, <2>6
<1>5. ASSUME LoopEnds PROVE TypeOK'
  <2>1. LoopTypes'
    BY <1>5, EmptySeq DEF LoopEnds, RoundOver, LoopTypes, polled
  <2>2. ConnTypes' /\ ThreadTypes' /\ OwnerTypes' /\ PeerTypes' /\ KernelTypes' /\ HistoryTypes'
    BY <1>5 DEF LoopEnds, ConnTypes, ThreadTypes, OwnerTypes, PeerTypes, KernelTypes,
       HistoryTypes, conn, threads, peer, kernel, history
  <2>3. QED  BY <2>1, <2>2
<1>6. QED  BY <1>1, <1>2, <1>3, <1>4, <1>5 DEF Environment

\* The variables hold what the code can put there, whatever users, peer, server
\* and other threads do; a channel with events is in the poller.
THEOREM TypeCorrect == Spec => []TypeOK
<1>1. TypeOK /\ [Next]_vars => TypeOK'
  <2> SUFFICES ASSUME TypeOK, [Next]_vars PROVE TypeOK'
    OBVIOUS
  <2>1. CASE UserCalls \/ UserReturn
    BY <2>1, UserTypes
  <2>2. CASE \E t \in Threads : Thread(t) \/ ThreadGoesOn(t)
    BY <2>2, ThreadsKeepTypes
  <2>3. CASE \/ StartRound \/ EndRound \/ connectEstablished \/ RunSend \/ RunShutdown
             \/ RunForceClose \/ RunWriteComplete \/ RunDestroyed
    BY <2>3, RoundTypes
  <2>4. CASE ResumeSend \/ ResumeClose \/ ResumeDestroy
    BY <2>4, ResumeTypes
  <2>5. CASE Poll \/ HandleOther \/ handleRead \/ handleWrite
    BY <2>5, EventTypes
  <2>6. CASE ServerRemove \/ KernelDrains \/ Environment
    BY <2>6, OutsideTypes
  <2>7. CASE UNCHANGED vars
    BY <2>7 DEF vars, TypeOK, ConnTypes, LoopTypes, ThreadTypes, OwnerTypes, PeerTypes,
       KernelTypes, HistoryTypes, conn, loop, polled, threads, owner, peer, kernel, history
  <2>8. QED
    BY <2>1, <2>2, <2>3, <2>4, <2>5, <2>6, <2>7 DEF Next, LoopStep
<1>2. QED  BY <1>1, TypesStart, PTL DEF Spec


-----------------------------------------------------------------------------
(* What a step does to the connection and to the stack of its callbacks.   *)
(* Many actions do the same to them: the kinds of steps are fewer.         *)

Up == state \in {"kConnected", "kDisconnecting"}
core == <<state, events, output, ups, downs>>

\* The loop does it, or user code in a place where it may call.
From(call) ==
  stack # <<>> => Head(stack).frame = "user" /\ call \in Calls[Head(stack).place]

Stays == UNCHANGED <<core, stack>>

Opens ==
  /\ state = "kConnecting"
  /\ state' = "kConnected"
  /\ events' = {"R"}
  /\ stack' = <<User("connection")>>
  /\ ups' = ups + 1
  /\ UNCHANGED <<output, downs>>

HalfCloses ==
  /\ \E place \in Places : "shutdown" \in Calls[place]
  /\ state = "kConnected"
  /\ state' = "kDisconnecting"
  /\ UNCHANGED <<events, output, stack, ups, downs>>

CallsBack(place) ==
  /\ stack = <<>>
  /\ stack' = <<User(place)>>
  /\ UNCHANGED core

Returns ==
  /\ stack # <<>>
  /\ Head(stack).frame = "user" \/ ResumeClose \/ ResumeDestroy
  /\ stack' = Tail(stack)
  /\ UNCHANGED core

Adds(rest) ==
  /\ output' = append(output, rest)
  /\ events' = events \cup {"W"}
  /\ UNCHANGED <<state, ups, downs>>

AddsAtOnce ==
  /\ state # "kDisconnected"
  /\ stack' = stack
  /\ \E rest \in ByteSeqs \ {<<>>} : Adds(rest)

AddsLater ==
  /\ stack # <<>>
  /\ Head(stack).frame = "append"
  /\ stack' = Tail(stack)
  /\ Adds(Head(stack).bytes)

HoldsBack ==
  /\ state # "kDisconnected"
  /\ From("send")
  /\ \E rest \in ByteSeqs \ {<<>>} :
       stack' = <<User("highWater"), Append_(rest)>> \o stack
  /\ UNCHANGED core

Closes ==
  /\ Up
  /\ From("forceClose")
  /\ state' = "kDisconnected"
  /\ events' = {}
  /\ stack' = <<User("connection"), Frame("close")>> \o stack
  /\ downs' = downs + 1
  /\ UNCHANGED <<output, ups>>

\* connectDestroyed.
Destroys == RunDestroyed \/ ServerDies

ClosesAtLast ==
  /\ Destroys
  /\ state = "kConnected"
  /\ stack = <<>>
  /\ state' = "kDisconnected"
  /\ events' = {}
  /\ stack' = <<User("connection"), Frame("remove")>>
  /\ downs' = downs + 1
  /\ UNCHANGED <<output, ups>>

Removes ==
  /\ Destroys
  /\ stack = <<>>
  /\ stack' = <<Frame("remove")>>
  /\ UNCHANGED core

Flushes ==
  /\ Writing
  /\ \E n \in 0..readableBytes(output) :
       /\ output' = IF n > 0 THEN retrieve(output, n) ELSE output
       /\ events' = IF n > 0 /\ n = readableBytes(output) THEN events \ {"W"} ELSE events
  /\ UNCHANGED <<state, stack, ups, downs>>

\* What the steps do that neither send nor write.
CalmStep ==
  \/ Stays \/ Opens \/ HalfCloses \/ Returns
  \/ handleRead /\ CallsBack("message")
  \/ CallsBack("writeComplete") \/ CallsBack("other")
  \/ AddsLater \/ Closes \/ ClosesAtLast \/ Removes

ConnStep == CalmStep \/ AddsAtOnce \/ HoldsBack \/ Flushes

\* sendInLoop does one of these things.
LEMMA SendSteps ==
  ASSUME TypeOK, NEW m \in Msgs, NEW queue \in Seq(Functors),
         sendInLoop(m, stack, queue), UNCHANGED <<ups, downs>>, From("send")
  PROVE  ConnStep
<1>1. stack \in Seq(Frames)
  BY DEF TypeOK, ConnTypes
<1>2. UNCHANGED <<ups, downs>>
  OBVIOUS
<1>3. ASSUME Passes(stack) PROVE Stays
  BY <1>2, <1>3 DEF Passes, Stays, core, conn
<1>4. ASSUME NEW rest \in ByteSeqs, Buffers(rest, stack) PROVE AddsAtOnce \/ Stays
  <2>1. CASE state = "kDisconnected"
    BY <1>1, <1>3, <2>1, SendEffect
  <2>2. CASE state # "kDisconnected"
    BY <1>2, <1>4, <2>2 DEF Buffers, Keep, AddsAtOnce, Adds
  <2>3. QED  BY <2>1, <2>2
<1>5. ASSUME NEW rest \in ByteSeqs, Holds(rest, stack) PROVE HoldsBack \/ Stays
  <2>1. CASE state = "kDisconnected"
    BY <1>1, <1>3, <2>1, SendEffect
  <2>2. CASE state # "kDisconnected"
    BY <1>2, <1>5, <2>2 DEF Holds, HoldsBack, core, conn
  <2>3. QED  BY <2>1, <2>2
<1>6. Passes(stack) \/ \E rest \in ByteSeqs : Buffers(rest, stack) \/ Holds(rest, stack)
  BY <1>1, SendEffect
<1>7. QED  BY <1>3, <1>4, <1>5, <1>6 DEF ConnStep, CalmStep

\* handleClose closes the connection, or an assertion fails.
LEMMA CloseSteps ==
  ASSUME handleClose(stack), ups' = ups, From("forceClose")
  PROVE  Closes \/ Stays
<1>1. CASE Up /\ added
  BY <1>1 DEF handleClose, Closes, Up
<1>2. CASE ~(Up /\ added)
  BY <1>2 DEF handleClose, Fail, Up, Stays, core, conn
<1>3. QED  BY <1>1, <1>2

\* Every step but the sends and handleWrite is calm.
LEMMA CalmSteps ==
  ASSUME TypeOK, \A t \in Threads : pc[t] # "checked", [Next]_vars
  PROVE  CalmStep \/ (\E m \in Msgs : UserSend(m)) \/ RunSend \/ handleWrite
<1> USE DEF CalmStep
<1>1. ASSUME UserShutdown PROVE CalmStep
  <2>1. stack # <<>> /\ Head(stack).frame = "user" /\ "shutdown" \in Calls[Head(stack).place]
    BY <1>1 DEF UserShutdown, UserMay, InUserCode
  <2>2. Head(stack) \in Frames
    BY <2>1, Pop DEF TypeOK, ConnTypes
  <2>3. Head(stack).place \in Places
    BY <2>1, <2>2, FunctorTypes
  <2>4. QED  BY <1>1, <2>1, <2>3 DEF UserShutdown, HalfCloses
<1>2. ASSUME UserForceClose PROVE CalmStep
  <2>1. From("forceClose") /\ ups' = ups
    BY <1>2 DEF UserForceClose, UserMay, InUserCode, From
  <2>2. QED  BY <1>2, <2>1, CloseSteps DEF UserForceClose
<1>3. ASSUME UserReturn PROVE CalmStep
  BY <1>3 DEF UserReturn, InUserCode, Returns, core, conn, history
<1>4. ASSUME NEW t \in Threads, Thread(t) PROVE CalmStep
  <2>1. ASSUME NEW m \in Msgs, ThreadSend(t, m) PROVE CalmStep
    BY <2>1 DEF ThreadSend, Stays, core, conn
  <2>2. ASSUME ThreadShutdown(t) PROVE CalmStep
    BY <2>2 DEF ThreadShutdown, ThreadMay, HalfCloses, Places
  <2>3. ASSUME ThreadForceClose(t) \/ Drop(t) PROVE CalmStep
    BY <2>3 DEF ThreadForceClose, Drop, Stays, core, conn, history
  <2>4. QED  BY <1>4, <2>1, <2>2, <2>3 DEF Thread
<1>5. ASSUME NEW t \in Threads, ThreadGoesOn(t) PROVE CalmStep
  <2>1. ~SetDisconnecting(t)
    BY DEF SetDisconnecting, At
  <2>2. QED  BY <1>5, <2>1 DEF ThreadGoesOn, QueueCall, Stays, core, conn
<1>6. ASSUME StartRound \/ EndRound \/ RunShutdown PROVE CalmStep
  BY <1>6 DEF StartRound, EndRound, RunShutdown, Stays, core, conn, history
<1>7. ASSUME connectEstablished PROVE CalmStep
  <2>1. CASE state # "kConnecting"
    BY <1>7, <2>1 DEF connectEstablished, Fail, Stays, core, conn
  <2>2. CASE state = "kConnecting"
    BY <1>7, <2>2 DEF connectEstablished, Opens
  <2>3. QED  BY <2>1, <2>2
<1>8. ASSUME RunForceClose PROVE CalmStep
  <2>1. stack = <<>>
    BY <1>8 DEF RunForceClose, NextFunctor, LoopIdle
  <2>2. CASE Up
    BY <1>8, <2>1, <2>2, CloseSteps DEF RunForceClose, From, Up
  <2>3. CASE ~Up
    BY <1>8, <2>3 DEF RunForceClose, Stays, Up, core, conn
  <2>4. QED  BY <2>2, <2>3
<1>9. ASSUME RunWriteComplete PROVE CalmStep
  <2>1. stack = <<>> /\ UNCHANGED core
    BY <1>9 DEF RunWriteComplete, NextFunctor, LoopIdle, Fail, core, conn, history
  <2>2. stack' = stack \/ stack' = <<User("writeComplete")>>
    BY <1>9 DEF RunWriteComplete, Fail
  <2>3. QED  BY <2>1, <2>2 DEF Stays, CallsBack
<1>10. ASSUME RunDestroyed PROVE CalmStep
  <2>1. stack = <<>> /\ connectDestroyed /\ Destroys
    BY <1>10 DEF RunDestroyed, NextFunctor, LoopIdle, Destroys
  <2>2. QED  BY <2>1 DEF connectDestroyed, ClosesAtLast, Removes, core
<1>11. ASSUME ResumeSend PROVE CalmStep
  BY <1>11 DEF ResumeSend, Resumes, Keep, AddsLater, Adds, history
<1>12. ASSUME ResumeClose PROVE CalmStep
  BY <1>12 DEF ResumeClose, Resumes, Returns, core, conn, history
<1>13. ASSUME ResumeDestroy PROVE CalmStep
  BY <1>13 DEF ResumeDestroy, Resumes, Fail, Returns, Stays, core, conn, history
<1>14. ASSUME Poll PROVE CalmStep
  BY <1>14 DEF Poll, Stays, core, conn, history
<1>15. ASSUME HandleOther PROVE CalmStep
  BY <1>15 DEF HandleOther, CallsBack, core, conn, history
<1>16. ASSUME handleRead PROVE CalmStep
  <2>1. stack = <<>>
    BY <1>16 DEF handleRead, Dispatches
  <2>2. CASE rx
    BY <1>16, <2>1, <2>2 DEF handleRead, CallsBack, core, conn
  <2>3. CASE ~rx /\ end = "eof"
    BY <1>16, <2>1, <2>3, CloseSteps DEF handleRead, From
  <2>4. CASE ~rx /\ end # "eof"
    BY <1>16, <2>4 DEF handleRead, Stays, core, conn
  <2>5. QED  BY <2>2, <2>3, <2>4
<1>17. ASSUME ServerRemove PROVE CalmStep
  BY <1>17 DEF ServerRemove, Stays, core, conn, history
<1>18. ASSUME ServerDestroyInLoop PROVE CalmStep
  <2>1. stack = <<>> /\ Destroys
    BY <1>18 DEF ServerDestroyInLoop, LoopIdle, Destroys
  <2>2. CASE inMap
    BY <1>18, <2>1, <2>2 DEF ServerDestroyInLoop, connectDestroyed, ClosesAtLast, Removes, core
  <2>3. CASE ~inMap
    BY <1>18, <2>3 DEF ServerDestroyInLoop, Stays, core, conn, history
  <2>4. QED  BY <2>2, <2>3
<1>19. ASSUME KernelDrains \/ ServerDestroy \/ LoopEnds \/ PeerSends \/ PeerCloses \/ PeerResets
       PROVE CalmStep
  BY <1>19 DEF KernelDrains, ServerDestroy, LoopEnds, PeerSends, PeerCloses, PeerResets, Stays, core, conn,
     history
<1>20. ASSUME UNCHANGED vars PROVE CalmStep
  BY <1>20 DEF vars, Stays, core, conn, history
<1>21. QED
  BY <1>1, <1>2, <1>3, <1>4, <1>5, <1>6, <1>7, <1>8, <1>9, <1>10, <1>11, <1>12, <1>13, <1>14,
     <1>15, <1>16, <1>17, <1>18, <1>19, <1>20
     DEF Next, UserCalls, LoopStep, Environment

\* Every step does one of these things to the connection and its stack.
LEMMA ConnSteps ==
  ASSUME TypeOK, \A t \in Threads : pc[t] # "checked", [Next]_vars
  PROVE  ConnStep
<1>1. ASSUME NEW m \in Msgs, UserSend(m) PROVE ConnStep
  BY <1>1, SendSteps DEF UserSend, UserMay, InUserCode, From, TypeOK, LoopTypes
<1>2. ASSUME RunSend PROVE ConnStep
  <2>1. pending[1].msg \in Msgs /\ Tail(pending) \in Seq(Functors) /\ Head(pending) = pending[1]
    BY <1>2, NextTypes, FunctorTypes DEF RunSend, Ops, TypeOK
  <2>2. stack = <<>> /\ UNCHANGED <<ups, downs>>
    BY <1>2 DEF RunSend, NextFunctor, LoopIdle, history
  <2>3. sendInLoop(pending[1].msg, stack, Tail(pending))
    BY <1>2, <2>1, <2>2 DEF RunSend
  <2>4. QED  BY <2>1, <2>2, <2>3, SendSteps DEF From
<1>3. ASSUME handleWrite PROVE ConnStep
  <2>1. CASE ~Writing
    BY <1>3, <2>1 DEF handleWrite, ConnStep, CalmStep, Stays, core, conn, history
  <2>2. CASE Writing
    <3>1. PICK n \in Written(readableBytes(output)) :
            /\ output' = IF n > 0 THEN retrieve(output, n) ELSE output
            /\ events' = IF n > 0 /\ n = readableBytes(output) THEN events \ {"W"} ELSE events
            /\ UNCHANGED <<state, stack, ups, downs>>
      BY <1>3, <2>2 DEF handleWrite, TakeOut
    <3>2. n \in 0..readableBytes(output)
      BY <3>1, WrittenRange, ReadableProperties DEF TypeOK, ConnTypes, WellFormed
    <3>3. QED  BY <2>2, <3>1, <3>2 DEF ConnStep, Flushes
  <2>3. QED  BY <2>1, <2>2
<1>4. QED  BY <1>1, <1>2, <1>3, CalmSteps DEF ConnStep


-----------------------------------------------------------------------------
(* Up once, down at most once                                              *)

\* Without this, a thread that has tested state_ in forceClose may set it to
\* kDisconnecting after the connection went down, and the connection closes
\* a second time.
CloseInLoop == "forceClose" \notin Calls["thread"]

FunctorsBut(op) == {f \in Functors : f.op # op}

\* No thread is between forceClose's test of state_ and its assignment.
ThreadsInv == \A t \in Threads : pc[t] \notin {"checked", "forceClose"}

\* Before connectEstablished nothing has happened but that the server may
\* have been destroyed, and the loop with it; afterwards no second
\* connectEstablished waits.
ConnectingInv ==
  /\ state = "kConnecting" =>
       /\ ups = 0 /\ downs = 0
       /\ events = {} /\ ~added /\ output = NewBuffer /\ stack = <<>> /\ dispatch = <<>>
       /\ server # "ended" =>
            /\ pending # <<>> /\ Head(pending).op = "established"
            /\ Tail(pending) \in Seq(FunctorsBut("established"))
       /\ \A t \in Threads : pc[t] = "none"
  /\ state # "kConnecting" => pending \in Seq(FunctorsBut("established"))

\* What the user has heard is what state_ says.
HeardInv ==
  /\ Up => ups = 1 /\ downs = 0
  /\ state = "kDisconnected" => ups = 1 /\ downs = 1

\* A send that waits for the high water callback has something left.
SolidFrames == {g \in Frames : g.frame = "append" => g.bytes # <<>>}
HeldInv == stack \in Seq(SolidFrames)

\* While the connection is up, above a send that waits for its high water
\* callback there are only others that do, and these callbacks.
AboveInv ==
  Up => \A j \in 1..Len(stack) : stack[j].frame = "append" =>
          \A i \in 1..j - 1 : stack[i].frame = "append" \/ stack[i] = User("highWater")

OnceInv ==
  /\ TypeOK /\ ThreadsInv /\ ConnectingInv /\ HeardInv /\ HeldInv /\ AboveInv
  /\ WritingIffBuffered

\* Only connectEstablished and the threads themselves move the threads.
LEMMA ThreadSteps ==
  ASSUME [Next]_vars
  PROVE  \/ pc' = pc
         \/ connectEstablished
         \/ \E t \in Threads : Thread(t) \/ ThreadGoesOn(t)
<1>1. ASSUME UserCalls \/ UserReturn \/ ResumeSend \/ ResumeClose \/ ResumeDestroy
      PROVE pc' = pc
  BY <1>1 DEF UserCalls, UserSend, UserShutdown, UserForceClose, UserReturn, ResumeSend, ResumeClose,
     ResumeDestroy, threads
<1>2. ASSUME StartRound \/ EndRound \/ RunSend \/ RunShutdown \/ RunForceClose \/ RunWriteComplete
      PROVE pc' = pc
  BY <1>2 DEF StartRound, EndRound, RunSend, RunShutdown, RunForceClose, RunWriteComplete, threads
<1>3. ASSUME RunDestroyed \/ ServerDestroyInLoop
      PROVE pc' = pc
  BY <1>3 DEF RunDestroyed, ServerDestroyInLoop, connectDestroyed, threads
<1>4. ASSUME Poll \/ HandleOther \/ handleRead \/ handleWrite PROVE pc' = pc
  BY <1>4 DEF Poll, HandleOther, handleRead, handleWrite, threads
<1>5. ASSUME \/ ServerRemove \/ KernelDrains \/ ServerDestroy \/ LoopEnds
             \/ PeerSends \/ PeerCloses \/ PeerResets
      PROVE pc' = pc
  BY <1>5 DEF ServerRemove, KernelDrains, ServerDestroy, LoopEnds, PeerSends, PeerCloses, PeerResets, threads
<1>6. ASSUME UNCHANGED vars PROVE pc' = pc
  BY <1>6 DEF vars, threads
<1>7. QED
  BY <1>1, <1>2, <1>3, <1>4, <1>5, <1>6 DEF Next, LoopStep, Environment

\* Without forceClose in another thread, no thread gets there.
LEMMA ThreadsStep ==
  ASSUME CloseInLoop, TypeOK, ThreadsInv, [Next]_vars
  PROVE  ThreadsInv'
<1> USE DEF ThreadsInv
<1>1. ASSUME NEW t \in Threads, Thread(t) \/ ThreadGoesOn(t) PROVE ThreadsInv'
  <2>1. ~ThreadForceClose(t) /\ ~SetDisconnecting(t)
    BY DEF ThreadForceClose, ThreadMay, SetDisconnecting, At, CloseInLoop
  <2>2. QED
    BY <1>1, <2>1 DEF Thread, ThreadGoesOn, ThreadSend, ThreadShutdown, Drop, QueueCall, ThreadGoto,
       TypeOK, ThreadTypes
<1>2. ASSUME connectEstablished PROVE ThreadsInv'
  BY <1>2 DEF connectEstablished
<1>3. QED  BY <1>1, <1>2, ThreadSteps

-----------------------------------------------------------------------------
(* What a step does to the functors *)

Waits == pending' = pending

QueuesDestroyed ==
  /\ inMap /\ ~inMap'
  /\ pending' = Append(pending, Functor("destroyed"))

\* sendInLoop in user code, or handleWrite.
QueuesComplete ==
  /\ state = "kConnected" \/ Writing
  /\ pending' = Append(pending, Functor("writeComplete"))

Takes(op) ==
  /\ NextFunctor(op)
  /\ op = "destroyed" => RunDestroyed
  /\ op = "send" => RunSend
  /\ pending' = Tail(pending)

TakesSend ==
  /\ NextFunctor("send") /\ RunSend
  /\ state # "kDisconnected"
  /\ pending' = Append(Tail(pending), Functor("writeComplete"))

FunctorStep ==
  \/ Waits \/ QueuesDestroyed \/ QueuesComplete \/ TakesSend
  \/ \E op \in Ops : Takes(op)
  \/ \E t \in Threads : QueueCall(t)
  \/ LoopEnds

\* Every step does one of these things to the queued functors.
LEMMA FunctorSteps ==
  ASSUME TypeOK, [Next]_vars
  PROVE  FunctorStep
<1> USE DEF FunctorStep
<1>1. ASSUME NEW m \in Msgs, UserSend(m) PROVE FunctorStep
  <2>1. state = "kConnected" /\ sendInLoop(m, stack, pending)
    BY <1>1 DEF UserSend
  <2>2. pending' \in {pending, Append(pending, Functor("writeComplete"))}
    BY <2>1, SendEffect DEF TypeOK, ConnTypes, LoopTypes
  <2>3. QED  BY <2>1, <2>2 DEF Waits, QueuesComplete
<1>2. ASSUME UserShutdown \/ UserForceClose \/ UserReturn \/ ResumeSend \/ ResumeDestroy PROVE Waits
  BY <1>2 DEF UserShutdown, UserForceClose, UserReturn, ResumeSend, ResumeDestroy, Waits, loop, polled
<1>3. ASSUME NEW t \in Threads, Thread(t) PROVE Waits
  BY <1>3 DEF Thread, ThreadSend, ThreadShutdown, ThreadForceClose, Drop, Waits, loop, polled
<1>4. ASSUME NEW t \in Threads, ThreadGoesOn(t) PROVE FunctorStep
  BY <1>4 DEF ThreadGoesOn, SetDisconnecting, Waits, loop, polled
<1>5. ASSUME StartRound \/ EndRound \/ Poll \/ HandleOther \/ handleRead PROVE Waits
  BY <1>5 DEF StartRound, EndRound, Poll, HandleOther, handleRead, Waits, loop, polled
<1>6. ASSUME connectEstablished \/ RunShutdown \/ RunForceClose \/ RunWriteComplete \/ RunDestroyed
      PROVE  \E op \in Ops : Takes(op)
  BY <1>6 DEF connectEstablished, RunShutdown, RunForceClose, RunWriteComplete, RunDestroyed, Takes, Ops
<1>7. ASSUME RunSend PROVE FunctorStep
  <2>1. /\ pending[1].msg \in Msgs /\ Tail(pending) \in Seq(Functors) /\ Head(pending) = pending[1]
        /\ NextFunctor("send")
    BY <1>7, NextTypes, FunctorTypes DEF RunSend, Ops, TypeOK
  <2>2. sendInLoop(pending[1].msg, stack, Tail(pending)) /\ stack \in Seq(Frames)
    BY <1>7, <2>1 DEF RunSend, NextFunctor, LoopIdle, TypeOK, ConnTypes
  <2>3. /\ pending' \in {Tail(pending), Append(Tail(pending), Functor("writeComplete"))}
        /\ state = "kDisconnected" => pending' = Tail(pending)
    BY <2>1, <2>2, SendEffect
  <2>4. QED  BY <1>7, <2>1, <2>3 DEF Takes, TakesSend, Ops
<1>8. ASSUME ResumeClose \/ ServerRemove PROVE Waits \/ QueuesDestroyed
  BY <1>8 DEF ResumeClose, ServerRemove, removeConnectionInLoop, Waits, QueuesDestroyed
<1>9. ASSUME handleWrite PROVE Waits \/ QueuesComplete
  BY <1>9 DEF handleWrite, Waits, QueuesComplete
<1>10. ASSUME ServerDestroy \/ ServerDestroyInLoop PROVE Waits \/ QueuesDestroyed
  BY <1>10 DEF ServerDestroy, ServerDestroyInLoop, Waits, QueuesDestroyed, loop, polled
<1>11. ASSUME KernelDrains \/ PeerSends \/ PeerCloses \/ PeerResets PROVE Waits
  BY <1>11 DEF KernelDrains, PeerSends, PeerCloses, PeerResets, Waits, loop, polled
<1>12. ASSUME UNCHANGED vars PROVE Waits
  BY <1>12 DEF vars, Waits, loop, polled
<1>13. QED
  BY <1>1, <1>2, <1>3, <1>4, <1>5, <1>6, <1>7, <1>8, <1>9, <1>10, <1>11, <1>12
     DEF Next, UserCalls, LoopStep, Environment


-----------------------------------------------------------------------------
(* Before connectEstablished                                               *)

\* Until connectEstablished runs, only the server, the peer and the start of the
\* round happen.
LEMMA ConnectingSteps ==
  ASSUME TypeOK, ConnectingInv, state = "kConnecting", [Next]_vars
  PROVE  \/ connectEstablished
         \/ /\ UNCHANGED <<conn, stack, dispatch, pc, ups, downs>>
            /\ server' = "ended" \/ (server # "ended" /\ (Waits \/ QueuesDestroyed))
<1> DEFINE Still == /\ UNCHANGED <<conn, stack, dispatch, pc, ups, downs>>
                    /\ server' = "ended" \/ (server # "ended" /\ (Waits \/ QueuesDestroyed))
<1> USE DEF ConnectingInv
<1>1. ~UserReturn /\ ~UserCalls
  BY DEF UserReturn, UserCalls, UserSend, UserShutdown, UserForceClose, UserMay, InUserCode
<1>2. ~ResumeSend /\ ~ResumeClose /\ ~ResumeDestroy
  BY DEF ResumeSend, ResumeClose, ResumeDestroy, Resumes
<1>3. ~HandleOther /\ ~handleRead /\ ~handleWrite /\ ~Poll
  BY DEF HandleOther, handleRead, handleWrite, Dispatches, Poll
<1>4. ASSUME NEW t \in Threads
      PROVE  ~Thread(t) /\ ~ThreadGoesOn(t)
  BY DEF Thread, ThreadGoesOn, ThreadSend, ThreadShutdown, ThreadForceClose, Drop, ThreadMay, At,
     SetDisconnecting, QueueCall
<1>5. ~RunSend /\ ~RunShutdown /\ ~RunForceClose /\ ~RunWriteComplete /\ ~RunDestroyed
  BY DEF RunSend, RunShutdown, RunForceClose, RunWriteComplete, RunDestroyed, NextFunctor,
     LoopIdle
<1>6. ASSUME StartRound \/ EndRound PROVE Still
  BY <1>6 DEF StartRound, EndRound, RoundOver, LoopIdle, conn, polled, threads, owner, history, Waits
<1>7. ASSUME ServerRemove PROVE Still
  BY <1>7 DEF ServerRemove, removeConnectionInLoop, conn, polled, threads, history, Waits,
     QueuesDestroyed
<1>8. ASSUME ServerDestroy \/ LoopEnds PROVE Still
  BY <1>8 DEF ServerDestroy, LoopEnds, conn, polled, threads, history, Waits, QueuesDestroyed
<1>9. ~ServerDestroyInLoop
  BY DEF ServerDestroyInLoop
<1>10. ASSUME KernelDrains \/ PeerSends \/ PeerCloses \/ PeerResets PROVE Still
  BY <1>10 DEF KernelDrains, PeerSends, PeerCloses, PeerResets, conn, loop, polled, threads,
     owner, history, Waits
<1>11. ASSUME UNCHANGED vars PROVE Still
  BY <1>11 DEF vars, conn, loop, polled, threads, owner, history, Waits
<1>12. QED
  BY <1>1, <1>2, <1>3, <1>4, <1>5, <1>6, <1>7, <1>8, <1>9, <1>10, <1>11
     DEF Next, LoopStep, Environment

\* connectEstablished is the first thing that happens to the connection, and
\* never waits again.
LEMMA ConnectingStep ==
  ASSUME TypeOK, ThreadsInv, ConnectingInv, [Next]_vars
  PROVE  ConnectingInv'
<1> DEFINE F == FunctorsBut("established")
<1>1. /\ pending \in Seq(Functors) /\ Functor("destroyed") \in F
      /\ Functor("writeComplete") \in F
  BY FunctorTypes DEF TypeOK, LoopTypes, FunctorsBut, Ops, Functor
<1>2. CASE state = "kConnecting"
  <2>1. CASE connectEstablished
    <3>1. server # "ended"
      BY <2>1 DEF connectEstablished, NextFunctor, LoopIdle
    <3>2. QED  BY <1>2, <2>1, <3>1 DEF connectEstablished, ConnectingInv
  <2>2. CASE UNCHANGED <<conn, stack, dispatch, pc, ups, downs>> /\ server' = "ended"
    BY <1>2, <2>2 DEF ConnectingInv, conn
  <2>3. CASE /\ UNCHANGED <<conn, stack, dispatch, pc, ups, downs>>
             /\ server # "ended" /\ (Waits \/ QueuesDestroyed)
    <3>1. pending # <<>> /\ Head(pending).op = "established" /\ Tail(pending) \in Seq(F)
      BY <1>2, <2>3 DEF ConnectingInv
    <3>2. CASE Waits
      BY <1>2, <2>3, <3>1, <3>2 DEF ConnectingInv, Waits, conn
    <3>3. CASE QueuesDestroyed
      <4>1. Functor("destroyed") \in Functors
        BY <1>1 DEF FunctorsBut
      <4>2. /\ pending' # <<>> /\ Head(pending') = Head(pending)
            /\ Tail(pending') = Append(Tail(pending), Functor("destroyed"))
        BY <1>1, <3>1, <3>3, <4>1, HeadTailAppend, AppendProperties DEF QueuesDestroyed
      <4>3. Tail(pending') \in Seq(F)
        <5>1. Append(Tail(pending), Functor("destroyed")) \in Seq(F)
          <6> HIDE DEF F
          <6>1. QED  BY <1>1, <3>1, AppendProperties
        <5>2. QED  BY <4>2, <5>1
      <4>4. QED  BY <1>2, <2>3, <3>1, <4>2, <4>3 DEF ConnectingInv, conn
    <3>4. QED  BY <2>3, <3>2, <3>3
  <2>4. QED  BY <1>2, <2>1, <2>2, <2>3, ConnectingSteps
<1>3. CASE state # "kConnecting"
  <2>1. state' # "kConnecting"
    <3>1. ConnStep
      BY ConnSteps DEF ThreadsInv
    <3>2. QED
      BY <1>3, <3>1 DEF ConnStep, CalmStep, Stays, Opens, HalfCloses, Returns, CallsBack, AddsAtOnce,
         AddsLater, Adds, HoldsBack, Closes, ClosesAtLast, Removes, Flushes, core
  <2>2. pending \in Seq(F)
    BY <1>3 DEF ConnectingInv
  <2>3. ASSUME NEW op \in Ops, NextFunctor(op)
        PROVE  Tail(pending) \in Seq(F)
    <3>1. pending # <<>>
      BY <2>3, NextTypes DEF TypeOK
    <3> HIDE DEF F
    <3>2. QED  BY <2>2, <3>1, Pop
  <2>4. ASSUME NEW t \in Threads, QueueCall(t)
        PROVE  pending' \in Seq(F)
    <3> DEFINE f == IF pc[t] = "send" THEN SendFunctor(arg[t]) ELSE Functor(pc[t])
    <3>1. pending' = pending \/ pending' = Append(pending, f)
      BY <2>4 DEF QueueCall
    <3>2. f \in F
      <4>1. CASE pc[t] = "send"
        BY <4>1, FunctorTypes DEF FunctorsBut, SendFunctor, TypeOK, ThreadTypes
      <4>2. CASE pc[t] # "send"
        BY <2>4, <4>2, FunctorTypes DEF QueueCall, FunctorsBut, Functor, Ops
      <4>3. QED  BY <4>1, <4>2
    <3> HIDE DEF F, f
    <3>3. QED  BY <2>2, <3>1, <3>2, AppendProperties
  <2>5. pending' \in Seq(F)
    <3>1. CASE Waits
      BY <2>2, <3>1 DEF Waits
    <3>2. CASE QueuesDestroyed \/ QueuesComplete
      <4>1. pending' \in {Append(pending, Functor("destroyed")), Append(pending, Functor("writeComplete"))}
        BY <3>2 DEF QueuesDestroyed, QueuesComplete
      <4> HIDE DEF F
      <4>2. QED  BY <1>1, <2>2, <4>1, AppendProperties
    <3>3. CASE TakesSend
      <4>1. Tail(pending) \in Seq(F) /\ pending' = Append(Tail(pending), Functor("writeComplete"))
        BY <2>3, <3>3 DEF TakesSend, Ops
      <4> HIDE DEF F
      <4>2. QED  BY <1>1, <4>1, AppendProperties
    <3>4. CASE \E op \in Ops : Takes(op)
      BY <2>3, <3>4 DEF Takes
    <3>5. CASE LoopEnds
      BY <3>5, EmptySeq DEF LoopEnds
    <3>6. QED  BY <2>4, <3>1, <3>2, <3>3, <3>4, <3>5, FunctorSteps DEF FunctorStep
  <2>6. QED  BY <2>1, <2>5 DEF ConnectingInv
<1>4. QED  BY <1>2, <1>3

-----------------------------------------------------------------------------
(* The state, the interest in writing and the frames                       *)

\* state_ and the callbacks change together.
LEMMA HeardStep ==
  ASSUME TypeOK, ThreadsInv, ConnectingInv, HeardInv, [Next]_vars
  PROVE  HeardInv'
<1>1. ConnStep
  BY ConnSteps DEF ThreadsInv
<1>2. ups \in Nat /\ downs \in Nat
  BY DEF TypeOK, HistoryTypes
<1>3. CASE Opens
  BY <1>2, <1>3 DEF Opens, HeardInv, ConnectingInv, Up
<1>4. CASE HalfCloses
  BY <1>4 DEF HalfCloses, HeardInv, Up
<1>5. CASE Closes \/ ClosesAtLast
  BY <1>5 DEF Closes, ClosesAtLast, HeardInv, Up
<1>6. UNCHANGED <<state, ups, downs>> => HeardInv'
  BY DEF HeardInv, Up
<1>7. QED
  BY <1>1, <1>3, <1>4, <1>5, <1>6 DEF ConnStep, CalmStep, Stays, Returns, CallsBack, AddsAtOnce, AddsLater,
     Adds, HoldsBack, Removes, Flushes, core

\* What sendInLoop holds back is not empty.
LEMMA HeldStep ==
  ASSUME TypeOK, ThreadsInv, HeldInv, [Next]_vars
  PROVE  HeldInv'
<1>1. ConnStep
  BY ConnSteps DEF ThreadsInv
<1>2. /\ \A place \in Places : User(place) \in SolidFrames
      /\ \A kind \in {"close", "remove"} : Frame(kind) \in SolidFrames
      /\ \A rest \in ByteSeqs \ {<<>>} : Append_(rest) \in SolidFrames
  BY FrameTypes DEF SolidFrames, User, Frame, Append_
<1>3. stack \in Seq(SolidFrames)
  BY DEF HeldInv
<1>4. stack # <<>> => Tail(stack) \in Seq(SolidFrames)
  BY <1>3, Pop
<1>5. CASE UNCHANGED stack
  BY <1>5 DEF HeldInv
<1>6. CASE Returns \/ AddsLater
  BY <1>4, <1>6 DEF Returns, AddsLater, HeldInv
<1>7. CASE Opens \/ CallsBack("message") \/ CallsBack("writeComplete") \/ CallsBack("other")
           \/ Removes
  <2>1. stack' \in {<<User("connection")>>, <<User("message")>>, <<User("writeComplete")>>,
                    <<User("other")>>, <<Frame("remove")>>}
    BY <1>7 DEF Opens, CallsBack, Removes
  <2>2. /\ <<User("connection")>> \in Seq(SolidFrames)
        /\ <<User("message")>> \in Seq(SolidFrames)
        /\ <<User("writeComplete")>> \in Seq(SolidFrames)
        /\ <<User("other")>> \in Seq(SolidFrames)
        /\ <<Frame("remove")>> \in Seq(SolidFrames)
    BY <1>2 DEF Places
  <2>3. QED  BY <2>1, <2>2 DEF HeldInv
<1>8. CASE HoldsBack
  <2>1. PICK rest \in ByteSeqs \ {<<>>} :
          stack' = <<User("highWater"), Append_(rest)>> \o stack
    BY <1>8 DEF HoldsBack
  <2>2. User("highWater") \in SolidFrames /\ Append_(rest) \in SolidFrames
    BY <1>2 DEF Places
  <2>3. QED  BY <1>3, <2>1, <2>2, PushTwo DEF HeldInv
<1>9. CASE Closes
  <2>1. User("connection") \in SolidFrames /\ Frame("close") \in SolidFrames
    BY <1>2 DEF Places
  <2>2. QED  BY <1>3, <1>9, <2>1, PushTwo DEF Closes, HeldInv
<1>10. CASE ClosesAtLast
  <2>1. User("connection") \in SolidFrames /\ Frame("remove") \in SolidFrames
    BY <1>2 DEF Places
  <2>2. <<User("connection"), Frame("remove")>> \in Seq(SolidFrames)
    BY <2>1
  <2>3. QED  BY <1>10, <2>2 DEF ClosesAtLast, HeldInv
<1>11. QED
  BY <1>1, <1>5, <1>6, <1>7, <1>8, <1>9, <1>10 DEF ConnStep, CalmStep, Stays, HalfCloses, AddsAtOnce, Flushes

\* What an append and a retrieve do to the number of bytes that wait.
LEMMA AppendGrows ==
  ASSUME NEW b, WellFormed(b), NEW data \in Seq(Bytes) \ {<<>>}
  PROVE  /\ readableBytes(append(b, data)) \in Nat
         /\ readableBytes(append(b, data)) > readableBytes(b)
<1>1. Len(data) \in Nat \ {0}
  BY EmptySeq, LenProperties
<1>2. WellFormed(append(b, data))
  BY AppendKeepsWellFormed
<1>3. Len(Readable(append(b, data))) >= Len(Readable(b)) + Len(data)
  BY AppendInOrder
<1>4. QED  BY <1>1, <1>2, <1>3, ReadableProperties

LEMMA RetrieveShrinks ==
  ASSUME NEW b, WellFormed(b), NEW n \in 0..readableBytes(b)
  PROVE  readableBytes(retrieve(b, n)) = readableBytes(b) - n
<1>1. readableBytes(b) \in Nat
  BY ReadableProperties
<1>2. CASE n < readableBytes(b)
  BY <1>2, WellFormedFacts DEF retrieve, readableBytes, Record
<1>3. CASE n = readableBytes(b)
  BY <1>1, <1>3, BufferAssumption DEF retrieve, retrieveAll, readableBytes, Record
<1>4. QED  BY <1>1, <1>2, <1>3

\* The interest in writing changes with the output buffer: sendInLoop enables
\* it, the handleWrite that empties the buffer disables it.
LEMMA WritingStep ==
  ASSUME TypeOK, ThreadsInv, ConnectingInv, HeldInv, WritingIffBuffered, [Next]_vars
  PROVE  WritingIffBuffered'
<1> USE DEF WritingIffBuffered, Writing
<1>1. ConnStep
  BY ConnSteps DEF ThreadsInv
<1>2. WellFormed(output) /\ readableBytes(output) \in Nat
  BY ReadableProperties DEF TypeOK, ConnTypes, WellFormed
<1>3. CASE UNCHANGED <<events, output>> /\ (state' = state \/ HalfCloses)
  BY <1>3 DEF HalfCloses
<1>4. CASE Opens
  <2>1. output' = NewBuffer /\ events' = {"R"}
    BY <1>4 DEF Opens, ConnectingInv
  <2>2. readableBytes(NewBuffer) = 0
    BY NewBufferWellFormed, BufferAssumption DEF readableBytes
  <2>3. QED  BY <2>1, <2>2
<1>5. CASE Closes \/ ClosesAtLast
  BY <1>5 DEF Closes, ClosesAtLast
<1>6. ASSUME NEW rest \in ByteSeqs \ {<<>>}, Adds(rest) PROVE WritingIffBuffered'
  <2>1. readableBytes(output') # 0
    BY <1>2, <1>6, AppendGrows DEF Adds, ByteSeqs
  <2>2. QED  BY <1>6, <2>1 DEF Adds
<1>7. CASE AddsLater
  <2>1. Head(stack) \in SolidFrames
    BY <1>7, Pop DEF AddsLater, HeldInv
  <2>2. Head(stack).bytes \in ByteSeqs \ {<<>>}
    BY <1>7, <2>1, FunctorTypes DEF AddsLater, SolidFrames
  <2>3. QED  BY <1>6, <1>7, <2>2 DEF AddsLater
<1>8. CASE Flushes
  <2>1. PICK n \in 0..readableBytes(output) :
          /\ output' = IF n > 0 THEN retrieve(output, n) ELSE output
          /\ events' = IF n > 0 /\ n = readableBytes(output) THEN events \ {"W"} ELSE events
    BY <1>8 DEF Flushes
  <2>2. Writing /\ state' = state
    BY <1>8 DEF Flushes
  <2>3. n > 0 => readableBytes(output') = readableBytes(output) - n
    BY <1>2, <2>1, RetrieveShrinks
  <2>4. n \in Nat /\ (n = 0 => output' = output)
    BY <1>2, <2>1
  <2>5. CASE n = 0
    BY <2>1, <2>2, <2>4, <2>5
  <2>6. CASE n > 0 /\ n = readableBytes(output)
    BY <1>2, <2>1, <2>3, <2>6
  <2>7. CASE n > 0 /\ n # readableBytes(output)
    BY <1>2, <2>1, <2>2, <2>3, <2>7
  <2>8. QED  BY <2>4, <2>5, <2>6, <2>7
<1>9. QED
  BY <1>1, <1>3, <1>4, <1>5, <1>6, <1>7, <1>8 DEF ConnStep, CalmStep, Stays, HalfCloses, Returns, CallsBack,
     AddsAtOnce, HoldsBack, Removes, core

-----------------------------------------------------------------------------
(* Sends that wait for the high water callback                             *)

\* The callback of sendInLoop starts only while the connection is up.
LEMMA HoldsWhileUp ==
  ASSUME TypeOK, ConnectingInv, [Next]_vars, HoldsBack
  PROVE  Up
<1>1. state # "kConnecting"
  <2> SUFFICES ASSUME state = "kConnecting" PROVE FALSE
    OBVIOUS
  <2>1. stack = <<>>
    BY DEF ConnectingInv
  <2>2. stack' = <<>> \/ stack' = <<User("connection")>>
    BY <2>1, ConnectingSteps DEF connectEstablished, Fail
  <2>3. PICK rest \in ByteSeqs :
          stack' = <<User("highWater"), Append_(rest)>> \o stack
    BY DEF HoldsBack
  <2>4. Len(stack') = 2
    <3>1. User("highWater") \in Frames /\ Append_(rest) \in Frames /\ <<>> \in Seq(Frames)
      BY FrameTypes, EmptySeq DEF Places
    <3>2. Len(stack') = Len(<<>>) + 2
      BY <2>1, <2>3, <3>1, PushTwo
    <3>3. QED  BY <3>2
  <2>5. Len(<<>>) = 0 /\ Len(<<User("connection")>>) = 1
    OBVIOUS
  <2>6. QED  BY <2>2, <2>4, <2>5
<1>2. QED  BY <1>1 DEF HoldsBack, Up, TypeOK, ConnTypes

\* Frames are put above a send that waits for its high water callback only by
\* other such sends, or when the connection goes down.
LEMMA AboveStep ==
  ASSUME TypeOK, ThreadsInv, ConnectingInv, AboveInv, [Next]_vars
  PROVE  AboveInv'
<1> USE DEF AboveInv
<1>1. ConnStep
  BY ConnSteps DEF ThreadsInv
<1>2. stack \in Seq(Frames) /\ Len(stack) \in Nat
  BY LenProperties DEF TypeOK, ConnTypes
<1>3. CASE stack' = stack /\ (Up' => Up)
  BY <1>3
<1>4. ASSUME stack # <<>>, stack' = Tail(stack), state' = state
      PROVE  AboveInv'
  <2>1. /\ Len(stack') = Len(stack) - 1
        /\ \A i \in 1..Len(stack') : i + 1 \in 1..Len(stack) /\ stack'[i] = stack[i + 1]
    BY <1>2, <1>4, Pop
  <2>2. ASSUME Up', NEW j \in 1..Len(stack'), stack'[j].frame = "append", NEW i \in 1..j - 1
        PROVE  stack'[i].frame = "append" \/ stack'[i] = User("highWater")
    <3>1. j + 1 \in 1..Len(stack) /\ stack[j + 1].frame = "append"
      BY <2>1, <2>2
    <3>2. i \in 1..Len(stack') /\ i + 1 \in 1..(j + 1) - 1
      BY <1>2, <2>1
    <3>3. Up
      BY <1>4, <2>2 DEF Up
    <3>4. stack[i + 1].frame = "append" \/ stack[i + 1] = User("highWater")
      BY <3>1, <3>2, <3>3
    <3>5. QED  BY <2>1, <3>2, <3>4
  <2>3. QED  BY <2>2
<1>5. ASSUME NEW f, stack' = <<f>>, f.frame # "append"
      PROVE  AboveInv'
  <2>1. Len(stack') = 1 /\ stack'[1] = f
    BY <1>5
  <2>2. QED  BY <1>5, <2>1
<1>6. CASE Returns \/ AddsLater
  BY <1>4, <1>6 DEF Returns, AddsLater, Adds, core
<1>7. CASE Opens
  BY <1>5, <1>7 DEF Opens, User
<1>8. ASSUME NEW place, CallsBack(place) PROVE AboveInv'
  BY <1>5, <1>8 DEF CallsBack, User
<1>9. CASE Removes
  BY <1>5, <1>9 DEF Removes, Frame
<1>10. CASE Closes \/ ClosesAtLast
  BY <1>10 DEF Closes, ClosesAtLast, Up
<1>11. CASE HoldsBack
  <2>1. PICK rest \in ByteSeqs :
          stack' = <<User("highWater"), Append_(rest)>> \o stack
    BY <1>11 DEF HoldsBack
  <2>2. User("highWater") \in Frames /\ Append_(rest) \in Frames
    BY FrameTypes DEF Places
  <2>3. /\ Len(stack') = Len(stack) + 2
        /\ stack'[1] = User("highWater") /\ stack'[2] = Append_(rest)
        /\ \A i \in 3..Len(stack') : i - 2 \in 1..Len(stack) /\ stack'[i] = stack[i - 2]
    BY <1>2, <2>1, <2>2, PushTwo
  <2>4. Up
    BY <1>11, HoldsWhileUp
  <2>5. ASSUME NEW j \in 1..Len(stack'), stack'[j].frame = "append", NEW i \in 1..j - 1
        PROVE  stack'[i].frame = "append" \/ stack'[i] = User("highWater")
    <3>1. CASE i = 1
      BY <2>3, <3>1
    <3>2. CASE i = 2
      BY <2>3, <3>2 DEF Append_
    <3>3. CASE i \in 3..j - 1
      <4>1. j \in 3..Len(stack') /\ i \in 3..Len(stack') /\ i - 2 \in 1..(j - 2) - 1
        BY <1>2, <2>3, <3>3
      <4>2. j - 2 \in 1..Len(stack) /\ stack[j - 2].frame = "append" /\ stack'[i] = stack[i - 2]
        BY <2>3, <2>5, <4>1
      <4>3. stack[i - 2].frame = "append" \/ stack[i - 2] = User("highWater")
        BY <2>4, <4>1, <4>2
      <4>4. QED  BY <4>2, <4>3
    <3>4. QED  BY <3>1, <3>2, <3>3
  <2>6. QED  BY <2>5
<1>12. QED
  BY <1>1, <1>3, <1>6, <1>7, <1>8, <1>9, <1>10, <1>11
     DEF ConnStep, CalmStep, Stays, HalfCloses, AddsAtOnce, Adds, Flushes, Up, core

\* The invariant holds at the start.
LEMMA OnceStart == Init => OnceInv
<1> SUFFICES ASSUME Init PROVE OnceInv
  OBVIOUS
<1>1. TypeOK
  BY TypesStart
<1>2. ThreadsInv
  BY DEF Init, ThreadsInv
<1>3. ConnectingInv
  <2>1. pending = <<Functor("established")>>
    BY DEF Init
  <2>2. /\ pending # <<>> /\ Head(pending).op = "established"
        /\ Tail(pending) \in Seq(FunctorsBut("established"))
    BY <2>1, EmptySeq DEF Functor
  <2>3. QED  BY <2>2 DEF Init, ConnectingInv
<1>4. HeardInv /\ WritingIffBuffered
  BY DEF Init, HeardInv, WritingIffBuffered, Up
<1>5. HeldInv
  BY EmptySeq DEF Init, HeldInv
<1>6. AboveInv
  BY DEF Init, AboveInv, Up
<1>7. QED  BY <1>1, <1>2, <1>3, <1>4, <1>5, <1>6 DEF OnceInv

\* The first layer: what is true of the connection alone, so long as no other
\* thread calls forceClose (tcp_conncetion.cc:120-127).
THEOREM OnceInvariant == ASSUME CloseInLoop PROVE Spec => []OnceInv
<1>1. ASSUME OnceInv, TypeOK', [Next]_vars PROVE OnceInv'
  BY CloseInLoop, <1>1, ThreadsStep, ConnectingStep, HeardStep, HeldStep, AboveStep, WritingStep DEF OnceInv
<1>2. QED  BY <1>1, OnceStart, TypeCorrect, PTL DEF Spec

\* The user hears once that the connection is up, and at most once, and only
\* after that, that it is down.
THEOREM DownOnceHolds == ASSUME CloseInLoop PROVE Spec => []DownOnce
<1>1. OnceInv => DownOnce
  <2>1. OnceInv => state \in {"kConnecting", "kConnected", "kDisconnecting", "kDisconnected"}
    BY DEF OnceInv, TypeOK, ConnTypes
  <2>2. QED  BY <2>1 DEF OnceInv, ConnectingInv, HeardInv, Up, DownOnce
<1>2. QED  BY <1>1, OnceInvariant, PTL

\* While the connection is up, it is interested in writing when bytes wait,
\* and only then.
THEOREM WritingAgrees == ASSUME CloseInLoop PROVE Spec => []WritingIffBuffered
<1>1. OnceInv => WritingIffBuffered
  BY DEF OnceInv
<1>2. QED  BY <1>1, OnceInvariant, PTL


-----------------------------------------------------------------------------
(* Quiet once down                                                         *)

\* Without this, forceClose in the high water callback closes the connection
\* under a sendInLoop that then enables writing again.
HighWaterKeepsOpen == "forceClose" \notin Calls["highWater"]

\* A connection that is down has no interest in events, and no sendInLoop
\* that is still to enable writing is on the stack.
QuietInv ==
  /\ state = "kDisconnected" => events = {}
  /\ \A j \in 1..Len(stack) : stack[j].frame = "append" => Up

\* Every step keeps a closed connection quiet: the close finds no sendInLoop on
\* the stack, and none starts afterwards.
LEMMA QuietStep ==
  ASSUME HighWaterKeepsOpen, OnceInv, QuietInv, [Next]_vars
  PROVE  QuietInv'
<1> USE DEF QuietInv
<1>1. ConnStep
  BY ConnSteps DEF OnceInv, ThreadsInv
<1>2. stack \in Seq(Frames) /\ Len(stack) \in Nat
  BY LenProperties DEF OnceInv, TypeOK, ConnTypes
<1>3. CASE UNCHANGED <<stack, state>> /\ (state # "kDisconnected" \/ events' = events)
  BY <1>3 DEF Up
<1>4. CASE HalfCloses
  BY <1>4 DEF HalfCloses, Up
<1>5. ASSUME stack # <<>>, stack' = Tail(stack), state' = state,
             state # "kDisconnected" \/ events' = events
      PROVE  QuietInv'
  <2>1. \A i \in 1..Len(stack') : i + 1 \in 1..Len(stack) /\ stack'[i] = stack[i + 1]
    BY <1>2, <1>5, Pop
  <2>2. QED  BY <1>5, <2>1 DEF Up
<1>6. CASE Returns
  BY <1>5, <1>6 DEF Returns, core
<1>7. CASE AddsLater
  <2>1. 1 \in 1..Len(stack) /\ stack[1].frame = "append"
    BY <1>2, <1>7, Pop DEF AddsLater
  <2>2. Up
    BY <2>1
  <2>3. QED  BY <1>5, <1>7, <2>2 DEF AddsLater, Adds, Up
<1>8. ASSUME NEW f, stack' = <<f>>, f.frame # "append",
             state' # "kDisconnected" \/ events' = {} \/ UNCHANGED <<state, events>>
      PROVE  QuietInv'
  <2>1. Len(stack') = 1 /\ stack'[1] = f
    BY <1>8
  <2>2. QED  BY <1>8, <2>1
<1>9. CASE Opens
  BY <1>8, <1>9 DEF Opens, User
<1>10. ASSUME NEW place, CallsBack(place) PROVE QuietInv'
  BY <1>8, <1>10 DEF CallsBack, User, core
<1>11. CASE Removes
  BY <1>8, <1>11 DEF Removes, Frame, core
<1>12. CASE ClosesAtLast
  <2>1. Len(stack') = 2 /\ stack'[1] = User("connection") /\ stack'[2] = Frame("remove")
    BY <1>12 DEF ClosesAtLast
  <2>2. \A i \in 1..Len(stack') : stack'[i].frame # "append"
    BY <2>1 DEF User, Frame
  <2>3. QED  BY <1>12, <2>2 DEF ClosesAtLast
<1>13. CASE HoldsBack
  <2>1. Up
    BY <1>13, HoldsWhileUp DEF OnceInv
  <2>2. QED  BY <1>13, <2>1 DEF HoldsBack, core, Up
<1>14. CASE Closes
  <2>1. \A j \in 1..Len(stack) : stack[j].frame # "append"
    <3> SUFFICES ASSUME NEW j \in 1..Len(stack), stack[j].frame = "append" PROVE FALSE
      OBVIOUS
    <3>1. stack # <<>> /\ Head(stack) = stack[1]
      BY <1>2, EmptySeq
    <3>2. stack[1].frame = "user" /\ "forceClose" \in Calls[stack[1].place]
      BY <1>14, <3>1 DEF Closes, From
    <3>3. j > 1
      BY <1>2, <3>2
    <3>4. stack[1] = User("highWater")
      BY <1>14, <3>2, <3>3 DEF Closes, OnceInv, AboveInv
    <3>5. QED  BY <3>2, <3>4 DEF HighWaterKeepsOpen, User
  <2>2. User("connection") \in Frames /\ Frame("close") \in Frames
    BY FrameTypes DEF Places
  <2>3. /\ Len(stack') = Len(stack) + 2
        /\ stack'[1] = User("connection") /\ stack'[2] = Frame("close")
        /\ \A i \in 3..Len(stack') : i - 2 \in 1..Len(stack) /\ stack'[i] = stack[i - 2]
    BY <1>2, <1>14, <2>2, PushTwo DEF Closes
  <2>4. ASSUME NEW j \in 1..Len(stack') PROVE stack'[j].frame # "append"
    <3>1. CASE j \in {1, 2}
      BY <2>3, <3>1 DEF User, Frame
    <3>2. CASE j \notin {1, 2}
      <4>1. j \in 3..Len(stack')
        BY <3>2
      <4>2. QED  BY <2>1, <2>3, <4>1
    <3>3. QED  BY <3>1, <3>2
  <2>5. QED  BY <1>14, <2>4 DEF Closes
<1>15. CASE Flushes
  BY <1>15 DEF Flushes, Writing, Up
<1>16. QED
  BY <1>1, <1>3, <1>4, <1>6, <1>7, <1>9, <1>10, <1>11, <1>12, <1>13, <1>14, <1>15
     DEF ConnStep, CalmStep, Stays, AddsAtOnce, Adds, core

\* The invariant holds at the start.
LEMMA QuietStart == Init => QuietInv
BY DEF Init, QuietInv

\* The second layer: a closed connection is quiet, because no forceClose comes
\* from the high water callback.
THEOREM QuietInvariant ==
  ASSUME CloseInLoop, HighWaterKeepsOpen
  PROVE  Spec => []QuietInv
<1>1. OnceInv /\ QuietInv /\ [Next]_vars => QuietInv'
  BY HighWaterKeepsOpen, QuietStep
<1>2. QED  BY CloseInLoop, <1>1, QuietStart, OnceInvariant, PTL DEF Spec

\* Once the user has heard that the connection is down, its channel stays
\* without interest in events, whatever functors of it still run.
THEOREM QuietWhenDown ==
  ASSUME CloseInLoop, HighWaterKeepsOpen
  PROVE  Spec => []QuietAfterDown
<1>1. OnceInv /\ QuietInv => QuietAfterDown
  BY DEF OnceInv, TypeOK, ConnTypes, ConnectingInv, HeardInv, QuietInv, Up, QuietAfterDown
<1>2. QED  BY CloseInLoop, HighWaterKeepsOpen, <1>1, OnceInvariant, QuietInvariant, PTL


-----------------------------------------------------------------------------
(* Callbacks while up                                                      *)

\* Every event that waits counts as a handler. The only one that an iteration
\* dispatches, before any other handler has used the connection, meets the
\* connection as poll did.
DispatchInv ==
  /\ Len(dispatch) <= handlers
  /\ dispatch # <<>> /\ handlers <= 1 =>
       /\ stack = <<>>
       /\ Head(dispatch) = "R" => Up

\* The events that wait and the count of handlers change in these steps only.
LEMMA DispatchSteps ==
  ASSUME [Next]_vars
  PROVE  polled' = polled \/ Poll \/ HandleOther \/ handleRead \/ handleWrite \/ StartRound
<1>1. ASSUME UserCalls \/ UserReturn \/ ResumeSend \/ ResumeClose \/ ResumeDestroy
      PROVE  polled' = polled
  BY <1>1 DEF UserCalls, UserSend, UserShutdown, UserForceClose, UserReturn, ResumeSend, ResumeClose,
     ResumeDestroy, loop
<1>2. ASSUME NEW t \in Threads, Thread(t) \/ ThreadGoesOn(t)
      PROVE  polled' = polled
  BY <1>2 DEF Thread, ThreadGoesOn, ThreadSend, ThreadShutdown, ThreadForceClose, Drop,
     SetDisconnecting, QueueCall, loop
<1>3. ASSUME \/ EndRound \/ connectEstablished \/ RunSend \/ RunShutdown
             \/ RunForceClose \/ RunWriteComplete \/ RunDestroyed
      PROVE  polled' = polled
  BY <1>3 DEF EndRound, connectEstablished, RunSend, RunShutdown, RunForceClose,
     RunWriteComplete, RunDestroyed, NextFunctor
<1>4. ASSUME ServerRemove \/ KernelDrains \/ Environment
      PROVE  polled' = polled
  BY <1>4 DEF ServerRemove, KernelDrains, Environment, ServerDestroy, LoopEnds,
     ServerDestroyInLoop, PeerSends, PeerCloses, PeerResets, loop
<1>5. UNCHANGED vars => polled' = polled
  BY DEF vars, loop
<1>6. QED
  BY <1>1, <1>2, <1>3, <1>4, <1>5 DEF Next, LoopStep

\* While events wait to be dispatched, the loop does nothing but what its
\* callbacks do, and go on with the events.
LEMMA DispatchingSteps ==
  ASSUME ThreadsInv, dispatch # <<>>, [Next]_vars
  PROVE  \/ handleRead \/ handleWrite \/ HandleOther
         \/ stack # <<>> \/ Stays \/ HalfCloses
<1>1. ASSUME UserCalls \/ UserReturn \/ ResumeSend \/ ResumeClose \/ ResumeDestroy
      PROVE  stack # <<>>
  BY <1>1 DEF UserCalls, UserSend, UserShutdown, UserForceClose, UserReturn, UserMay, InUserCode,
     ResumeSend, ResumeClose, ResumeDestroy, Resumes
<1>2. ASSUME NEW t \in Threads, Thread(t)
      PROVE  Stays \/ HalfCloses
  BY <1>2 DEF Thread, ThreadSend, ThreadShutdown, ThreadForceClose, Drop, ThreadMay, Places, Stays,
     HalfCloses, core, conn, history
<1>3. ASSUME NEW t \in Threads, ThreadGoesOn(t)
      PROVE  Stays
  <2>1. ~SetDisconnecting(t)
    BY DEF SetDisconnecting, At, ThreadsInv
  <2>2. QED  BY <1>3, <2>1 DEF ThreadGoesOn, QueueCall, Stays, core, conn
<1>4. ~StartRound /\ ~EndRound /\ ~connectEstablished /\ ~RunSend /\ ~RunShutdown
      /\ ~RunForceClose /\ ~RunWriteComplete /\ ~RunDestroyed /\ ~Poll /\ ~ServerDestroyInLoop
      /\ ~LoopEnds
  BY DEF StartRound, EndRound, connectEstablished, RunSend, RunShutdown, RunForceClose,
     RunWriteComplete, RunDestroyed, Poll, ServerDestroyInLoop, LoopEnds, NextFunctor, RoundOver,
     LoopIdle
<1>5. ASSUME ServerRemove \/ KernelDrains \/ ServerDestroy \/ PeerSends \/ PeerCloses \/ PeerResets
      PROVE  Stays
  BY <1>5 DEF ServerRemove, KernelDrains, ServerDestroy, PeerSends, PeerCloses, PeerResets, Stays,
     core, conn, history
<1>6. ASSUME UNCHANGED vars PROVE Stays
  BY <1>6 DEF vars, Stays, core, conn, history
<1>7. QED
  BY <1>1, <1>2, <1>3, <1>4, <1>5, <1>6 DEF Next, LoopStep, Environment

\* poll reports nothing of a connection that is not up, and a handler that has
\* begun is counted.
LEMMA DispatchStep ==
  ASSUME OnceInv, QuietInv, DispatchInv, [Next]_vars
  PROVE  DispatchInv'
<1>1. /\ dispatch \in Seq({"R", "W"}) /\ handlers \in Nat
      /\ Len(dispatch) \in Nat /\ (dispatch # <<>> => Len(dispatch) > 0)
  BY EmptySeq, LenProperties DEF OnceInv, TypeOK, LoopTypes
<1>2. CASE Poll
  <2>1. PICK e \in Ready : dispatch' = [i \in 1..Cardinality(Ready) |-> e]
    BY <1>2 DEF Poll
  <2>2. Ready \subseteq {"R", "W"} /\ Ready \subseteq events
    BY DEF Ready, OnceInv, TypeOK, ConnTypes
  <2>3. Cardinality(Ready) \in Nat /\ Cardinality(Ready) > 0
    BY <2>1, <2>2, ReadyCount
  <2>4. Head(dispatch') = e /\ Len(dispatch') = Cardinality(Ready)
    BY <2>1, <2>3
  <2>5. events # {} => Up
    BY DEF QuietInv, OnceInv, ConnectingInv, TypeOK, ConnTypes, Up
  <2>6. Up' /\ stack' = <<>>
    BY <1>2, <2>1, <2>2, <2>5 DEF Poll, RoundOver, LoopIdle, conn, Up
  <2>7. Len(dispatch') <= handlers'
    BY <1>2, <2>3, <2>4 DEF Poll
  <2>8. QED  BY <2>6, <2>7 DEF DispatchInv
<1>3. ASSUME NEW e, Dispatches(e) PROVE DispatchInv'
  <2>1. /\ dispatch' \in Seq({"R", "W"}) /\ Len(dispatch') = Len(dispatch) - 1
        /\ Len(dispatch) > 0
    BY <1>1, <1>3, DispatchTypes
  <2>2. handlers' = handlers
    BY <1>3 DEF Dispatches
  <2>3. Len(dispatch') <= handlers' /\ (handlers' <= 1 => Len(dispatch') = 0)
    BY <1>1, <2>1, <2>2 DEF DispatchInv
  <2>4. Len(dispatch') = 0 => dispatch' = <<>>
    BY <2>1, EmptySeq
  <2>5. QED  BY <2>3, <2>4 DEF DispatchInv
<1>4. CASE handleRead \/ handleWrite
  BY <1>3, <1>4 DEF handleRead, handleWrite
<1>5. CASE HandleOther
  <2>1. dispatch' = dispatch /\ handlers' = handlers + 1 /\ dispatch # <<>>
    BY <1>5 DEF HandleOther
  <2>2. Len(dispatch) <= handlers + 1 /\ ~(handlers + 1 <= 1)
    BY <1>1, <2>1 DEF DispatchInv
  <2>3. QED  BY <2>1, <2>2 DEF DispatchInv
<1>6. CASE StartRound
  <2>1. dispatch' = <<>> /\ handlers' = 0
    BY <1>6 DEF StartRound, RoundOver, LoopIdle
  <2>2. Len(<<>>) <= 0
    OBVIOUS
  <2>3. QED  BY <2>1, <2>2 DEF DispatchInv
<1>7. CASE polled' = polled /\ ~(handleRead \/ handleWrite \/ HandleOther)
  <2>1. dispatch' = dispatch /\ handlers' = handlers
    BY <1>7 DEF polled
  <2>2. ASSUME dispatch # <<>>, handlers <= 1
        PROVE  stack' = <<>> /\ (Head(dispatch) = "R" => Up')
    <3>1. stack = <<>> /\ (Head(dispatch) = "R" => Up)
      BY <2>2 DEF DispatchInv
    <3>2. Stays \/ HalfCloses
      BY <1>7, <2>2, <3>1, DispatchingSteps DEF OnceInv
    <3>3. QED  BY <3>1, <3>2 DEF Stays, HalfCloses, core, Up
  <2>3. QED  BY <2>1, <2>2 DEF DispatchInv
<1>8. QED  BY <1>2, <1>4, <1>5, <1>6, <1>7, DispatchSteps

\* The invariant holds at the start.
LEMMA DispatchStart == Init => DispatchInv
<1> SUFFICES ASSUME Init PROVE DispatchInv
  OBVIOUS
<1>1. dispatch = <<>> /\ handlers = 0 /\ Len(<<>>) <= 0
  BY DEF Init
<1>2. QED  BY <1>1 DEF DispatchInv

\* The third layer: an event that was polled is dispatched in the state in which
\* it was polled, unless an earlier handler of the same iteration has used the
\* connection (eventloop.cc:71, kqueue_poller.cc:36).
THEOREM DispatchInvariant ==
  ASSUME CloseInLoop, HighWaterKeepsOpen
  PROVE  Spec => []DispatchInv
<1>1. OnceInv /\ QuietInv /\ DispatchInv /\ [Next]_vars => DispatchInv'
  BY DispatchStep
<1>2. QED
  BY CloseInLoop, HighWaterKeepsOpen, <1>1, DispatchStart, OnceInvariant, QuietInvariant, PTL DEF Spec

\* A read event is dispatched only when the connection is open, and finds it
\* down only behind another handler of the iteration.
LEMMA ReadsWhileUp ==
  ASSUME OnceInv, DispatchInv, handleRead
  PROVE  state # "kConnecting" /\ (Up \/ handlers > 1)
<1>1. dispatch # <<>> /\ Head(dispatch) = "R"
  BY DEF handleRead, Dispatches
<1>2. handlers \in Nat
  BY DEF OnceInv, TypeOK, LoopTypes
<1>3. QED  BY <1>1, <1>2 DEF DispatchInv, OnceInv, ConnectingInv

\* No message and no high water callback starts before the user has heard
\* that the connection is up, or after they heard that it is down, but for a
\* message callback behind another handler of the iteration.
THEOREM CallbacksInOrder ==
  ASSUME CloseInLoop, HighWaterKeepsOpen
  PROVE  Spec => CallbacksWhileUp
<1> DEFINE Starts == /\ stack' # stack
                     /\ Len(stack') > Len(stack)
                     /\ Head(stack').frame = "user"
                     /\ Head(stack').place \in {"message", "highWater"}
           InOrder == /\ ups = 1
                      /\ downs = 0 \/ (Head(stack').place = "message" /\ handlers > 1)
<1>1. ASSUME OnceInv, DispatchInv, [Next]_vars, Starts PROVE InOrder
  <2>1. ConnStep /\ stack \in Seq(Frames) /\ TypeOK
    BY <1>1, ConnSteps DEF OnceInv, TypeOK, ConnTypes, ThreadsInv
  <2>2. ~Stays /\ ~HalfCloses /\ ~AddsAtOnce /\ ~Flushes
    BY <1>1 DEF Stays, HalfCloses, AddsAtOnce, Flushes
  <2>3. ~Returns /\ ~AddsLater
    <3>1. stack # <<>> => Len(Tail(stack)) = Len(stack) - 1 /\ Len(stack) \in Nat
      BY <2>1, Pop
    <3>2. QED  BY <1>1, <3>1 DEF Returns, AddsLater
  <2>4. ~Opens /\ ~CallsBack("writeComplete") /\ ~CallsBack("other") /\ ~ClosesAtLast /\ ~Removes
    BY <1>1 DEF Opens, CallsBack, ClosesAtLast, Removes, User, Frame
  <2>5. ~Closes
    <3>1. User("connection") \in Frames /\ Frame("close") \in Frames
      BY FrameTypes DEF Places
    <3>2. Closes => Len(stack') = Len(stack) + 2 /\ stack'[1] = User("connection")
      BY <2>1, <3>1, PushTwo DEF Closes
    <3>3. Closes => Head(stack') = User("connection")
      <4>1. Closes => stack' \in Seq(Frames) /\ stack' # <<>>
        <5>1. Closes => stack' \in Seq(Frames)
          BY <2>1, <3>1, PushTwo DEF Closes
        <5>2. Len(stack) \in Nat
          BY <2>1, LenProperties
        <5>3. Closes => Len(stack') # 0
          BY <3>2, <5>2
        <5>4. QED  BY <5>1, <5>3
      <4>2. QED  BY <3>2, <4>1, Pop
    <3>4. QED  BY <1>1, <3>3 DEF User
  <2>6. HoldsBack => Up
    BY <1>1, HoldsWhileUp DEF OnceInv
  <2>7. Up => ups = 1 /\ downs = 0
    BY <1>1 DEF OnceInv, HeardInv
  <2>8. ASSUME handleRead, CallsBack("message") PROVE InOrder
    <3>1. Head(stack').place = "message"
      BY <2>8 DEF CallsBack, User
    <3>2. state # "kConnecting" => Up \/ state = "kDisconnected"
      BY <2>1 DEF TypeOK, ConnTypes, Up
    <3>3. ups = 1
      BY <1>1, <2>7, <2>8, <3>2, ReadsWhileUp DEF OnceInv, HeardInv
    <3>4. QED  BY <1>1, <2>7, <2>8, <3>1, <3>3, ReadsWhileUp
  <2>9. QED
    BY <2>1, <2>2, <2>3, <2>4, <2>5, <2>6, <2>7, <2>8 DEF ConnStep, CalmStep
<1>2. OnceInv /\ DispatchInv /\ [Next]_vars => [Starts => InOrder]_vars
  BY <1>1
<1>3. QED
  BY CloseInLoop, HighWaterKeepsOpen, <1>2, OnceInvariant, DispatchInvariant, PTL
     DEF Spec, CallbacksWhileUp
=============================================================================
