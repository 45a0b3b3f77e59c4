--------------------------- MODULE EventLoopProofs ---------------------------
(***************************************************************************)
(* Proofs about EventLoop, for any set of functors, threads and channels   *)
(* and any capacity of the pipe: the loop's type invariant, the absence of *)
(* lost wakeups, and the refinement of FunctorQueue.                       *)
(***************************************************************************)
EXTENDS EventLoop, SequenceTheorems, TLAPS

\* queueInLoop keeps the invariant in whichever thread it is called.
LEMMA QueueKeepsLoopInv ==
  ASSUME LoopInv, NEW self \in AllThreads, NEW f \in Functors,
         queueInLoop(self, f)
  PROVE  LoopInv'
<1> USE LoopAssumption DEF LoopInv, queueInLoop, QueueThenWake, Goto, CanCall, AllThreads, Looping
<1>1. TypeOK'
  <2>1. Append(pending_functors, f) \in Seq(Functors)
    BY AppendProperties DEF TypeOK
  <2>2. QED  BY <2>1 DEF TypeOK, LoopLabels, ThreadLabels
<1>2. PendingRoundInv'
  BY DEF PendingRoundInv, TypeOK
<1>3. DispatchInv'
  BY DEF DispatchInv, WakeupReadNeverBlocks, PendingRoundInv, TypeOK
<1>4. WakeupInv'
  <2>1. /\ Len(Append(pending_functors, f)) = Len(pending_functors) + 1
        /\ \A i \in 1..Len(pending_functors) :
             Append(pending_functors, f)[i] = pending_functors[i]
        /\ Append(pending_functors, f)[Len(pending_functors) + 1] = f
        /\ Len(pending_functors) \in Nat
    BY AppendProperties, LenProperties DEF TypeOK
  <2>2. CASE self # LoopThread
    BY <2>2 DEF WakeupInv, WakeupOnItsWay, TypeOK
  <2>3. CASE self = LoopThread
    <3>1. CASE ~Looping
      <4>1. PendingOwed' => PendingOwed
        BY <2>1, <2>3, <3>1 DEF PendingOwed
      <4>2. QED  BY <2>3, <3>1, <4>1 DEF WakeupInv, WakeupOnItsWay, PendingRoundInv, TypeOK
    <3>2. CASE pc[LoopThread] \in {"handler", "functor"}
      BY <2>3, <3>2 DEF WakeupInv, PendingRoundInv, TypeOK
    <3>3. QED  BY <2>3, <3>1, <3>2
  <2>4. QED  BY <2>2, <2>3
<1>5. QED  BY <1>1, <1>2, <1>3, <1>4

\* So does a functor run inside runInLoop.
LEMMA RunInlineKeepsLoopInv ==
  ASSUME LoopInv, NEW f \in Functors, RunInline(f)
  PROVE  LoopInv'
<1>1. Append(ran, f) \in Seq(Functors)
  BY AppendProperties DEF LoopInv, TypeOK
<1>2. QED
  BY <1>1 DEF LoopInv, RunInline, TypeOK, PendingRoundInv, DispatchInv,
     WakeupReadNeverBlocks, WakeupInv, PendingOwed, WakeupOnItsWay

LEMMA InitLoopInv == Init => LoopInv
<1> SUFFICES ASSUME Init PROVE LoopInv
  OBVIOUS
<1> USE LoopAssumption DEF Init
<1>1. /\ <<>> \in Seq(Functors)
      /\ Len(<<>>) = 0
  BY EmptySeq
<1>2. pc[LoopThread] = "idle"
  BY DEF AllThreads
<1>3. TypeOK
  <2>1. pc \in [AllThreads -> LoopLabels \cup ThreadLabels]
    BY DEF LoopLabels, ThreadLabels
  <2>2. /\ calling_pending_functors \in BOOLEAN
        /\ quit \in BOOLEAN
    OBVIOUS
  <2>3. /\ activeChannels \subseteq Channels \cup {Wakeup}
        /\ early \subseteq Functors
        /\ fresh \subseteq Functors
    OBVIOUS
  <2>4. wakeup_pipe \in 0..PipeCapacity
    OBVIOUS
  <2>5. pc[LoopThread] \in LoopLabels
    BY <1>2 DEF LoopLabels
  <2>6. QED  BY <1>1, <2>1, <2>2, <2>3, <2>4, <2>5 DEF TypeOK
<1>4. PendingRoundInv
  <2>1. ~(pc[LoopThread] \in {"swap", "run", "functor", "wake"})
    BY <1>2
  <2>2. calling_pending_functors = FALSE
    OBVIOUS
  <2>3. QED  BY <2>1, <2>2 DEF PendingRoundInv
<1>5. DispatchInv
  BY DEF DispatchInv, WakeupReadNeverBlocks
<1>6. WakeupInv
  BY <1>1 DEF WakeupInv, PendingOwed
<1>7. QED  BY <1>3, <1>4, <1>5, <1>6 DEF LoopInv

\* quit() and the write to the pipe.
LEMMA QuitKeepsLoopInv ==
  ASSUME LoopInv, NEW self \in AllThreads, Quit(self)
  PROVE  LoopInv'
<1> USE LoopAssumption DEF LoopInv, Quit, Goto, CanCall, AllThreads
<1>1. TypeOK'
  BY DEF TypeOK, LoopLabels, ThreadLabels
<1>2. pc'[LoopThread] = pc[LoopThread]
  BY DEF TypeOK
<1>3. PendingRoundInv' /\ DispatchInv'
  BY <1>2 DEF PendingRoundInv, DispatchInv, WakeupReadNeverBlocks
<1>4. WakeupInv'
  <2>1. WakeupOnItsWay => WakeupOnItsWay'
    BY DEF WakeupOnItsWay, TypeOK
  <2>2. QED  BY <1>2, <2>1 DEF WakeupInv, PendingOwed
<1>5. QED  BY <1>1, <1>3, <1>4

LEMMA WakeupWriteKeepsLoopInv ==
  ASSUME LoopInv, NEW self \in AllThreads, WakeupWrite(self)
  PROVE  LoopInv'
<1> USE LoopAssumption DEF LoopInv, WakeupWrite, Goto, AllThreads
<1>1. TypeOK'
  BY DEF TypeOK, LoopLabels, ThreadLabels
<1>2. wakeup_pipe' > 0
  BY DEF TypeOK
<1>3. \/ pc[LoopThread] = pc'[LoopThread]
      \/ pc[LoopThread] = "wake" /\ pc'[LoopThread] = "functor"
  BY DEF TypeOK, LoopLabels
<1>4. PendingRoundInv'
  BY <1>3 DEF PendingRoundInv
<1>5. DispatchInv'
  BY <1>2, <1>3 DEF DispatchInv, WakeupReadNeverBlocks
<1>6. WakeupInv'
  BY <1>2 DEF WakeupInv
<1>7. QED  BY <1>1, <1>4, <1>5, <1>6

\* The steps of the loop thread, one by one.
LEMMA LoopThreadKeepsLoopInv ==
  ASSUME LoopInv, LoopStart \/ LoopBody \/ Poll \/ PollNothing
  PROVE  LoopInv'
<1> USE LoopAssumption DEF LoopInv, Goto, AllThreads
<1> DEFINE Rest == PendingRoundInv' /\ DispatchInv' /\ WakeupInv'
\* A step of the loop thread leaves every other thread where it is.
<1>0. ASSUME NEW label, pc' = [pc EXCEPT ![LoopThread] = label]
      PROVE  /\ TypeOK => pc'[LoopThread] = label
             /\ TypeOK => (WakeupOnItsWay <=> WakeupOnItsWay')
             /\ TypeOK /\ label \in LoopLabels =>
                  pc' \in [AllThreads -> LoopLabels \cup ThreadLabels]
  BY <1>0 DEF TypeOK, WakeupOnItsWay
<1>1. CASE LoopStart
  <2>1. pc' = [pc EXCEPT ![LoopThread] = "check"]
    BY <1>1 DEF LoopStart
  <2>2. TypeOK'
    BY <1>1, <2>1, <1>0 DEF LoopStart, TypeOK, LoopLabels
  <2>3. Rest
    BY <1>1, <2>1, <1>0 DEF LoopStart, PendingRoundInv, DispatchInv, WakeupInv,
       PendingOwed, WakeupReadNeverBlocks
  <2>4. QED  BY <2>2, <2>3
<1>2. CASE CheckQuit
  <2>1. pc' = [pc EXCEPT ![LoopThread] = IF quit THEN "idle" ELSE "poll"]
    BY <1>2 DEF CheckQuit
  <2>2. TypeOK'
    BY <1>2, <2>1, <1>0 DEF CheckQuit, TypeOK, LoopLabels
  <2>3. Rest
    BY <1>2, <2>1, <1>0 DEF CheckQuit, PendingRoundInv, DispatchInv, WakeupInv,
       PendingOwed, WakeupReadNeverBlocks
  <2>4. QED  BY <2>2, <2>3
<1>3. CASE Poll
  <2>1. PICK active \in SUBSET (Channels \cup {Wakeup}) : PollEvents(active)
    BY <1>3 DEF Poll
  <2>2. pc' = [pc EXCEPT ![LoopThread] = "dispatch"]
    BY <2>1 DEF PollEvents
  <2>3. TypeOK'
    BY <2>1, <2>2, <1>0 DEF PollEvents, TypeOK, LoopLabels
  <2>4. Rest
    BY <2>1, <2>2, <1>0 DEF PollEvents, PendingRoundInv, DispatchInv, WakeupInv,
       PendingOwed, WakeupReadNeverBlocks
  <2>5. QED  BY <2>3, <2>4
<1>4. CASE PollNothing
  <2>1. pc' = [pc EXCEPT ![LoopThread] = "dispatch"]
    BY <1>4 DEF PollNothing
  <2>2. TypeOK'
    BY <1>4, <2>1, <1>0 DEF PollNothing, TypeOK, LoopLabels
  <2>3. Rest
    BY <1>4, <2>1, <1>0 DEF PollNothing, PendingRoundInv, DispatchInv, WakeupInv,
       WakeupReadNeverBlocks
  <2>4. QED  BY <2>2, <2>3
<1>5. CASE HandleRead
  <2>1. TypeOK'
    BY <1>5 DEF HandleRead, DispatchWakeup, TypeOK
  <2>2. Rest
    BY <1>5 DEF HandleRead, DispatchWakeup, PendingRoundInv, DispatchInv, WakeupInv,
       WakeupReadNeverBlocks
  <2>3. QED  BY <2>1, <2>2
<1>6. CASE HandlerReturn
  <2>1. pc' = [pc EXCEPT ![LoopThread] = "dispatch"]
    BY <1>6 DEF HandlerReturn
  <2>2. TypeOK'
    BY <1>6, <2>1, <1>0 DEF HandlerReturn, TypeOK, LoopLabels
  <2>3. Rest
    BY <1>6, <2>1, <1>0 DEF HandlerReturn, PendingRoundInv, DispatchInv, WakeupInv,
       WakeupReadNeverBlocks
  <2>4. QED  BY <2>2, <2>3
<1>7. CASE \E c \in Channels : HandleEvent(c)
  <2>1. PICK c \in Channels : HandleEvent(c)
    BY <1>7
  <2>2. pc' = [pc EXCEPT ![LoopThread] = "handler"]
    BY <2>1 DEF HandleEvent
  <2>3. TypeOK'
    BY <2>1, <2>2, <1>0 DEF HandleEvent, TypeOK, LoopLabels
  <2>4. Rest
    BY <2>1, <2>2, <1>0 DEF HandleEvent, PendingRoundInv, DispatchInv, WakeupInv,
       WakeupReadNeverBlocks
  <2>5. QED  BY <2>3, <2>4
<1>8. CASE BeginPending
  <2>1. pc' = [pc EXCEPT ![LoopThread] = "swap"]
    BY <1>8 DEF BeginPending
  <2>2. TypeOK'
    BY <1>8, <2>1, <1>0 DEF BeginPending, TypeOK, LoopLabels
  <2>3. Rest
    BY <1>8, <2>1, <1>0 DEF BeginPending, PendingRoundInv, DispatchInv, WakeupInv,
       WakeupReadNeverBlocks
  <2>4. QED  BY <2>2, <2>3
<1>9. CASE SwapPending
  <2>1. pc' = [pc EXCEPT ![LoopThread] = "run"]
    BY <1>9 DEF SwapPending
  <2>2. TypeOK'
    BY <1>9, <2>1, <1>0 DEF SwapPending, TypeOK, LoopLabels
  <2>3. tmp = <<>>
    BY <1>9 DEF SwapPending, PendingRoundInv
  <2>4. ~PendingOwed'
    BY <1>9, <2>3, EmptySeq DEF SwapPending, PendingOwed
  <2>5. Rest
    BY <1>9, <2>1, <2>4, <1>0 DEF SwapPending, PendingRoundInv, DispatchInv, WakeupInv,
       WakeupReadNeverBlocks
  <2>6. QED  BY <2>2, <2>5
<1>10. CASE RunFunctor
  <2>1. pc' = [pc EXCEPT ![LoopThread] = "functor"]
    BY <1>10 DEF RunFunctor
  <2>2. /\ Tail(tmp) \in Seq(Functors)
        /\ Append(ran, Head(tmp)) \in Seq(Functors)
    BY <1>10, HeadTailProperties, AppendProperties DEF RunFunctor, TypeOK
  <2>3. TypeOK'
    BY <1>10, <2>1, <2>2, <1>0 DEF RunFunctor, TypeOK, LoopLabels
  <2>4. Rest
    BY <1>10, <2>1, <1>0 DEF RunFunctor, PendingRoundInv, DispatchInv, WakeupInv,
       PendingOwed, WakeupReadNeverBlocks
  <2>5. QED  BY <2>3, <2>4
<1>11. CASE FunctorReturn
  <2>1. pc' = [pc EXCEPT ![LoopThread] = "run"]
    BY <1>11 DEF FunctorReturn
  <2>2. TypeOK'
    BY <1>11, <2>1, <1>0 DEF FunctorReturn, TypeOK, LoopLabels
  <2>3. Rest
    BY <1>11, <2>1, <1>0 DEF FunctorReturn, PendingRoundInv, DispatchInv, WakeupInv,
       PendingOwed, WakeupReadNeverBlocks
  <2>4. QED  BY <2>2, <2>3
<1>12. CASE EndPending
  <2>1. pc' = [pc EXCEPT ![LoopThread] = "check"]
    BY <1>12 DEF EndPending
  <2>2. TypeOK'
    BY <1>12, <2>1, <1>0 DEF EndPending, TypeOK, LoopLabels
  <2>3. Rest
    BY <1>12, <2>1, <1>0 DEF EndPending, PendingRoundInv, DispatchInv, WakeupInv,
       PendingOwed, WakeupReadNeverBlocks
  <2>4. QED  BY <2>2, <2>3
<1>13. QED
  BY <1>1, <1>2, <1>3, <1>4, <1>5, <1>6, <1>7, <1>8, <1>9, <1>10, <1>11, <1>12 DEF LoopBody

\* LoopInv is an inductive invariant of the loop, whatever the number of
\* threads, functors and channels and the capacity of the pipe.
THEOREM LoopInvariant == Spec => []LoopInv
<1>1. LoopInv /\ [Next]_vars => LoopInv'
  <2> SUFFICES ASSUME LoopInv, [Next]_vars PROVE LoopInv'
    OBVIOUS
  <2>1. CASE \E self \in AllThreads : Call(self)
    <3>1. PICK self \in AllThreads : Call(self)
      BY <2>1
    <3>2. CASE \E f \in Functors : queueInLoop(self, f) \/ runInLoop(self, f)
      BY <3>2, QueueKeepsLoopInv, RunInlineKeepsLoopInv DEF runInLoop
    <3>3. CASE Quit(self)
      BY <3>3, QuitKeepsLoopInv
    <3>4. CASE WakeupWrite(self)
      BY <3>4, WakeupWriteKeepsLoopInv
    <3>5. QED  BY <3>1, <3>2, <3>3, <3>4 DEF Call
  <2>2. CASE LoopStart \/ LoopBody \/ Poll \/ PollNothing
    BY <2>2, LoopThreadKeepsLoopInv
  <2>3. CASE UNCHANGED vars
    BY <2>3 DEF vars, LoopInv, TypeOK, PendingRoundInv, DispatchInv, WakeupInv,
       PendingOwed, WakeupOnItsWay, WakeupReadNeverBlocks
  <2>4. QED  BY <2>1, <2>2, <2>3 DEF Next
<1>2. QED  BY InitLoopInv, <1>1, PTL DEF Spec

\* The members of EventLoop keep their types (eventloop.h:29-41), and the
\* pipe never holds more than its capacity.
THEOREM TypeCorrect == Spec => []TypeOK
<1>1. LoopInv => TypeOK
  BY DEF LoopInv
<1>2. QED  BY LoopInvariant, <1>1, PTL

\* queueInLoop (eventloop.cc:145) never lets the loop thread go to sleep over
\* a functor that was queued after the loop started.
THEOREM WakeupNeverLost == Spec => []NoLostWakeup
<1>1. LoopInv => NoLostWakeup
  BY DEF LoopInv, WakeupInv, NoLostWakeup
<1>2. QED  BY LoopInvariant, <1>1, PTL

\* handleRead (eventloop.cc:106) never hangs on an empty pipe.
THEOREM WakeupReadSafe == Spec => []WakeupReadNeverBlocks
<1>1. LoopInv => WakeupReadNeverBlocks
  BY DEF LoopInv, DispatchInv
<1>2. QED  BY LoopInvariant, <1>1, PTL

-----------------------------------------------------------------------------
(* The refinement of FunctorQueue *)

\* What queueInLoop appends to the pending list it appends to the queue.
LEMMA ConcatAppend ==
  ASSUME NEW S, NEW s \in Seq(S), NEW t \in Seq(S), NEW e \in S
  PROVE  s \o Append(t, e) = Append(s \o t, e)
<1>1. <<e>> \in Seq(S) /\ s \o t \in Seq(S)
  BY ConcatProperties
<1>2. s \o (t \o <<e>>) = (s \o t) \o <<e>>
  BY <1>1, ConcatAssociative
<1>3. QED  BY <1>1, <1>2, AppendIsConcat

\* What is taken from the front of the round is taken from the queue.
LEMMA ConcatHeadTail ==
  ASSUME NEW S, NEW s \in Seq(S), NEW t \in Seq(S), s # <<>>
  PROVE  /\ Head(s \o t) = Head(s)
         /\ Tail(s \o t) = Tail(s) \o t
<1>1. /\ Len(s) \in Nat \ {0}
      /\ Len(t) \in Nat
      /\ Tail(s) \in Seq(S)
      /\ Len(Tail(s)) = Len(s) - 1
      /\ \A i \in 1..Len(Tail(s)) : Tail(s)[i] = s[i + 1]
  BY HeadTailProperties, LenProperties, EmptySeq
<1>2. /\ s \o t \in Seq(S)
      /\ Len(s \o t) = Len(s) + Len(t)
      /\ \A i \in 1..Len(s) + Len(t) :
           (s \o t)[i] = IF i <= Len(s) THEN s[i] ELSE t[i - Len(s)]
  BY ConcatProperties
<1>3. s \o t # <<>>
  BY <1>1, <1>2
<1>4. /\ Tail(s \o t) \in Seq(S)
      /\ Len(Tail(s \o t)) = Len(s) + Len(t) - 1
      /\ \A i \in 1..Len(s) + Len(t) - 1 : Tail(s \o t)[i] = (s \o t)[i + 1]
  BY <1>1, <1>2, <1>3, HeadTailProperties
<1>5. /\ Tail(s) \o t \in Seq(S)
      /\ Len(Tail(s) \o t) = Len(s) + Len(t) - 1
      /\ \A i \in 1..Len(s) + Len(t) - 1 : (Tail(s) \o t)[i] =
           IF i <= Len(s) - 1 THEN Tail(s)[i] ELSE t[i - (Len(s) - 1)]
  <2>1. /\ Tail(s) \o t \in Seq(S)
        /\ Len(Tail(s) \o t) = Len(Tail(s)) + Len(t)
        /\ \A i \in 1..Len(Tail(s)) + Len(t) : (Tail(s) \o t)[i] =
             IF i <= Len(Tail(s)) THEN Tail(s)[i] ELSE t[i - Len(Tail(s))]
    BY <1>1, ConcatProperties
  <2>2. QED  BY <1>1, <2>1
<1>6. \A i \in 1..Len(s) + Len(t) - 1 : Tail(s \o t)[i] = (Tail(s) \o t)[i]
  BY <1>1, <1>2, <1>4, <1>5
<1>7. Tail(s \o t) = Tail(s) \o t
  <2> DEFINE n == Len(s) + Len(t) - 1
  <2>1. /\ Tail(s \o t) \in [1..n -> S]
        /\ Tail(s) \o t \in [1..n -> S]
    BY <1>4, <1>5, LenProperties
  <2>2. QED  BY <2>1, <1>6
<1>8. Head(s \o t) = Head(s)
  BY <1>1, <1>2
<1>9. QED  BY <1>7, <1>8

LEMMA InitRefines == Init => Queue!Init
BY ConcatEmptySeq, EmptySeq DEF Init, Queue!Init

\* Calls: queueInLoop is Enqueue, a functor run inside runInLoop is RunNow,
\* quit and the write to the pipe are stutters.
LEMMA CallRefines ==
  ASSUME LoopInv, NEW self \in AllThreads, Call(self)
  PROVE  [Queue!Next]_(Queue!vars)
<1> DEFINE QueueVars == <<fresh, tmp, pending_functors, ran>>
<1>1. ASSUME NEW f \in Functors, queueInLoop(self, f)
      PROVE  Queue!Enqueue(f)
  <2>1. tmp \o Append(pending_functors, f) = Append(tmp \o pending_functors, f)
    BY ConcatAppend DEF LoopInv, TypeOK
  <2>2. QED  BY <1>1, <2>1 DEF queueInLoop, QueueThenWake, Queue!Enqueue
<1>2. ASSUME NEW f \in Functors, RunInline(f)
      PROVE  Queue!RunNow(f)
  BY <1>2 DEF RunInline, Queue!RunNow
<1>3. CASE \E f \in Functors : queueInLoop(self, f) \/ runInLoop(self, f)
  BY <1>1, <1>2, <1>3 DEF runInLoop, Queue!Next
<1>4. CASE Quit(self) \/ WakeupWrite(self)
  <2>1. UNCHANGED QueueVars
    BY <1>4 DEF Quit, WakeupWrite
  <2>2. QED  BY <2>1 DEF Queue!vars
<1>5. QED  BY <1>3, <1>4 DEF Call

\* The loop thread: the swap starts a round, running a functor is RunNext,
\* every other step is a stutter.
LEMMA LoopThreadRefines ==
  ASSUME LoopInv, LoopStart \/ LoopBody \/ Poll \/ PollNothing
  PROVE  [Queue!Next]_(Queue!vars)
<1> DEFINE QueueVars == <<fresh, tmp, pending_functors, ran>>
<1>1. CASE SwapPending
  <2>1. tmp = <<>>
    BY <1>1 DEF SwapPending, LoopInv, PendingRoundInv
  <2>2. /\ tmp \o pending_functors = pending_functors
        /\ pending_functors \o <<>> = pending_functors
        /\ Len(tmp) = 0
    BY <2>1, ConcatEmptySeq, EmptySeq DEF LoopInv, TypeOK
  <2>3. Queue!StartRound
    BY <1>1, <2>1, <2>2 DEF SwapPending, Queue!StartRound
  <2>4. QED  BY <2>3 DEF Queue!Next
<1>2. CASE RunFunctor
  <2>1. /\ tmp \in Seq(Functors)
        /\ tmp # <<>>
        /\ pending_functors \in Seq(Functors)
    BY <1>2 DEF RunFunctor, LoopInv, TypeOK
  <2>2. /\ Head(tmp \o pending_functors) = Head(tmp)
        /\ Tail(tmp \o pending_functors) = Tail(tmp) \o pending_functors
    BY <2>1, ConcatHeadTail
  <2>3. /\ Len(tmp) > 0
        /\ Len(Tail(tmp)) = Len(tmp) - 1
    BY <2>1, HeadTailProperties, LenProperties, EmptySeq
  <2>4. Queue!RunNext
    BY <1>2, <2>2, <2>3 DEF RunFunctor, Queue!RunNext
  <2>5. QED  BY <2>4 DEF Queue!Next
<1>3. CASE \/ LoopStart \/ CheckQuit \/ Poll \/ PollNothing \/ HandleRead
           \/ HandlerReturn \/ BeginPending \/ FunctorReturn \/ EndPending
           \/ \E c \in Channels : HandleEvent(c)
  <2>1. UNCHANGED QueueVars
    BY <1>3 DEF LoopStart, CheckQuit, Poll, PollEvents, PollNothing, HandleRead, DispatchWakeup,
       HandlerReturn, BeginPending, FunctorReturn, EndPending, HandleEvent
  <2>2. QED  BY <2>1 DEF Queue!vars
<1>4. QED  BY <1>1, <1>2, <1>3 DEF LoopBody

\* EventLoop implements FunctorQueue: functors that were queued run in the
\* order of queueing, each once, in rounds that do not grow (eventloop.cc:150).
THEOREM Refinement == Spec => ImplementsFunctorQueue
<1>1. LoopInv /\ [Next]_vars => [Queue!Next]_(Queue!vars)
  <2> SUFFICES ASSUME LoopInv, [Next]_vars PROVE [Queue!Next]_(Queue!vars)
    OBVIOUS
  <2>1. CASE \E self \in AllThreads : Call(self)
    BY <2>1, CallRefines
  <2>2. CASE LoopStart \/ LoopBody \/ Poll \/ PollNothing
    BY <2>2, LoopThreadRefines
  <2>3. CASE UNCHANGED vars
    BY <2>3 DEF vars, Queue!vars
  <2>4. QED  BY <2>1, <2>2, <2>3 DEF Next
<1>2. QED
  BY InitRefines, LoopInvariant, <1>1, PTL DEF Spec, ImplementsFunctorQueue, Queue!Spec

=============================================================================
