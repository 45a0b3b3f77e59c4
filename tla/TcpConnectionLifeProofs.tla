------------------------ MODULE TcpConnectionLifeProofs ------------------------
(***************************************************************************)
(* Theorems about the life of a TcpConnection whose server outlives it:    *)
(* when the last reference goes nothing can reach the connection, and no   *)
(* assertion on its way fails.                                             *)
(***************************************************************************)
EXTENDS TcpConnectionProofs

-----------------------------------------------------------------------------
(* The life of the connection                                              *)

FramesBut(kind) == {g \in Frames : g.frame # kind}
CallFrames == {g \in Frames : g.frame \in {"user", "append"}}
LateFunctors == {f \in Functors : f.op \notin {"destroyed", "writeComplete"}}

\* handleClose has not told the server yet.
Closing ==
  \E k \in 1..Len(stack) :
    /\ stack[k].frame = "close"
    /\ \A j \in 1..Len(stack) : stack[j].frame = "close" => j = k

\* The functor that removeConnectionInLoop queued holds the connection until
\* the functors queued before it have run.
Held ==
  /\ added
  /\ stack \in Seq(FramesBut("remove"))
  /\ \E k \in 1..Len(pending) :
       /\ pending[k].op = "destroyed"
       /\ \A j \in 1..Len(pending) :
            /\ pending[j].op = "destroyed" => j = k
            /\ pending[j].op = "writeComplete" => j < k

\* connectDestroyed is removing the channel from the poller.
Removing ==
  /\ added
  /\ stack = <<Frame("remove")>>

Removed == ~added /\ stack \in Seq(FramesBut("remove"))

\* What keeps the connection alive, from its start to its end: the map, then
\* handleClose or the functor of the server's loop, then the functor that
\* runs connectDestroyed.
LifeInv ==
  /\ server \in {"same", "other"}
  /\ state # "kDisconnected" =>
       /\ inMap /\ removing = 0
       /\ stack \in Seq(CallFrames)
       /\ pending \in Seq(FunctorsBut("destroyed"))
       /\ added <=> state # "kConnecting"
  /\ state = "kDisconnected" /\ inMap =>
       /\ added
       /\ stack \in Seq(FramesBut("remove"))
       /\ pending \in Seq(FunctorsBut("destroyed"))
       /\ \/ removing = 1 /\ stack \in Seq(FramesBut("close"))
          \/ removing = 0 /\ Closing
  /\ state = "kDisconnected" /\ ~inMap =>
       /\ removing = 0
       /\ stack \in Seq(FramesBut("close"))
       /\ \/ Held
          \/ /\ dispatch = <<>>
             /\ pending \in Seq(LateFunctors)
             /\ Removing \/ Removed

\* The server and its map change only where a close is handed over.
LEMMA OwnerSteps ==
  ASSUME ~ServerDies, server # "stopped", [Next]_vars
  PROVE  UNCHANGED owner \/ ResumeClose \/ ServerRemove
<1>1. ASSUME UserCalls \/ UserReturn \/ ResumeSend \/ ResumeDestroy
      PROVE  UNCHANGED owner
  BY <1>1 DEF UserCalls, UserSend, UserShutdown, UserForceClose, UserReturn, ResumeSend,
     ResumeDestroy, owner
<1>2. ASSUME NEW t \in Threads, Thread(t) \/ ThreadGoesOn(t)
      PROVE  UNCHANGED owner
  BY <1>2 DEF Thread, ThreadGoesOn, ThreadSend, ThreadShutdown, ThreadForceClose, Drop,
     SetDisconnecting, QueueCall, owner
<1>3. ASSUME \/ StartRound \/ EndRound \/ connectEstablished \/ RunSend \/ RunShutdown
             \/ RunForceClose \/ RunWriteComplete
      PROVE  UNCHANGED owner
  BY <1>3 DEF StartRound, EndRound, connectEstablished, RunSend, RunShutdown, RunForceClose,
     RunWriteComplete, owner
<1>4. ASSUME RunDestroyed PROVE UNCHANGED owner
  BY <1>4 DEF RunDestroyed, connectDestroyed, owner
<1>5. ASSUME Poll \/ HandleOther \/ handleRead \/ handleWrite \/ KernelDrains
      PROVE  UNCHANGED owner
  BY <1>5 DEF Poll, HandleOther, handleRead, handleWrite, KernelDrains, owner
<1>6. ASSUME Environment PROVE UNCHANGED owner
  BY <1>6 DEF Environment, ServerDestroy, ServerDestroyInLoop, LoopEnds, PeerSends, PeerCloses,
     PeerResets, owner
<1>7. UNCHANGED vars => UNCHANGED owner
  BY DEF vars, owner
<1>8. QED
  BY <1>1, <1>2, <1>3, <1>4, <1>5, <1>6, <1>7 DEF Next, LoopStep

\* The channel enters the poller with connectEstablished, is in it whenever
\* its events change, and leaves it with connectDestroyed.
LEMMA SendAdds ==
  ASSUME TypeOK, NEW m \in Msgs, NEW under \in Seq(Frames), NEW queue \in Seq(Functors),
         sendInLoop(m, under, queue)
  PROVE  added' = added \/ (state # "kDisconnected" /\ added')
<1>1. CASE Passes(under) \/ \E rest \in ByteSeqs : Holds(rest, under)
  BY <1>1 DEF Passes, Holds, conn
<1>2. ASSUME NEW rest \in ByteSeqs, Buffers(rest, under)
      PROVE  added' = added \/ (state # "kDisconnected" /\ added')
  <2>1. CASE state = "kDisconnected"
    BY <2>1, SendEffect DEF Passes, conn
  <2>2. CASE state # "kDisconnected"
    BY <1>2, <2>2 DEF Buffers, Keep, TypeOK, ConnTypes, Writing
  <2>3. QED  BY <2>1, <2>2
<1>3. QED  BY <1>1, <1>2, SendEffect

\* The channel leaves the poller in connectDestroyed, and enters it only while
\* the connection is not closed.
LEMMA AddedSteps ==
  ASSUME TypeOK, QuietInv, [Next]_vars
  PROVE  \/ added' = added
         \/ state # "kDisconnected" /\ added'
         \/ ResumeDestroy
<1> DEFINE Same == added' = added \/ (state # "kDisconnected" /\ added')
<1>1. ASSUME NEW m \in Msgs, UserSend(m) PROVE Same
  BY <1>1, SendAdds DEF UserSend, TypeOK, ConnTypes, LoopTypes
<1>2. ASSUME UserShutdown \/ UserForceClose \/ UserReturn \/ ResumeClose
      PROVE  added' = added
  BY <1>2 DEF UserShutdown, UserForceClose, handleClose, Fail, UserReturn, ResumeClose, conn
<1>3. ASSUME ResumeSend PROVE Same
  <2>1. 1 \in 1..Len(stack) /\ stack[1].frame = "append"
    BY <1>3, Pop DEF ResumeSend, Resumes, TypeOK, ConnTypes
  <2>2. Up
    BY <2>1 DEF QuietInv
  <2>3. QED  BY <1>3, <2>2 DEF ResumeSend, Keep, Up, Writing, TypeOK, ConnTypes
<1>4. ASSUME NEW t \in Threads, Thread(t) \/ ThreadGoesOn(t)
      PROVE  added' = added
  BY <1>4 DEF Thread, ThreadGoesOn, ThreadSend, ThreadShutdown, ThreadForceClose, Drop,
     SetDisconnecting, QueueCall, conn
<1>5. ASSUME StartRound \/ EndRound \/ RunShutdown \/ RunForceClose \/ RunWriteComplete
      PROVE  added' = added
  BY <1>5 DEF StartRound, EndRound, RunShutdown, RunForceClose, RunWriteComplete, handleClose, Fail,
     conn
<1>6. ASSUME connectEstablished PROVE Same
  BY <1>6 DEF connectEstablished, Fail, conn
<1>7. ASSUME RunSend PROVE Same
  <2>1. pending[1].msg \in Msgs /\ Tail(pending) \in Seq(Functors) /\ Head(pending) = pending[1]
    BY <1>7, NextTypes, FunctorTypes DEF RunSend, Ops, TypeOK
  <2>2. sendInLoop(pending[1].msg, <<>>, Tail(pending)) /\ <<>> \in Seq(Frames)
    BY <1>7, <2>1, EmptySeq DEF RunSend
  <2>3. QED  BY <2>1, <2>2, SendAdds
<1>8. ASSUME RunDestroyed \/ ServerDestroyInLoop PROVE added' = added
  BY <1>8 DEF RunDestroyed, ServerDestroyInLoop, connectDestroyed, conn
<1>9. ASSUME Poll \/ HandleOther PROVE added' = added
  BY <1>9 DEF Poll, HandleOther, conn
<1>10. ASSUME handleRead PROVE added' = added
  BY <1>10 DEF handleRead, handleClose, Fail, conn
<1>11. ASSUME handleWrite PROVE added' = added
  BY <1>11 DEF handleWrite, conn
<1>12. ASSUME \/ ServerRemove \/ KernelDrains \/ ServerDestroy \/ LoopEnds
              \/ PeerSends \/ PeerCloses \/ PeerResets
       PROVE  added' = added
  BY <1>12 DEF ServerRemove, KernelDrains, ServerDestroy, LoopEnds, PeerSends, PeerCloses, PeerResets,
     conn
<1>13. UNCHANGED vars => added' = added
  BY DEF vars, conn
<1>14. QED
  BY <1>1, <1>2, <1>3, <1>4, <1>5, <1>6, <1>7, <1>8, <1>9, <1>10, <1>11, <1>12, <1>13
     DEF Next, UserCalls, LoopStep, Environment

\* What still happens to the stack and to the functors of a connection that
\* is down.
UserFrames ==
  \/ stack' = stack
  \/ stack # <<>> /\ Head(stack).frame = "user" /\ stack' = Tail(stack)
  \/ stack = <<>> /\ \E place \in Places : stack' = <<User(place)>>

Dwindles ==
  \/ pending' = pending
  \/ \E op \in Ops : Takes(op)
  \/ \E f \in LateFunctors : pending' = Append(pending, f)

\* Other threads queue calls only.
LEMMA CallLate ==
  ASSUME TypeOK, ThreadsInv, NEW t \in Threads, QueueCall(t)
  PROVE  Dwindles
<1> DEFINE f == IF pc[t] = "send" THEN SendFunctor(arg[t]) ELSE Functor(pc[t])
<1>1. pending' = pending \/ pending' = Append(pending, f)
  BY DEF QueueCall
<1>2. f \in LateFunctors
  <2>1. CASE pc[t] = "send"
    BY <2>1, FunctorTypes DEF LateFunctors, SendFunctor, TypeOK, ThreadTypes
  <2>2. CASE pc[t] = "shutdown"
    BY <2>2, FunctorTypes DEF LateFunctors, Functor, Ops
  <2>3. QED  BY <2>1, <2>2 DEF QueueCall, ThreadsInv
<1>3. QED  BY <1>1, <1>2 DEF Dwindles

\* What can happen to a closed connection. Behind another handler it may still
\* get a message.
LEMMA DownSteps ==
  ASSUME ~ServerDies, server # "stopped", OnceInv, QuietInv, state = "kDisconnected", [Next]_vars
  PROVE  /\ state' = "kDisconnected"
         /\ dispatch = <<>> => dispatch' = <<>>
         /\ added' = added \/ ResumeDestroy
         /\ UNCHANGED owner \/ ResumeClose \/ ServerRemove
         /\ UserFrames \/ ResumeClose \/ ResumeDestroy \/ (RunDestroyed /\ Removes)
         /\ Dwindles \/ QueuesDestroyed
<1>1. ConnStep /\ FunctorStep /\ TypeOK
  BY ConnSteps, FunctorSteps DEF OnceInv, ThreadsInv
<1>2. ~Up /\ events = {} /\ ~Writing
  BY DEF Up, QuietInv, Writing
<1>3. ~AddsLater
  <2> SUFFICES ASSUME AddsLater PROVE FALSE
    OBVIOUS
  <2>1. 1 \in 1..Len(stack) /\ stack[1].frame = "append"
    BY <1>1, Pop DEF AddsLater, TypeOK, ConnTypes
  <2>2. QED  BY <1>2, <2>1 DEF QuietInv
<1>4. ~LoopEnds
  BY DEF LoopEnds
<1>5. \/ Stays \/ Returns \/ CallsBack("message") \/ CallsBack("writeComplete")
      \/ CallsBack("other") \/ Removes
  BY <1>1, <1>2, <1>3 DEF ConnStep, CalmStep, Opens, HalfCloses, AddsAtOnce, HoldsBack, Closes,
     ClosesAtLast, Flushes
<1>6. state' = "kDisconnected"
  BY <1>5 DEF Stays, Returns, CallsBack, Removes, core
<1>7. dispatch = <<>> => dispatch' = <<>>
  <2>1. ~Poll
    BY <1>2 DEF Poll, Ready
  <2>2. dispatch = <<>> => ~handleRead /\ ~handleWrite
    BY DEF handleRead, handleWrite, Dispatches
  <2>3. HandleOther \/ StartRound => dispatch' = dispatch
    BY DEF HandleOther, StartRound
  <2>4. QED  BY <2>1, <2>2, <2>3, DispatchSteps DEF polled
<1>8. added' = added \/ ResumeDestroy
  BY <1>1, AddedSteps
<1>9. UserFrames \/ ResumeClose \/ ResumeDestroy \/ (RunDestroyed /\ Removes)
  BY <1>5 DEF Stays, Returns, CallsBack, Removes, Destroys, UserFrames, core, Places
<1>10. Dwindles \/ QueuesDestroyed
  <2>1. ~QueuesComplete /\ ~TakesSend
    BY <1>2 DEF QueuesComplete, TakesSend
  <2>2. QED
    BY <1>1, <1>4, <2>1, CallLate DEF FunctorStep, Waits, Dwindles, OnceInv
<1>11. QED  BY <1>6, <1>7, <1>8, <1>9, <1>10, OwnerSteps

\* A set of frames that has those of user code, and of functors that has
\* those that may come late.
LEMMA FramesKept ==
  ASSUME NEW S, \A place \in Places : User(place) \in S, stack \in Seq(S), UserFrames
  PROVE  stack' \in Seq(S)
<1>1. CASE stack' = stack
  BY <1>1
<1>2. CASE stack # <<>> /\ stack' = Tail(stack)
  BY <1>2, Pop
<1>3. ASSUME NEW place \in Places, stack' = <<User(place)>>
      PROVE  stack' \in Seq(S)
  BY <1>3
<1>4. QED  BY <1>1, <1>2, <1>3 DEF UserFrames

\* No functor comes that was not allowed before.
LEMMA FunctorsKept ==
  ASSUME TypeOK, NEW S, LateFunctors \subseteq S, pending \in Seq(S), Dwindles
  PROVE  pending' \in Seq(S)
<1>1. ASSUME NEW op \in Ops, Takes(op) PROVE pending' \in Seq(S)
  <2>1. pending # <<>> /\ pending' = Tail(pending)
    BY <1>1, NextTypes DEF Takes, TypeOK
  <2>2. QED  BY <2>1, Pop
<1>2. ASSUME NEW f \in LateFunctors, pending' = Append(pending, f) PROVE pending' \in Seq(S)
  BY <1>2, AppendProperties
<1>3. QED  BY <1>1, <1>2 DEF Dwindles

\* handleClose goes on when the callbacks above it have returned.
LEMMA ClosingKept ==
  ASSUME TypeOK, Closing, UserFrames
  PROVE  Closing'
<1>1. stack \in Seq(Frames)
  BY DEF TypeOK, ConnTypes
<1>2. PICK k \in 1..Len(stack) :
        /\ stack[k].frame = "close"
        /\ \A j \in 1..Len(stack) : stack[j].frame = "close" => j = k
  BY DEF Closing
<1>3. CASE stack' = stack
  BY <1>3 DEF Closing
<1>4. stack # <<>>
  BY <1>1, <1>2, EmptySeq
<1>5. CASE Head(stack).frame = "user" /\ stack' = Tail(stack)
  <2>1. /\ Len(stack) \in Nat \ {0} /\ Head(stack) = stack[1]
        /\ Len(stack') = Len(stack) - 1
        /\ \A i \in 1..Len(stack') : i + 1 \in 1..Len(stack) /\ stack'[i] = stack[i + 1]
    BY <1>1, <1>4, <1>5, Pop
  <2>2. k # 1
    BY <1>2, <1>5, <2>1
  <2>3. k - 1 \in 1..Len(stack') /\ (k - 1) + 1 = k
    BY <2>1, <2>2
  <2>4. stack'[k - 1].frame = "close"
    BY <1>2, <2>1, <2>3
  <2>5. ASSUME NEW j \in 1..Len(stack'), stack'[j].frame = "close" PROVE j = k - 1
    <3>1. j + 1 \in 1..Len(stack) /\ stack[j + 1].frame = "close"
      BY <2>1, <2>5
    <3>2. j + 1 = k
      BY <1>2, <3>1
    <3>3. QED  BY <3>2, <2>1
  <2>6. QED  BY <2>3, <2>4, <2>5 DEF Closing
<1>6. QED  BY <1>3, <1>4, <1>5 DEF UserFrames

\* The functor that holds the connection stays behind every write complete
\* functor: none is queued any more.
LEMMA HeldKept ==
  ASSUME TypeOK, Held, UserFrames, Dwindles, ~RunDestroyed, added' = added
  PROVE  Held'
<1>1. pending \in Seq(Functors)
  BY DEF TypeOK, LoopTypes
<1>2. PICK k \in 1..Len(pending) :
        /\ pending[k].op = "destroyed"
        /\ \A j \in 1..Len(pending) :
             /\ pending[j].op = "destroyed" => j = k
             /\ pending[j].op = "writeComplete" => j < k
  BY DEF Held
<1>3. added' /\ stack' \in Seq(FramesBut("remove"))
  <2>1. \A place \in Places : User(place) \in FramesBut("remove")
    BY FrameTypes DEF FramesBut, User
  <2>2. QED  BY <2>1, FramesKept DEF Held
<1>4. CASE pending' = pending
  BY <1>3, <1>4 DEF Held
<1>5. ASSUME NEW f \in LateFunctors, pending' = Append(pending, f) PROVE Held'
  <2>1. f \in Functors /\ f.op \notin {"destroyed", "writeComplete"}
    BY DEF LateFunctors
  <2>2. /\ Len(pending) \in Nat
        /\ Len(pending') = Len(pending) + 1
        /\ \A i \in 1..Len(pending) : pending'[i] = pending[i]
        /\ pending'[Len(pending) + 1] = f
    BY <1>1, <1>5, <2>1, AppendProperties, LenProperties
  <2>3. k \in 1..Len(pending') /\ pending'[k].op = "destroyed"
    BY <1>2, <2>2
  <2>4. ASSUME NEW j \in 1..Len(pending')
        PROVE  /\ pending'[j].op = "destroyed" => j = k
               /\ pending'[j].op = "writeComplete" => j < k
    <3>1. CASE j \in 1..Len(pending)
      BY <1>2, <2>2, <3>1
    <3>2. CASE j = Len(pending) + 1
      BY <2>1, <2>2, <3>2
    <3>3. QED  BY <2>2, <3>1, <3>2
  <2>5. QED  BY <1>3, <2>3, <2>4 DEF Held
<1>6. ASSUME NEW op \in Ops, Takes(op) PROVE Held'
  <2>1. pending # <<>> /\ pending[1].op = op /\ pending' = Tail(pending) /\ op # "destroyed"
    BY <1>6, NextTypes DEF Takes, TypeOK
  <2>2. /\ Len(pending) \in Nat \ {0}
        /\ Len(pending') = Len(pending) - 1
        /\ \A i \in 1..Len(pending') : i + 1 \in 1..Len(pending) /\ pending'[i] = pending[i + 1]
    BY <1>1, <2>1, Pop
  <2>3. k # 1
    BY <1>2, <2>1
  <2>4. k - 1 \in 1..Len(pending') /\ (k - 1) + 1 = k
    BY <2>2, <2>3
  <2>5. pending'[k - 1].op = "destroyed"
    BY <1>2, <2>2, <2>4
  <2>6. ASSUME NEW j \in 1..Len(pending')
        PROVE  /\ pending'[j].op = "destroyed" => j = k - 1
               /\ pending'[j].op = "writeComplete" => j < k - 1
    <3>1. j + 1 \in 1..Len(pending) /\ pending'[j] = pending[j + 1]
      BY <2>2
    <3>2. /\ pending'[j].op = "destroyed" => j + 1 = k
          /\ pending'[j].op = "writeComplete" => j + 1 < k
      BY <1>2, <3>1
    <3>3. QED  BY <2>2, <3>2
  <2>7. QED  BY <1>3, <2>4, <2>5, <2>6 DEF Held
<1>7. QED  BY <1>4, <1>5, <1>6 DEF Dwindles

\* While the connection is up, or not yet: nothing of its end has begun.
LEMMA LifeUp ==
  ASSUME ~ServerDies, OnceInv, QuietInv, LifeInv, state # "kDisconnected", [Next]_vars
  PROVE  LifeInv'
<1>1. /\ inMap /\ removing = 0 /\ server \in {"same", "other"}
      /\ stack \in Seq(CallFrames)
      /\ pending \in Seq(FunctorsBut("destroyed"))
      /\ added <=> state # "kConnecting"
  BY DEF LifeInv
<1>2. ConnStep /\ FunctorStep /\ TypeOK
  BY ConnSteps, FunctorSteps DEF OnceInv, ThreadsInv
<1>3. ~ResumeClose /\ ~ResumeDestroy /\ ~ServerRemove
  <2>1. stack # <<>> => Head(stack).frame \in {"user", "append"}
    <3>1. stack # <<>> => Head(stack) \in CallFrames
      BY <1>1, Pop
    <3>2. QED  BY <3>1 DEF CallFrames
  <2>2. ~Resumes("close") /\ ~Resumes("remove")
    BY <2>1 DEF Resumes
  <2>3. ~(removing > 0)
    BY <1>1
  <2>4. QED  BY <2>2, <2>3 DEF ResumeClose, ResumeDestroy, ServerRemove
<1>4. UNCHANGED owner
  BY <1>1, <1>3, OwnerSteps
<1>5. ~RunDestroyed
  <2> SUFFICES ASSUME RunDestroyed PROVE FALSE
    OBVIOUS
  <2>1. pending # <<>> /\ Head(pending).op = "destroyed"
    BY <1>2, NextTypes DEF RunDestroyed, TypeOK, Ops
  <2>2. Head(pending) \in FunctorsBut("destroyed")
    BY <1>1, <2>1, Pop
  <2>3. QED  BY <2>1, <2>2 DEF FunctorsBut
<1>6. pending' \in Seq(FunctorsBut("destroyed"))
  <2>1. LateFunctors \subseteq FunctorsBut("destroyed")
        /\ Functor("writeComplete") \in FunctorsBut("destroyed")
    BY FunctorTypes DEF LateFunctors, FunctorsBut, Functor, Ops
  <2>2. CASE Dwindles
    BY <1>1, <1>2, <2>1, <2>2, FunctorsKept
  <2>3. CASE QueuesComplete
    BY <1>1, <2>1, <2>3, AppendProperties DEF QueuesComplete
  <2>4. CASE TakesSend
    <3>1. pending # <<>>
      BY <1>2, <2>4, NextTypes DEF TakesSend, TypeOK, Ops
    <3>2. Tail(pending) \in Seq(FunctorsBut("destroyed"))
      BY <1>1, <3>1, Pop
    <3>3. QED  BY <2>1, <2>4, <3>2, AppendProperties DEF TakesSend
  <2>5. ~QueuesDestroyed
    BY <1>4 DEF QueuesDestroyed, owner
  <2>6. ~LoopEnds
    BY <1>1 DEF LoopEnds
  <2>7. QED
    BY <1>2, <2>2, <2>3, <2>4, <2>5, <2>6, CallLate DEF FunctorStep, Waits, Dwindles, OnceInv
<1>7. added' <=> state' # "kConnecting"
  <2>1. CASE state = "kConnecting"
    <3>1. connectEstablished \/ UNCHANGED conn
      BY <1>2, <2>1, ConnectingSteps DEF OnceInv
    <3>2. QED  BY <1>1, <2>1, <3>1 DEF connectEstablished, conn
  <2>2. CASE state # "kConnecting"
    <3>1. state' # "kConnecting"
      BY <1>2, <2>2 DEF ConnStep, CalmStep, Stays, Opens, HalfCloses, Returns, CallsBack, AddsAtOnce,
         AddsLater, Adds, HoldsBack, Closes, ClosesAtLast, Removes, Flushes, core
    <3>2. added'
      BY <1>1, <1>2, <1>3, <2>2, AddedSteps
    <3>3. QED  BY <3>1, <3>2
  <2>3. QED  BY <2>1, <2>2
<1>8. /\ \A place \in Places : User(place) \in CallFrames
      /\ \A rest \in ByteSeqs : Append_(rest) \in CallFrames
  BY FrameTypes DEF CallFrames, User, Append_
<1>9. ~ClosesAtLast /\ ~Removes
  BY <1>5 DEF ClosesAtLast, Removes, Destroys
<1>10. CASE ~Closes
  <2>1. stack' \in Seq(CallFrames)
    <3>1. CASE stack' = stack
      BY <1>1, <3>1
    <3>2. CASE Returns \/ AddsLater
      BY <1>1, <3>2, Pop DEF Returns, AddsLater
    <3>3. CASE Opens \/ CallsBack("message") \/ CallsBack("writeComplete") \/ CallsBack("other")
      <4>1. PICK place \in Places : stack' = <<User(place)>>
        BY <3>3 DEF Opens, CallsBack, Places
      <4>2. QED  BY <1>8, <4>1
    <3>4. CASE HoldsBack
      <4>1. PICK rest \in ByteSeqs :
              stack' = <<User("highWater"), Append_(rest)>> \o stack
        BY <3>4 DEF HoldsBack
      <4>2. User("highWater") \in CallFrames /\ Append_(rest) \in CallFrames
        BY <1>8 DEF Places
      <4>3. QED  BY <1>1, <4>1, <4>2, PushTwo
    <3>5. QED
      BY <1>2, <1>9, <1>10, <3>1, <3>2, <3>3, <3>4
         DEF ConnStep, CalmStep, Stays, HalfCloses, AddsAtOnce, Flushes
  <2>2. state' # "kDisconnected"
    BY <1>2, <1>9, <1>10 DEF ConnStep, CalmStep, Stays, Opens, HalfCloses, Returns, CallsBack, AddsAtOnce,
       AddsLater, Adds, HoldsBack, Removes, Flushes, core
  <2>3. QED  BY <1>1, <1>4, <1>6, <1>7, <2>1, <2>2 DEF LifeInv, owner
<1>11. CASE Closes
  <2>1. state' = "kDisconnected" /\ Up
    BY <1>11 DEF Closes
  <2>2. CallFrames \subseteq FramesBut("remove")
        /\ User("connection") \in FramesBut("remove") /\ Frame("close") \in FramesBut("remove")
    BY FrameTypes DEF CallFrames, FramesBut, User, Frame, Places
  <2>3. stack \in Seq(FramesBut("remove"))
    BY <1>1, <2>2, SeqMonotonic
  <2>4. stack' = <<User("connection"), Frame("close")>> \o stack
    BY <1>11 DEF Closes
  <2>5. /\ stack' \in Seq(FramesBut("remove"))
        /\ Len(stack') = Len(stack) + 2
        /\ stack'[1] = User("connection") /\ stack'[2] = Frame("close")
        /\ \A i \in 3..Len(stack') : i - 2 \in 1..Len(stack) /\ stack'[i] = stack[i - 2]
    BY <2>2, <2>3, <2>4, PushTwo
  <2>6. Closing'
    <3>1. Len(stack) \in Nat
      BY <1>1, LenProperties
    <3>2. 2 \in 1..Len(stack') /\ stack'[2].frame = "close"
      BY <2>5, <3>1 DEF Frame
    <3>3. ASSUME NEW j \in 1..Len(stack'), stack'[j].frame = "close" PROVE j = 2
      <4>1. j # 1
        BY <2>5, <3>3 DEF User
      <4>2. ~(j \in 3..Len(stack'))
        <5> SUFFICES ASSUME j \in 3..Len(stack') PROVE FALSE
          OBVIOUS
        <5>1. j - 2 \in 1..Len(stack) /\ stack[j - 2].frame = "close"
          BY <2>5, <3>3
        <5>2. stack[j - 2] \in CallFrames
          BY <1>1, <5>1, ElementOfSeq
        <5>3. QED  BY <5>1, <5>2 DEF CallFrames
      <4>3. QED  BY <4>1, <4>2
    <3>4. QED  BY <3>2, <3>3 DEF Closing
  <2>7. added'
    BY <1>7, <2>1
  <2>8. QED  BY <1>1, <1>4, <1>6, <2>1, <2>5, <2>6, <2>7 DEF LifeInv, owner
<1>12. QED  BY <1>10, <1>11

\* removeConnectionInLoop, of a connection that is down.
LEMMA LifeHandsOver ==
  ASSUME TypeOK, LifeInv, inMap, state = "kDisconnected", removeConnectionInLoop,
         UNCHANGED conn, stack' \in Seq(FramesBut("remove"))
  PROVE  inMap' = FALSE /\ Held'
<1>1. /\ added /\ pending \in Seq(FunctorsBut("destroyed")) /\ server \in {"same", "other"}
      /\ pending \in Seq(Functors)
  BY DEF LifeInv, TypeOK, LoopTypes
<1>2. inMap' = FALSE /\ pending' = Append(pending, Functor("destroyed"))
  BY <1>1 DEF removeConnectionInLoop
<1>3. Functor("destroyed") \in Functors /\ Functor("destroyed").op = "destroyed"
  BY FunctorTypes DEF Functor, Ops
<1>4. /\ Len(pending) \in Nat
      /\ Len(pending') = Len(pending) + 1
      /\ \A i \in 1..Len(pending) : pending'[i] = pending[i]
      /\ pending'[Len(pending) + 1] = Functor("destroyed")
  BY <1>1, <1>2, <1>3, AppendProperties, LenProperties
<1>5. \A i \in 1..Len(pending) : pending[i].op # "destroyed"
  <2> SUFFICES ASSUME NEW i \in 1..Len(pending) PROVE pending[i].op # "destroyed"
    OBVIOUS
  <2>1. pending[i] \in FunctorsBut("destroyed")
    BY <1>1, ElementOfSeq
  <2>2. QED  BY <2>1 DEF FunctorsBut
<1>6. Len(pending) + 1 \in 1..Len(pending')
  BY <1>4
<1>7. ASSUME NEW j \in 1..Len(pending')
      PROVE  /\ pending'[j].op = "destroyed" => j = Len(pending) + 1
             /\ pending'[j].op = "writeComplete" => j < Len(pending) + 1
  <2>1. CASE j \in 1..Len(pending)
    BY <1>4, <1>5, <2>1
  <2>2. CASE j = Len(pending) + 1
    BY <1>3, <1>4, <2>2
  <2>3. QED  BY <1>4, <2>1, <2>2
<1>8. added'
  BY <1>1 DEF conn
<1>9. QED  BY <1>2, <1>3, <1>4, <1>6, <1>7, <1>8 DEF Held

\* Down, and the server still to be told.
LEMMA LifeInMap ==
  ASSUME ~ServerDies, OnceInv, QuietInv, LifeInv, state = "kDisconnected", inMap,
         [Next]_vars
  PROVE  LifeInv'
<1>1. /\ added /\ server \in {"same", "other"}
      /\ stack \in Seq(FramesBut("remove"))
      /\ pending \in Seq(FunctorsBut("destroyed"))
      /\ \/ removing = 1 /\ stack \in Seq(FramesBut("close"))
         \/ removing = 0 /\ Closing
  BY DEF LifeInv
<1>2. TypeOK /\ stack \in Seq(Frames)
  BY DEF OnceInv, TypeOK, ConnTypes
<1>3. state' = "kDisconnected"
  BY <1>1, DownSteps
<1>4. CASE ResumeClose
  <2>1. stack # <<>> /\ Head(stack).frame = "close" /\ stack' = Tail(stack) /\ UNCHANGED <<conn, server>>
    BY <1>4 DEF ResumeClose, Resumes
  <2>2. /\ Len(stack) \in Nat \ {0} /\ Head(stack) = stack[1]
        /\ Len(stack') = Len(stack) - 1 /\ stack' \in Seq(Frames)
        /\ \A i \in 1..Len(stack') : i + 1 \in 1..Len(stack) /\ stack'[i] = stack[i + 1]
    BY <1>2, <2>1, Pop
  <2>3. stack' \in Seq(FramesBut("remove"))
    BY <1>1, <2>1, Pop
  <2>4. removing = 0 /\ Closing
    <3>1. stack \notin Seq(FramesBut("close"))
      <4> SUFFICES ASSUME stack \in Seq(FramesBut("close")) PROVE FALSE
        OBVIOUS
      <4>1. Head(stack) \in FramesBut("close")
        BY <2>1, Pop
      <4>2. QED  BY <2>1, <4>1 DEF FramesBut
    <3>2. QED  BY <1>1, <3>1
  <2>5. stack' \in Seq(FramesBut("close"))
    <3>1. ASSUME NEW i \in 1..Len(stack') PROVE stack'[i].frame # "close" /\ stack'[i] \in Frames
      <4>1. i + 1 \in 1..Len(stack) /\ stack'[i] = stack[i + 1] /\ 1 \in 1..Len(stack)
        BY <2>2
      <4>2. stack[1].frame = "close"
        BY <2>1, <2>2
      <4>3. i + 1 # 1
        OBVIOUS
      <4>4. stack[i + 1].frame # "close"
        BY <2>4, <4>1, <4>2, <4>3 DEF Closing
      <4>5. QED  BY <1>2, <4>1, <4>4, ElementOfSeq
    <3>2. stack' \in [1..Len(stack') -> FramesBut("close")]
      BY <2>2, <3>1, LenProperties DEF FramesBut
    <3>3. QED  BY <2>2, <3>2
  <2>6. CASE server = "other"
    <3>1. removing' = 1 /\ UNCHANGED <<inMap, pending>>
      BY <1>4, <2>4, <2>6 DEF ResumeClose
    <3>2. QED  BY <1>1, <1>3, <2>1, <2>3, <2>5, <3>1 DEF LifeInv, conn
  <2>7. CASE server # "other"
    <3>1. removeConnectionInLoop /\ removing' = removing
      BY <1>1, <1>4, <2>7 DEF ResumeClose
    <3>2. inMap' = FALSE /\ Held'
      BY <1>2, <2>1, <2>3, <3>1, LifeHandsOver
    <3>3. QED  BY <1>1, <1>3, <2>1, <2>4, <2>5, <3>1, <3>2 DEF LifeInv
  <2>8. QED  BY <2>6, <2>7
<1>5. CASE ServerRemove
  <2>1. removing = 1 /\ stack \in Seq(FramesBut("close"))
    BY <1>1, <1>5 DEF ServerRemove
  <2>2. removing' = 0 /\ removeConnectionInLoop /\ UNCHANGED <<conn, stack, server>>
    BY <1>5, <2>1 DEF ServerRemove
  <2>3. inMap' = FALSE /\ Held'
    BY <1>1, <1>2, <2>2, LifeHandsOver
  <2>4. QED  BY <1>1, <1>3, <2>1, <2>2, <2>3 DEF LifeInv
<1>6. CASE ~ResumeClose /\ ~ServerRemove
  <2>1. UNCHANGED owner
    BY <1>1, <1>6, DownSteps
  <2>2. ~RunDestroyed
    <3> SUFFICES ASSUME RunDestroyed PROVE FALSE
      OBVIOUS
    <3>1. pending # <<>> /\ Head(pending).op = "destroyed"
      BY <1>2, NextTypes DEF RunDestroyed, TypeOK, Ops
    <3>2. Head(pending) \in FunctorsBut("destroyed")
      BY <1>1, <3>1, Pop
    <3>3. QED  BY <3>1, <3>2 DEF FunctorsBut
  <2>3. ~ResumeDestroy
    <3> SUFFICES ASSUME ResumeDestroy PROVE FALSE
      OBVIOUS
    <3>1. stack # <<>> /\ Head(stack).frame = "remove"
      BY DEF ResumeDestroy, Resumes
    <3>2. Head(stack) \in FramesBut("remove")
      BY <1>1, <3>1, Pop
    <3>3. QED  BY <3>1, <3>2 DEF FramesBut
  <2>4. UserFrames /\ Dwindles /\ added' = added
    <3>1. ~QueuesDestroyed
      BY <2>1 DEF QueuesDestroyed, owner
    <3>2. QED  BY <1>1, <1>6, <2>2, <2>3, <3>1, DownSteps
  <2>5. /\ \A place \in Places : User(place) \in FramesBut("remove")
        /\ \A place \in Places : User(place) \in FramesBut("close")
        /\ LateFunctors \subseteq FunctorsBut("destroyed")
    BY FrameTypes DEF FramesBut, User, LateFunctors, FunctorsBut
  <2>6. /\ stack' \in Seq(FramesBut("remove"))
        /\ pending' \in Seq(FunctorsBut("destroyed"))
        /\ stack \in Seq(FramesBut("close")) => stack' \in Seq(FramesBut("close"))
        /\ Closing => Closing'
    BY <1>1, <1>2, <2>4, <2>5, FramesKept, FunctorsKept, ClosingKept
  <2>7. QED  BY <1>1, <1>3, <2>1, <2>4, <2>6 DEF LifeInv, owner
<1>7. QED  BY <1>4, <1>5, <1>6

\* Down, and the server told.
LEMMA LifeOutOfMap ==
  ASSUME ~ServerDies, OnceInv, QuietInv, LifeInv, state = "kDisconnected", ~inMap,
         [Next]_vars
  PROVE  LifeInv'
<1>1. /\ removing = 0 /\ server \in {"same", "other"} /\ inMap = FALSE
      /\ stack \in Seq(FramesBut("close"))
  BY DEF LifeInv, OnceInv, TypeOK, OwnerTypes
<1>2. TypeOK
  BY DEF OnceInv
<1>3. state' = "kDisconnected"
  BY <1>1, DownSteps
<1>4. ~ResumeClose /\ ~ServerRemove
  <2>1. ~Resumes("close")
    <3> SUFFICES ASSUME Resumes("close") PROVE FALSE
      OBVIOUS
    <3>1. stack # <<>> /\ Head(stack).frame = "close"
      BY DEF Resumes
    <3>2. Head(stack) \in FramesBut("close")
      BY <1>1, <3>1, Pop
    <3>3. QED  BY <3>1, <3>2 DEF FramesBut
  <2>2. ~(removing > 0)
    BY <1>1
  <2>3. QED  BY <2>1, <2>2 DEF ResumeClose, ServerRemove
<1>5. UNCHANGED owner /\ removing' = 0 /\ inMap' = FALSE /\ server' \in {"same", "other"}
  BY <1>1, <1>4, DownSteps DEF owner
<1>6. Dwindles /\ (UserFrames \/ ResumeDestroy \/ (RunDestroyed /\ Removes))
  BY <1>1, <1>4, DownSteps DEF QueuesDestroyed
<1>7. /\ \A place \in Places : User(place) \in FramesBut("remove") /\ User(place) \in FramesBut("close")
      /\ Frame("remove") \in FramesBut("close")
  BY FrameTypes DEF FramesBut, User, Frame
<1>8. CASE Held
  <2>1. ~ResumeDestroy
    <3> SUFFICES ASSUME ResumeDestroy PROVE FALSE
      OBVIOUS
    <3>1. stack # <<>> /\ Head(stack).frame = "remove"
      BY DEF ResumeDestroy, Resumes
    <3>2. Head(stack) \in FramesBut("remove")
      BY <1>8, <3>1, Pop DEF Held
    <3>3. QED  BY <3>1, <3>2 DEF FramesBut
  <2>2. added' = added
    BY <1>1, <2>1, DownSteps
  <2>3. CASE RunDestroyed
    <3>1. /\ pending # <<>> /\ pending[1].op = "destroyed" /\ pending' = Tail(pending)
          /\ dispatch = <<>> /\ dispatch' = <<>>
      BY <1>1, <1>2, <2>3, NextTypes, DownSteps DEF RunDestroyed, NextFunctor, LoopIdle, TypeOK, Ops
    <3>2. stack' = <<Frame("remove")>>
      <4>1. state # "kConnected"
        OBVIOUS
      <4>2. QED  BY <2>3, <4>1 DEF RunDestroyed, connectDestroyed
    <3>3. /\ pending \in Seq(Functors)
          /\ Len(pending) \in Nat \ {0}
          /\ Tail(pending) \in Seq(Functors)
          /\ Len(pending') = Len(pending) - 1
          /\ \A i \in 1..Len(pending') : i + 1 \in 1..Len(pending) /\ pending'[i] = pending[i + 1]
      <4>1. pending \in Seq(Functors)
        BY <1>2 DEF TypeOK, LoopTypes
      <4>2. QED  BY <3>1, <4>1, Pop
    <3>4. PICK k \in 1..Len(pending) :
            \A j \in 1..Len(pending) :
               /\ pending[j].op = "destroyed" => j = k
               /\ pending[j].op = "writeComplete" => j < k
      BY <1>8 DEF Held
    <3>5. k = 1
      <4>1. 1 \in 1..Len(pending)
        BY <3>3
      <4>2. QED  BY <3>1, <3>4, <4>1
    <3>6. ASSUME NEW i \in 1..Len(pending') PROVE pending'[i] \in LateFunctors
      <4>1. i + 1 \in 1..Len(pending) /\ pending'[i] = pending[i + 1] /\ i + 1 # 1 /\ ~(i + 1 < 1)
        BY <3>3
      <4>2. pending[i + 1].op \notin {"destroyed", "writeComplete"}
        BY <3>4, <3>5, <4>1
      <4>3. pending[i + 1] \in Functors
        BY <3>3, <4>1, ElementOfSeq
      <4>4. QED  BY <4>1, <4>2, <4>3 DEF LateFunctors
    <3>7. pending' \in Seq(LateFunctors)
      <4>1. pending' \in [1..Len(pending') -> LateFunctors] /\ Len(pending') \in Nat
        BY <3>1, <3>3, <3>6, LenProperties
      <4>2. QED  BY <4>1
    <3>8. Removing'
      BY <1>8, <2>2, <3>2 DEF Removing, Held
    <3>9. stack' \in Seq(FramesBut("close"))
      BY <1>7, <3>2
    <3>10. QED  BY <1>3, <1>5, <3>1, <3>7, <3>8, <3>9 DEF LifeInv
  <2>4. CASE ~RunDestroyed
    <3>1. Held'
      BY <1>2, <1>6, <1>8, <2>1, <2>2, <2>4, HeldKept
    <3>2. stack' \in Seq(FramesBut("close"))
      BY <1>1, <1>6, <1>7, <2>1, <2>4, FramesKept
    <3>3. QED  BY <1>3, <1>5, <3>1, <3>2 DEF LifeInv
  <2>5. QED  BY <2>3, <2>4
<1>9. CASE dispatch = <<>> /\ pending \in Seq(LateFunctors) /\ (Removing \/ Removed)
  <2>1. dispatch' = <<>>
    BY <1>1, <1>9, DownSteps
  <2>2. pending' \in Seq(LateFunctors)
    BY <1>2, <1>6, <1>9, FunctorsKept
  <2>3. ~RunDestroyed
    <3> SUFFICES ASSUME RunDestroyed PROVE FALSE
      OBVIOUS
    <3>1. pending # <<>> /\ Head(pending).op = "destroyed"
      BY <1>2, NextTypes DEF RunDestroyed, TypeOK, Ops
    <3>2. Head(pending) \in LateFunctors
      BY <1>9, <3>1, Pop
    <3>3. QED  BY <3>1, <3>2 DEF LateFunctors
  <2>4. CASE ResumeDestroy
    <3>1. ~Removed
      <4> SUFFICES ASSUME Removed PROVE FALSE
        OBVIOUS
      <4>1. stack # <<>> /\ Head(stack).frame = "remove"
        BY <2>4 DEF ResumeDestroy, Resumes
      <4>2. Head(stack) \in FramesBut("remove")
        BY <4>1, Pop DEF Removed
      <4>3. QED  BY <4>1, <4>2 DEF FramesBut
    <3>2. added /\ stack = <<Frame("remove")>>
      BY <1>9, <3>1 DEF Removing
    <3>3. events = {}
      BY DEF QuietInv
    <3>4. added' = FALSE /\ stack' = <<>>
      BY <2>4, <3>2, <3>3 DEF ResumeDestroy
    <3>5. Removed' /\ stack' \in Seq(FramesBut("close"))
      BY <3>4, EmptySeq DEF Removed
    <3>6. QED  BY <1>3, <1>5, <2>1, <2>2, <3>5 DEF LifeInv
  <2>5. CASE ~ResumeDestroy
    <3>1. UserFrames /\ added' = added
      BY <1>1, <1>6, <2>3, <2>5, DownSteps
    <3>2. stack' \in Seq(FramesBut("close"))
      BY <1>1, <1>7, <3>1, FramesKept
    <3>3. Removed => Removed'
      BY <1>7, <3>1, FramesKept DEF Removed
    <3>4. Removing => Removing'
      <4> SUFFICES ASSUME Removing PROVE Removing'
        OBVIOUS
      <4>1. stack # <<>> /\ Head(stack).frame = "remove"
        BY DEF Removing, Frame
      <4>2. stack' = stack
        BY <3>1, <4>1 DEF UserFrames
      <4>3. QED  BY <3>1, <4>2 DEF Removing
    <3>5. QED  BY <1>3, <1>5, <1>9, <2>1, <2>2, <3>2, <3>3, <3>4 DEF LifeInv
  <2>6. QED  BY <2>4, <2>5
<1>10. QED  BY <1>8, <1>9 DEF LifeInv

\* The invariant holds at the start.
LEMMA LifeStart == ~ServerDies /\ Init => LifeInv
<1> SUFFICES ASSUME Init PROVE LifeInv
  OBVIOUS
<1>1. pending \in Seq(FunctorsBut("destroyed"))
  <2>1. Functor("established") \in FunctorsBut("destroyed")
    BY FunctorTypes DEF FunctorsBut, Functor, Ops
  <2>2. QED  BY <2>1 DEF Init
<1>2. server \in {"same", "other"} /\ state = "kConnecting" /\ inMap /\ removing = 0 /\ ~added
  BY ConnectionAssumption DEF Init
<1>3. stack \in Seq(CallFrames)
  BY EmptySeq DEF Init
<1>4. QED  BY <1>1, <1>2, <1>3 DEF LifeInv

\* The fourth layer: somebody holds the connection until connectDestroyed has
\* taken its channel out of the poller, while the server lives.
THEOREM LifeInvariant ==
  ASSUME CloseInLoop, HighWaterKeepsOpen, ~ServerDies
  PROVE  Spec => []LifeInv
<1>1. OnceInv /\ QuietInv /\ LifeInv /\ [Next]_vars => LifeInv'
  BY ~ServerDies, LifeUp, LifeInMap, LifeOutOfMap
<1>2. Init => LifeInv
  BY ~ServerDies, LifeStart
<1>3. QED
  BY CloseInLoop, HighWaterKeepsOpen, <1>1, <1>2, OnceInvariant, QuietInvariant, PTL DEF Spec

\* The last reference goes only when the connection is closed, out of the
\* poller, and neither an event nor a functor waits for it.
THEOREM LifetimeIsSafe ==
  ASSUME CloseInLoop, HighWaterKeepsOpen, ~ServerDies
  PROVE  Spec => []LifetimeSafe
<1>1. TypeOK /\ LifeInv => LifetimeSafe
  <2> SUFFICES ASSUME TypeOK, LifeInv, ~Alive
               PROVE  state = "kDisconnected" /\ ~added /\ dispatch = <<>> /\ pending = <<>>
    BY DEF LifetimeSafe
  <2>1. /\ ~inMap /\ ~(removing > 0) /\ stack = <<>>
        /\ \A i \in 1..Len(pending) : pending[i].op = "writeComplete"
    BY DEF Alive, Owning
  <2>2. state = "kDisconnected"
    BY <2>1 DEF LifeInv
  <2>3. ~Held
    BY <2>1 DEF Held
  <2>4. dispatch = <<>> /\ pending \in Seq(LateFunctors) /\ (Removing \/ Removed)
    BY <2>1, <2>2, <2>3 DEF LifeInv
  <2>5. ~added
    BY <2>1, <2>4 DEF Removing, Removed
  <2>6. pending = <<>>
    <3> SUFFICES ASSUME pending # <<>> PROVE FALSE
      OBVIOUS
    <3>1. 1 \in 1..Len(pending) /\ pending[1] \in LateFunctors
      BY <2>4, Pop
    <3>2. pending[1].op = "writeComplete"
      BY <2>1, <3>1
    <3>3. QED  BY <3>1, <3>2 DEF LateFunctors
  <2>7. QED  BY <2>2, <2>4, <2>5, <2>6
<1>2. QED
  BY CloseInLoop, HighWaterKeepsOpen, ~ServerDies, <1>1, TypeCorrect, LifeInvariant, PTL

-----------------------------------------------------------------------------
(* Assertions                                                              *)

\* The steps that abort the program, and what they have found.
LEMMA FailureSteps ==
  ASSUME TypeOK, [Next]_vars
  PROVE  \/ failed' = failed
         \/ failed' = "handleClose" /\ ~Up /\ handleRead /\ handlers' = handlers
         \/ failed' = "updateChannel" /\ Up /\ ~added
         \/ failed' = "connectEstablished" /\ state # "kConnecting" /\ NextFunctor("established")
         \/ failed' = "connection freed" /\ ~Alive /\ NextFunctor("writeComplete")
         \/ failed' = "Channel::remove" /\ events # {} /\ Resumes("remove")
         \/ failed' = "removeChannel" /\ ~added /\ Resumes("remove")
         \/ failed' \in {"server freed", "EventLoop freed"} /\ server \in {"gone", "ended"}
         \/ failed' = "removeConnectionInLoop" /\ ~inMap /\ (Resumes("close") \/ removing > 0)
<1> DEFINE Unregistered == failed' = "updateChannel" /\ Up /\ ~added
<1>1. ASSUME NEW m \in Msgs, UserSend(m) PROVE failed' = failed
  BY <1>1, SendEffect DEF UserSend, TypeOK, ConnTypes, LoopTypes
<1>2. ASSUME UserShutdown \/ UserReturn \/ ResumeSend
      PROVE  failed' = failed
  BY <1>2 DEF UserShutdown, UserReturn, ResumeSend, Keep
<1>3. ASSUME UserForceClose \/ RunForceClose
      PROVE  failed' = failed \/ Unregistered
  BY <1>3 DEF UserForceClose, RunForceClose, handleClose, Fail, Up
<1>4. ASSUME NEW t \in Threads, Thread(t) \/ ThreadGoesOn(t)
      PROVE  failed' = failed \/ (failed' = "EventLoop freed" /\ server = "ended")
  BY <1>4 DEF Thread, ThreadGoesOn, ThreadSend, ThreadShutdown, ThreadForceClose, Drop,
     SetDisconnecting, QueueCall
<1>5. ASSUME StartRound \/ EndRound \/ RunShutdown
      PROVE  failed' = failed
  BY <1>5 DEF StartRound, EndRound, RunShutdown
<1>6. ASSUME connectEstablished
      PROVE  \/ failed' = failed
             \/ failed' = "connectEstablished" /\ state # "kConnecting" /\ NextFunctor("established")
  BY <1>6 DEF connectEstablished, Fail
<1>7. ASSUME RunSend PROVE failed' = failed
  <2>1. pending[1].msg \in Msgs /\ Tail(pending) \in Seq(Functors) /\ Head(pending) = pending[1]
    BY <1>7, NextTypes, FunctorTypes DEF RunSend, Ops, TypeOK
  <2>2. sendInLoop(pending[1].msg, <<>>, Tail(pending)) /\ <<>> \in Seq(Frames)
    BY <1>7, <2>1, EmptySeq DEF RunSend
  <2>3. QED  BY <2>1, <2>2, SendEffect
<1>8. ASSUME RunWriteComplete
      PROVE  failed' = failed \/ (failed' = "connection freed" /\ ~Alive /\ NextFunctor("writeComplete"))
  BY <1>8 DEF RunWriteComplete, Fail
<1>9. ASSUME RunDestroyed \/ ServerDestroyInLoop PROVE failed' = failed
  BY <1>9 DEF RunDestroyed, ServerDestroyInLoop, connectDestroyed
<1>10. ASSUME ResumeClose \/ ServerRemove
       PROVE  \/ failed' = failed
              \/ failed' = "server freed" /\ server \in {"gone", "ended"}
              \/ failed' = "removeConnectionInLoop" /\ ~inMap /\ (Resumes("close") \/ removing > 0)
  BY <1>10 DEF ResumeClose, ServerRemove, removeConnectionInLoop
<1>11. ASSUME ResumeDestroy
       PROVE  \/ failed' = failed
              \/ failed' = "Channel::remove" /\ events # {} /\ Resumes("remove")
              \/ failed' = "removeChannel" /\ ~added /\ Resumes("remove")
  BY <1>11 DEF ResumeDestroy, Fail
<1>12. ASSUME handleRead
       PROVE  \/ failed' = failed \/ Unregistered
              \/ failed' = "handleClose" /\ ~Up /\ handleRead /\ handlers' = handlers
  BY <1>12 DEF handleRead, Dispatches, handleClose, Fail, Up
<1>13. ASSUME Poll \/ HandleOther \/ handleWrite \/ KernelDrains PROVE failed' = failed
  BY <1>13 DEF Poll, HandleOther, handleWrite, KernelDrains
<1>14. ASSUME ServerDestroy \/ LoopEnds \/ PeerSends \/ PeerCloses \/ PeerResets
       PROVE  failed' = failed
  BY <1>14 DEF ServerDestroy, LoopEnds, PeerSends, PeerCloses, PeerResets
<1>15. UNCHANGED vars => failed' = failed
  BY DEF vars
<1>16. QED
  BY <1>1, <1>2, <1>3, <1>4, <1>5, <1>6, <1>7, <1>8, <1>9, <1>10, <1>11, <1>12, <1>13, <1>14, <1>15
     DEF Next, UserCalls, LoopStep, Environment

\* Nothing happens to an aborted program.
LEMMA AbortedStays ==
  ASSUME ~Running, [Next]_vars
  PROVE  UNCHANGED vars
<1>1. ~UserCalls /\ ~HandleOther /\ ~ServerRemove /\ ~KernelDrains
  BY DEF UserCalls, UserSend, UserShutdown, UserForceClose, UserMay, InUserCode, HandleOther,
     ServerRemove, KernelDrains
<1>2. ASSUME NEW t \in Threads PROVE ~Thread(t) /\ ~ThreadGoesOn(t)
  BY DEF Thread, ThreadGoesOn, ThreadSend, ThreadShutdown, ThreadForceClose, ThreadMay, Drop,
     SetDisconnecting, QueueCall, At
<1>3. ~LoopStep
  BY DEF LoopStep, UserReturn, InUserCode, StartRound, EndRound, RoundOver, connectEstablished,
     RunSend, RunShutdown, RunForceClose, RunWriteComplete, RunDestroyed, NextFunctor, LoopIdle,
     ResumeSend, ResumeClose, ResumeDestroy, Resumes, Poll, handleRead, handleWrite, Dispatches
<1>4. ~Environment
  BY DEF Environment, ServerDestroy, ServerDestroyInLoop, LoopEnds, RoundOver, LoopIdle, PeerSends,
     PeerCloses, PeerResets
<1>5. QED  BY <1>1, <1>2, <1>3, <1>4 DEF Next

\* While the server lives, the assertions that the code relies on hold, and
\* nothing of the connection is used after it was freed.
LEMMA FailsOnlyTwice ==
  ASSUME OnceInv, QuietInv, DispatchInv, LifeInv, [Next]_vars
  PROVE  failed' = failed \/ (failed' = "handleClose" /\ handlers' > 1)
<1>1. TypeOK /\ stack \in Seq(Frames)
  BY DEF OnceInv, TypeOK, ConnTypes
<1>2. handleRead => Up \/ handlers > 1
  BY ReadsWhileUp
<1>3. NextFunctor("established") => state = "kConnecting"
  <2> SUFFICES ASSUME NextFunctor("established"), state # "kConnecting" PROVE FALSE
    OBVIOUS
  <2>1. pending # <<>> /\ Head(pending).op = "established"
    BY <1>1, NextTypes DEF TypeOK, Ops
  <2>2. Head(pending) \in FunctorsBut("established")
    BY <2>1, Pop DEF OnceInv, ConnectingInv
  <2>3. QED  BY <2>1, <2>2 DEF FunctorsBut
<1>4. NextFunctor("writeComplete") => Alive
  <2> SUFFICES ASSUME NextFunctor("writeComplete"), ~inMap PROVE Alive
    BY DEF Alive
  <2>1. pending # <<>> /\ Head(pending).op = "writeComplete"
    BY <1>1, NextTypes DEF TypeOK, Ops
  <2>2. pending \notin Seq(LateFunctors)
    <3> SUFFICES ASSUME pending \in Seq(LateFunctors) PROVE FALSE
      OBVIOUS
    <3>1. Head(pending) \in LateFunctors
      BY <2>1, Pop
    <3>2. QED  BY <2>1, <3>1 DEF LateFunctors
  <2>3. Held
    BY <2>2 DEF LifeInv
  <2>4. QED  BY <2>3 DEF Held, Alive, Owning
<1>5. Resumes("remove") => events = {} /\ added
  <2> SUFFICES ASSUME Resumes("remove") PROVE events = {} /\ added
    OBVIOUS
  <2>1. stack # <<>> /\ Head(stack).frame = "remove"
    BY DEF Resumes
  <2>2. stack \notin Seq(CallFrames) /\ stack \notin Seq(FramesBut("remove"))
    <3>1. stack \in Seq(CallFrames) => Head(stack) \in CallFrames
      BY <2>1, Pop
    <3>2. stack \in Seq(FramesBut("remove")) => Head(stack) \in FramesBut("remove")
      BY <2>1, Pop
    <3>3. QED  BY <2>1, <3>1, <3>2 DEF CallFrames, FramesBut
  <2>3. state = "kDisconnected" /\ Removing
    BY <2>2 DEF LifeInv, Held, Removed
  <2>4. QED  BY <2>3 DEF QuietInv, Removing
<1>6. Resumes("close") => inMap
  <2> SUFFICES ASSUME Resumes("close") PROVE inMap
    OBVIOUS
  <2>1. stack # <<>> /\ Head(stack).frame = "close"
    BY DEF Resumes
  <2>2. stack \notin Seq(CallFrames) /\ stack \notin Seq(FramesBut("close"))
    <3>1. stack \in Seq(CallFrames) => Head(stack) \in CallFrames
      BY <2>1, Pop
    <3>2. stack \in Seq(FramesBut("close")) => Head(stack) \in FramesBut("close")
      BY <2>1, Pop
    <3>3. QED  BY <2>1, <3>1, <3>2 DEF CallFrames, FramesBut
  <2>3. QED  BY <2>2 DEF LifeInv
<1>7. removing > 0 => inMap
  BY DEF LifeInv
<1>8. server \notin {"gone", "ended"}
  BY DEF LifeInv
<1>9. Up => added
  BY DEF LifeInv, Up
<1>10. QED
  BY <1>1, <1>2, <1>3, <1>4, <1>5, <1>6, <1>7, <1>8, <1>9, FailureSteps

\* While the server lives, no assertion on the way of a connection fails and
\* nothing of it is used after it was freed, the bare this of the write
\* complete functor included, but for the assertion of handleClose behind
\* another handler of the same iteration.
THEOREM NoAssertionAborts ==
  ASSUME CloseInLoop, HighWaterKeepsOpen, ~ServerDies
  PROVE  Spec => []AssertionsHold
<1>1. ASSUME OnceInv, QuietInv, DispatchInv, LifeInv, AssertionsHold, [Next]_vars
      PROVE  AssertionsHold'
  <2>1. CASE Running
    <3>1. failed = "none"
      BY <2>1 DEF Running
    <3>2. failed' = failed \/ (failed' = "handleClose" /\ handlers' > 1)
      BY <1>1, FailsOnlyTwice
    <3>3. QED  BY <3>1, <3>2 DEF AssertionsHold
  <2>2. CASE ~Running
    <3>1. failed' = failed /\ handlers' = handlers
      BY <1>1, <2>2, AbortedStays DEF vars, loop, polled
    <3>2. QED  BY <1>1, <3>1 DEF AssertionsHold
  <2>3. QED  BY <2>1, <2>2
<1>2. Init => AssertionsHold
  BY DEF Init, AssertionsHold
<1>3. QED
  BY CloseInLoop, HighWaterKeepsOpen, ~ServerDies, <1>1, <1>2, OnceInvariant,
     QuietInvariant, DispatchInvariant, LifeInvariant, PTL DEF Spec
=============================================================================
