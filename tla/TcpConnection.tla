---------------------------- MODULE TcpConnection ----------------------------
(***************************************************************************)
(* One TcpConnection (muduo/net/tcp_conncetion.cc) from newConnection to   *)
(* the last reference: the IO thread that dispatches its channel's events  *)
(* and runs its functors, other threads that call send, shutdown and       *)
(* forceClose, the TcpServer that owns it, and the peer.                   *)
(*                                                                         *)
(* The IO thread's calls nest: a callback is user code, which may call the *)
(* connection again before the library function that invoked the callback  *)
(* goes on. stack is the IO thread's call stack, innermost frame first:    *)
(*   user    user code in the callback named place                         *)
(*   append  sendInLoop after the high water callback, bytes still to keep *)
(*   close   handleClose after the connection callback                     *)
(*   remove  connectDestroyed after the connection callback                *)
(* It is empty while the loop is between two dispatches or functors.       *)
(*                                                                         *)
(* The loop is the one EventLoop promises (FunctorQueue): functors in the  *)
(* order of queueing, in rounds that do not grow, one round after each     *)
(* poll. The poller is the KqueuePoller, which newDefaultPoller always     *)
(* builds. The output buffer is a Buffer of BufferFunctions, stale bytes   *)
(* and all.                                                                *)
(***************************************************************************)
EXTENDS BufferFunctions, FiniteSets

CONSTANTS
  Msgs,           \* messages users send, each at most once
  Size,           \* bytes in each message
  Threads,        \* threads other than the IO thread
  HighWaterMark,  \* high_water_mark_
  Calls,          \* which of send, shutdown, forceClose users call, by place
  Servers,        \* where the server's loop may be: "same" as the
                  \* connection's, or an "other" one
  ServerDies,     \* TRUE: the server may be destroyed under the connection
  MaxCalls,       \* bound: shutdown and forceClose calls in the IO thread
  MaxHandlers,    \* bound: handlers of one iteration that use the connection
  MaxIncoming     \* bound: times the peer sends data

Places == {"connection", "message", "writeComplete", "highWater", "other",
           "thread"}

\* The bytes of a message.
Payload(m) == [i \in 1..Size[m] |-> <<m, i>>]

ASSUME ConnectionAssumption ==
  /\ Size \in [Msgs -> Nat \ {0}]
  /\ \A m \in Msgs : Payload(m) \in Seq(Bytes)
  /\ Threads \cap {"io", "nobody"} = {}
  /\ HighWaterMark \in Nat \ {0}
  /\ Calls \in [Places -> SUBSET {"send", "shutdown", "forceClose"}]
  /\ Servers \subseteq {"same", "other"}
  /\ ServerDies \in BOOLEAN
  /\ MaxCalls \in Nat
  /\ MaxHandlers \in Nat
  /\ MaxIncoming \in Nat

VARIABLES
  state,     \* state_
  events,    \* the channel's events_: "R", "W"
  added,     \* the channel is in the poller
  output,    \* output_buffer_
  stack,     \* the IO thread's call stack
  dispatch,  \* events of the channel that wait to be dispatched
  handlers,  \* the iteration's handlers that use the connection, its own
             \* ones that still wait included
  pending,   \* functors queued in the loop that concern the connection
  quota,     \* how many of them the current round still runs
  roundRef,  \* the current round keeps a functor that owns the connection
  pc,        \* where each other thread is
  arg,       \* the message it is sending
  inMap,     \* connections_ holds the connection
  removing,  \* removeConnectionInLoop functors queued in the server's loop
  server,    \* the loop of the TcpServer; once it is destroyed, "gone" when
             \* that was the connection's loop, else "stopped" as long as it
             \* joins the connection's loop, and "ended" when that has ended
  rx,        \* unread data has arrived
  end,       \* what reads return after the data: "open", "error" or "eof"
  gone,      \* the peer has reset the connection: writes fail
  room,      \* the kernel takes more output
  sent,      \* bytes the kernel has taken
  fin,       \* shutdownWrite has been called
  unsent,    \* history: messages not sent yet
  by,        \* history: the thread that sent each message
  owed,      \* history: messages of the thread whose shutdown took effect
  late,      \* history: messages still in a functor when handleWrite ended
             \* the stream
  ups,       \* history: connection callbacks with connected()
  downs,     \* history: connection callbacks without
  calls,     \* shutdown and forceClose calls made in the IO thread
  incoming,  \* times the peer has sent
  failed     \* the assertion that has aborted the program, or "none"

conn    == <<state, events, added, output>>
polled  == <<dispatch, handlers>>
loop    == <<polled, pending, quota, roundRef>>
threads == <<pc, arg>>
owner   == <<inMap, removing, server>>
peer    == <<rx, end, gone, incoming>>
kernel  == <<room, sent, fin>>
history == <<unsent, by, owed, late, ups, downs, calls>>
vars == <<conn, stack, loop, threads, owner, peer, kernel, history, failed>>

Writing == "W" \in events

User(place) == [frame |-> "user", place |-> place]
Frame(kind) == [frame |-> kind]
Append_(bytes) == [frame |-> "append", bytes |-> bytes]

\* Functors that capture a shared_ptr keep the connection alive; the write
\* complete functor captures a bare this.
Functor(op) == [op |-> op]
SendFunctor(m) == [op |-> "send", msg |-> m]
Owning(f) == f.op # "writeComplete"

\* The program has not been aborted.
Running == failed = "none"

\* Somebody holds a reference.
Alive ==
  \/ inMap \/ removing > 0 \/ roundRef \/ stack # <<>>
  \/ \E i \in 1..Len(pending) : Owning(pending[i])
  \/ \E t \in Threads : pc[t] # "none"

Init ==
  /\ state = "kConnecting"
  /\ events = {}
  /\ added = FALSE
  /\ output = NewBuffer
  /\ stack = <<>>
  /\ dispatch = <<>>
  /\ handlers = 0
  /\ pending = <<Functor("established")>>
  /\ quota = 0
  /\ roundRef = FALSE
  /\ pc = [t \in Threads |-> "none"]
  /\ arg = [t \in Threads |-> "none"]
  /\ inMap = TRUE
  /\ removing = 0
  /\ server \in Servers
  /\ rx = FALSE
  /\ end = "open"
  /\ gone = FALSE
  /\ room = TRUE
  /\ sent = <<>>
  /\ fin = FALSE
  /\ unsent = Msgs
  /\ by = [m \in Msgs |-> "nobody"]
  /\ owed = {}
  /\ late = {}
  /\ ups = 0
  /\ downs = 0
  /\ calls = 0
  /\ incoming = 0
  /\ failed = "none"

-----------------------------------------------------------------------------
(* Library functions in the IO thread. under is the stack they return to.  *)

\* An assertion fails: the program is aborted.
Fail(assertion) ==
  /\ failed' = assertion
  /\ UNCHANGED <<conn, stack>>

\* Mutant: disableAll is missing.
CloseKeepsInterest(under) ==
  IF state \notin {"kConnected", "kDisconnecting"}
    THEN Fail("handleClose") /\ UNCHANGED downs
  ELSE IF ~added
    THEN Fail("updateChannel") /\ UNCHANGED downs
    ELSE /\ state' = "kDisconnected"
         /\ stack' = <<User("connection"), Frame("close")>> \o under
         /\ downs' = downs + 1
         /\ UNCHANGED <<events, added, output, failed>>

\* handleClose, up to the connection callback. disableAll of a channel that
\* is out of the poller fails an assertion there.
handleClose(under) ==
  IF state \notin {"kConnected", "kDisconnecting"}
    THEN Fail("handleClose") /\ UNCHANGED downs
  ELSE IF ~added
    THEN Fail("updateChannel") /\ UNCHANGED downs
    ELSE /\ state' = "kDisconnected"
         /\ events' = {}
         /\ stack' = <<User("connection"), Frame("close")>> \o under
         /\ downs' = downs + 1
         /\ UNCHANGED <<added, output, failed>>

\* The last part of sendInLoop: what is left goes to the output buffer.
Keep(bytes, under) ==
  /\ output' = append(output, bytes)
  /\ events' = events \cup {"W"}
  /\ added' = (added \/ ~Writing)
  /\ stack' = under
  /\ UNCHANGED <<state, failed>>

\* sendInLoop after the direct write: call back first at the high water mark.
KeepRest(bytes, under) ==
  IF bytes = <<>>
    THEN /\ stack' = under
         /\ UNCHANGED <<conn, failed>>
  ELSE IF /\ readableBytes(output) < HighWaterMark
          /\ readableBytes(output) + Len(bytes) >= HighWaterMark
    THEN /\ stack' = <<User("highWater"), Append_(bytes)>> \o under
         /\ UNCHANGED <<conn, failed>>
    ELSE Keep(bytes, under)

\* How much write() takes of k bytes: nothing if it fails or would block,
\* else at least one byte, and room is left only if it takes all.
Written(k) == IF gone \/ fin \/ ~room THEN {0} ELSE 1..k

\* Mutant: what is left in the output buffer is not looked at.
SendDirectly(m, under, queue) ==
  \E n \in IF state = "kDisconnected" THEN {Size[m]} ELSE Written(Size[m]) :
    /\ sent' = IF state = "kDisconnected" THEN sent
               ELSE sent \o SubSeq(Payload(m), 1, n)
    /\ room' = (room /\ n \in {0, Size[m]})
    /\ pending' = queue
    /\ KeepRest(SubSeq(Payload(m), n + 1, Size[m]), under)
    /\ UNCHANGED fin

\* Mutant: the test for kDisconnected is missing.
SendWhenClosed(m, under, queue) ==
  IF Writing \/ readableBytes(output) # 0
    THEN /\ KeepRest(Payload(m), under)
         /\ pending' = queue
         /\ UNCHANGED kernel
    ELSE \E n \in Written(Size[m]) :
           /\ sent' = sent \o SubSeq(Payload(m), 1, n)
           /\ room' = (room /\ n \in {0, Size[m]})
           /\ pending' = queue
           /\ KeepRest(SubSeq(Payload(m), n + 1, Size[m]), under)
           /\ UNCHANGED fin

\* The send functor is gone from queue when it runs; a call leaves queue as
\* it is.
sendInLoop(m, under, queue) ==
  IF state = "kDisconnected"
    THEN /\ stack' = under
         /\ pending' = queue
         /\ UNCHANGED <<conn, kernel, failed>>
  ELSE IF Writing \/ readableBytes(output) # 0
    THEN /\ KeepRest(Payload(m), under)
         /\ pending' = queue
         /\ UNCHANGED kernel
    ELSE \E n \in Written(Size[m]) :
           /\ sent' = sent \o SubSeq(Payload(m), 1, n)
           /\ room' = (room /\ n \in {0, Size[m]})
           /\ pending' = IF n = Size[m]
                           THEN Append(queue, Functor("writeComplete"))
                           ELSE queue
           /\ KeepRest(SubSeq(Payload(m), n + 1, Size[m]), under)
           /\ UNCHANGED fin

\* Mutant: isWriting is not tested.
ShutdownAtOnce == fin' = TRUE

shutdownInLoop == fin' = (fin \/ ~Writing)

-----------------------------------------------------------------------------
(* User code in the IO thread: calls and return *)

InUserCode == Running /\ stack # <<>> /\ Head(stack).frame = "user"
UserMay(call) == InUserCode /\ call \in Calls[Head(stack).place]

UserSend(m) ==
  /\ UserMay("send")
  /\ m \in unsent
  /\ state = "kConnected"
  /\ sendInLoop(m, stack, pending)
  /\ unsent' = unsent \ {m}
  /\ by' = [by EXCEPT ![m] = "io"]
  /\ UNCHANGED <<polled, quota, roundRef, threads, owner, peer, owed, late, ups,
                 downs, calls>>

UserShutdown ==
  /\ UserMay("shutdown")
  /\ calls < MaxCalls
  /\ state = "kConnected"
  /\ state' = "kDisconnecting"
  /\ shutdownInLoop
  /\ owed' = {m \in Msgs : by[m] = "io"}
  /\ calls' = calls + 1
  /\ UNCHANGED <<events, added, output, stack, loop, threads, owner, peer,
                 room, sent, unsent, by, late, ups, downs, failed>>

\* In the IO thread the functor runs inside the call.
UserForceClose ==
  /\ UserMay("forceClose")
  /\ calls < MaxCalls
  /\ state \in {"kConnected", "kDisconnecting"}
  /\ handleClose(stack)
  /\ calls' = calls + 1
  /\ UNCHANGED <<loop, threads, owner, peer, kernel, unsent, by, owed, late, ups>>

UserReturn ==
  /\ InUserCode
  /\ stack' = Tail(stack)
  /\ UNCHANGED <<conn, loop, threads, owner, peer, kernel, history, failed>>

-----------------------------------------------------------------------------
(* Calls from other threads: the test of state_, later the functor *)

At(t, label) == Running /\ pc[t] = label
ThreadMay(t, call) == At(t, "holds") /\ call \in Calls["thread"]
ThreadGoto(t, label) == pc' = [pc EXCEPT ![t] = label]

ThreadSend(t, m) ==
  /\ ThreadMay(t, "send")
  /\ m \in unsent
  /\ state = "kConnected"
  /\ ThreadGoto(t, "send")
  /\ arg' = [arg EXCEPT ![t] = m]
  /\ unsent' = unsent \ {m}
  /\ UNCHANGED <<conn, stack, loop, owner, peer, kernel, by, owed, late, ups, downs,
                 calls, failed>>

\* Mutant: shutdown with a test and a store instead of compare_exchange.
ShutdownUnchecked(t) ==
  /\ ThreadMay(t, "shutdown")
  /\ state # "kConnecting"
  /\ state' = "kDisconnecting"
  /\ ThreadGoto(t, "shutdown")
  /\ owed' = {m \in Msgs : by[m] = t}
  /\ UNCHANGED <<events, added, output, stack, loop, arg, owner, peer, kernel,
                 unsent, by, late, ups, downs, calls, failed>>

\* compare_exchange_strong(kConnected, kDisconnecting)
ThreadShutdown(t) ==
  /\ ThreadMay(t, "shutdown")
  /\ state = "kConnected"
  /\ state' = "kDisconnecting"
  /\ ThreadGoto(t, "shutdown")
  /\ owed' = {m \in Msgs : by[m] = t}
  /\ UNCHANGED <<events, added, output, stack, loop, arg, owner, peer, kernel,
                 unsent, by, late, ups, downs, calls, failed>>

ThreadForceClose(t) ==
  /\ ThreadMay(t, "forceClose")
  /\ state \in {"kConnected", "kDisconnecting"}
  /\ ThreadGoto(t, "checked")
  /\ UNCHANGED <<conn, stack, loop, arg, owner, peer, kernel, history, failed>>

\* forceClose's setState, some time after its test.
SetDisconnecting(t) ==
  /\ At(t, "checked")
  /\ state' = "kDisconnecting"
  /\ ThreadGoto(t, "forceClose")
  /\ UNCHANGED <<events, added, output, stack, loop, arg, owner, peer, kernel,
                 history, failed>>

\* The runInLoop of the call: loop_ may be gone by now. Bound: a thread drops
\* its reference after forceClose.
QueueCall(t) ==
  /\ Running
  /\ pc[t] \in {"send", "shutdown", "forceClose"}
  /\ IF server = "ended"
       THEN failed' = "EventLoop freed" /\ UNCHANGED <<pending, by, pc>>
       ELSE /\ pending' = Append(pending, IF pc[t] = "send" THEN SendFunctor(arg[t])
                                                         ELSE Functor(pc[t]))
            /\ by' = IF pc[t] = "send" THEN [by EXCEPT ![arg[t]] = t] ELSE by
            /\ ThreadGoto(t, IF pc[t] = "forceClose" THEN "none" ELSE "holds")
            /\ UNCHANGED failed
  /\ UNCHANGED <<conn, stack, polled, quota, roundRef, arg, owner, peer,
                 kernel, unsent, owed, late, ups, downs, calls>>

\* The thread lets go of its TcpConnectionPtr.
Drop(t) ==
  /\ At(t, "holds")
  /\ ThreadGoto(t, "none")
  /\ UNCHANGED <<conn, stack, loop, arg, owner, peer, kernel, history, failed>>

-----------------------------------------------------------------------------
(* The loop: functors *)

\* Between two handlers or functors, with no handler left to run.
LoopIdle ==
  /\ Running
  /\ server # "ended"
  /\ stack = <<>>
  /\ dispatch = <<>>

RoundOver == LoopIdle /\ quota = 0 /\ ~roundRef

\* doPendingFunctors, which every iteration calls after its handlers.
StartRound ==
  /\ RoundOver
  /\ pending # <<>> \/ handlers > 0
  /\ quota' = Len(pending)
  /\ handlers' = 0
  /\ UNCHANGED <<conn, stack, dispatch, pending, roundRef, threads, owner,
                 peer, kernel, history, failed>>

\* The list of the round, and with it the functors' references, is destroyed
\* when the last functor has returned.
EndRound ==
  /\ LoopIdle
  /\ quota = 0 /\ roundRef
  /\ roundRef' = FALSE
  /\ UNCHANGED <<conn, stack, polled, pending, quota, threads, owner, peer,
                 kernel, history, failed>>

NextFunctor(op) ==
  /\ LoopIdle
  /\ quota > 0
  /\ Head(pending).op = op
  /\ quota' = quota - 1
  /\ roundRef' = (roundRef \/ Owning(Head(pending)))
  /\ UNCHANGED polled

\* Mutant: the channel does not tell the poller.
EstablishedUnregistered ==
  /\ NextFunctor("established")
  /\ pending' = Tail(pending)
  /\ state' = "kConnected"
  /\ events' = {"R"}
  /\ stack' = <<User("connection")>>
  /\ ups' = ups + 1
  /\ pc' = [t \in Threads |-> "holds"]
  /\ UNCHANGED <<added, output, failed, arg, owner, peer, kernel, unsent, by,
                 owed, late, downs, calls>>

\* From here on user code has the pointer and hands it to the other threads.
connectEstablished ==
  /\ NextFunctor("established")
  /\ pending' = Tail(pending)
  /\ IF state # "kConnecting"
       THEN Fail("connectEstablished") /\ UNCHANGED <<ups, pc>>
       ELSE /\ state' = "kConnected"
            /\ events' = {"R"}
            /\ added' = TRUE
            /\ stack' = <<User("connection")>>
            /\ ups' = ups + 1
            /\ pc' = [t \in Threads |-> "holds"]
            /\ UNCHANGED <<output, failed>>
  /\ UNCHANGED <<arg, owner, peer, kernel, unsent, by, owed, late, downs, calls>>

RunSend ==
  /\ NextFunctor("send")
  /\ sendInLoop(Head(pending).msg, <<>>, Tail(pending))
  /\ UNCHANGED <<threads, owner, peer, history>>

RunShutdown ==
  /\ NextFunctor("shutdown")
  /\ pending' = Tail(pending)
  /\ shutdownInLoop
  /\ UNCHANGED <<conn, stack, threads, owner, peer, room, sent, history, failed>>

\* Mutant: only kConnected is tested, which forceClose has just left.
RunForceCloseConnected ==
  /\ NextFunctor("forceClose")
  /\ pending' = Tail(pending)
  /\ IF state = "kConnected"
       THEN handleClose(<<>>)
       ELSE UNCHANGED <<conn, stack, downs, failed>>
  /\ UNCHANGED <<threads, owner, peer, kernel, unsent, by, owed, late, ups, calls>>

\* The functor of forceClose tests state_ again.
RunForceClose ==
  /\ NextFunctor("forceClose")
  /\ pending' = Tail(pending)
  /\ IF state \in {"kConnected", "kDisconnecting"}
       THEN handleClose(<<>>)
       ELSE UNCHANGED <<conn, stack, downs, failed>>
  /\ UNCHANGED <<threads, owner, peer, kernel, unsent, by, owed, late, ups, calls>>

RunWriteComplete ==
  /\ NextFunctor("writeComplete")
  /\ pending' = Tail(pending)
  /\ IF Alive THEN stack' = <<User("writeComplete")>> /\ UNCHANGED <<conn, failed>>
              ELSE Fail("connection freed")
  /\ UNCHANGED <<threads, owner, peer, kernel, history>>

\* Mutant: the connection callback is called whatever the state is.
DestroyCallsBack ==
  /\ state' = "kDisconnected"
  /\ events' = {}
  /\ stack' = <<User("connection"), Frame("remove")>>
  /\ downs' = downs + 1
  /\ UNCHANGED <<added, output, threads, removing, peer, kernel, unsent, by,
                 owed, late, ups, calls, failed>>

\* connectDestroyed, up to the connection callback if there is one.
connectDestroyed ==
  /\ IF state = "kConnected"
       THEN /\ state' = "kDisconnected"
            /\ events' = {}
            /\ stack' = <<User("connection"), Frame("remove")>>
            /\ downs' = downs + 1
       ELSE stack' = <<Frame("remove")>> /\ UNCHANGED <<state, events, downs>>
  /\ UNCHANGED <<added, output, threads, removing, peer, kernel, unsent, by,
                 owed, late, ups, calls, failed>>

RunDestroyed ==
  /\ NextFunctor("destroyed")
  /\ pending' = Tail(pending)
  /\ connectDestroyed
  /\ UNCHANGED <<inMap, server>>

-----------------------------------------------------------------------------
(* The loop: functions that go on after a callback *)

Resumes(kind) == Running /\ stack # <<>> /\ Head(stack).frame = kind

ResumeSend ==
  /\ Resumes("append")
  /\ Keep(Head(stack).bytes, Tail(stack))
  /\ UNCHANGED <<loop, threads, owner, peer, kernel, history>>

\* Mutant: the functor that extends the connection's life is missing.
EraseOnly ==
  /\ inMap' = FALSE
  /\ UNCHANGED <<pending, failed>>

\* removeConnectionInLoop: the assertion on what erase returns, then the
\* functor that keeps the connection alive until its last function.
removeConnectionInLoop ==
  IF server \in {"gone", "ended"}
    THEN failed' = "server freed" /\ UNCHANGED <<inMap, pending>>
  ELSE IF ~inMap
    THEN failed' = "removeConnectionInLoop" /\ UNCHANGED <<inMap, pending>>
    ELSE /\ inMap' = FALSE
         /\ pending' = Append(pending, Functor("destroyed"))
         /\ UNCHANGED failed

\* closeCallback_, that is TcpServer::removeConnection, at the end of
\* handleClose: a functor of the server's loop, which may not run any more.
ResumeClose ==
  /\ Resumes("close")
  /\ stack' = Tail(stack)
  /\ IF server \in {"other", "stopped"}
       THEN removing' = removing + 1 /\ UNCHANGED <<inMap, pending, failed>>
       ELSE removeConnectionInLoop /\ UNCHANGED removing
  /\ UNCHANGED <<conn, polled, quota, roundRef, threads, server, peer, kernel,
                 history>>

\* channel_->remove() at the end of connectDestroyed.
ResumeDestroy ==
  /\ Resumes("remove")
  /\ IF events # {} THEN Fail("Channel::remove")
     ELSE IF ~added THEN Fail("removeChannel")
     ELSE /\ added' = FALSE
          /\ stack' = Tail(stack)
          /\ UNCHANGED <<state, events, output, failed>>
  /\ UNCHANGED <<loop, threads, owner, peer, kernel, history>>

-----------------------------------------------------------------------------
(* The loop: events *)

ReadReady == rx \/ end # "open"
Ready == {e \in events : IF e = "R" THEN ReadReady ELSE room \/ gone \/ fin}

\* KqueuePoller reports one filter at a time. It sets revents_ to the filter
\* it reports last, and puts the channel into the list once for each.
Poll ==
  /\ RoundOver
  /\ handlers = 0
  /\ added
  /\ Ready # {}
  /\ \E e \in Ready : dispatch' = [i \in 1..Cardinality(Ready) |-> e]
  /\ handlers' = Len(dispatch')
  /\ UNCHANGED <<conn, stack, pending, quota, roundRef, threads, owner, peer,
                 kernel, history, failed>>

\* The handler of a channel that was polled together with this one and is
\* dispatched before it, whose user code uses this connection.
HandleOther ==
  /\ Running
  /\ stack = <<>>
  /\ dispatch # <<>>
  /\ Calls["other"] # {}
  /\ handlers < MaxHandlers
  /\ handlers' = handlers + 1
  /\ stack' = <<User("other")>>
  /\ UNCHANGED <<conn, dispatch, pending, quota, roundRef, threads, owner, peer,
                 kernel, history, failed>>

\* handleEvent calls the callback of the one event in revents_.
Dispatches(e) ==
  /\ Running
  /\ stack = <<>>
  /\ dispatch # <<>>
  /\ Head(dispatch) = e
  /\ dispatch' = Tail(dispatch)
  /\ UNCHANGED <<handlers, quota, roundRef>>

\* Mutant: the end of the stream is taken for an error.
ReadIgnoresEof ==
  /\ Dispatches("R")
  /\ rx' = FALSE
  /\ stack' = IF rx THEN <<User("message")>> ELSE stack
  /\ UNCHANGED <<conn, pending, threads, owner, end, gone, incoming, kernel,
                 history, failed>>

\* read() returns data, an error that is only logged, or the end.
handleRead ==
  /\ Dispatches("R")
  /\ IF rx
       THEN /\ rx' = FALSE
            /\ stack' = <<User("message")>>
            /\ UNCHANGED <<conn, end, downs, failed>>
     ELSE IF end = "eof"
       THEN handleClose(<<>>) /\ UNCHANGED <<rx, end>>
       ELSE /\ end' = IF end = "error" THEN "eof" ELSE end
            /\ UNCHANGED <<conn, stack, rx, downs, failed>>
  /\ UNCHANGED <<pending, threads, owner, gone, incoming, kernel, unsent, by,
                 owed, late, ups, calls>>

\* write() takes the first n of the bytes that can be read in the buffer.
TakeOut(n) ==
  /\ sent' = sent \o SubSeq(Readable(output), 1, n)
  /\ output' = IF n > 0 THEN retrieve(output, n) ELSE output
  /\ room' = (room /\ n \in {0, readableBytes(output)})

\* Mutant: writing stays enabled when the buffer is empty.
WriteKeepsInterest ==
  /\ Dispatches("W")
  /\ IF Writing THEN \E n \in Written(readableBytes(output)) : TakeOut(n)
                ELSE UNCHANGED <<sent, output, room>>
  /\ UNCHANGED <<state, events, added, stack, pending, threads, owner, peer,
                 fin, history, failed>>

\* Mutant: a shutdown that found the buffer full is forgotten.
WriteForgetsShutdown ==
  /\ Dispatches("W")
  /\ IF Writing
       THEN \E n \in Written(readableBytes(output)) :
              /\ TakeOut(n)
              /\ events' = IF n = readableBytes(output) THEN events \ {"W"} ELSE events
       ELSE UNCHANGED <<sent, output, room, events>>
  /\ UNCHANGED <<state, added, stack, pending, threads, owner, peer, fin,
                 history, failed>>

\* Messages that wait in a send functor.
Queued == {m \in Msgs : \E i \in 1..Len(pending) : pending[i] = SendFunctor(m)}

\* With the last byte gone, a half close that found the buffer full goes on
\* (shutdownInLoop, which finds the interest in writing gone).
handleWrite ==
  /\ Dispatches("W")
  /\ IF ~Writing
       THEN UNCHANGED <<conn, pending, kernel, late>>
       ELSE \E n \in Written(readableBytes(output)) :
              LET flushed == n > 0 /\ n = readableBytes(output)
                  ends    == flushed /\ state = "kDisconnecting"
              IN
              /\ TakeOut(n)
              /\ events' = IF flushed THEN events \ {"W"} ELSE events
              /\ pending' = IF flushed
                              THEN Append(pending, Functor("writeComplete"))
                              ELSE pending
              /\ fin' = (fin \/ ends)
              /\ late' = IF ends THEN Queued ELSE late
              /\ UNCHANGED <<state, added>>
  /\ UNCHANGED <<stack, threads, owner, peer, unsent, by, owed, ups, downs,
                 calls, failed>>

-----------------------------------------------------------------------------
(* The server's thread, the peer and the kernel *)

\* The thread of the server's loop waits in ~TcpServer while the server is
\* "stopped".
ServerRemove ==
  /\ Running
  /\ removing > 0
  /\ server # "stopped"
  /\ removing' = removing - 1
  /\ removeConnectionInLoop
  /\ UNCHANGED <<conn, stack, polled, quota, roundRef, threads, server, peer,
                 kernel, history>>

\* ~TcpServer, when its loop is not the connection's: the connection is given
\* up to a functor of its own loop; then the pool tells that loop to quit and
\* joins its thread.
ServerDestroy ==
  /\ Running
  /\ ServerDies
  /\ server = "other"
  /\ server' = "stopped"
  /\ inMap' = FALSE
  /\ pending' = IF inMap THEN Append(pending, Functor("destroyed")) ELSE pending
  /\ UNCHANGED <<conn, stack, polled, quota, roundRef, threads, removing, peer,
                 kernel, history, failed>>

\* The connection's loop tests quit_ before its next iteration and is
\* destroyed, with the functors that it has not run.
LoopEnds ==
  /\ RoundOver
  /\ handlers = 0
  /\ server = "stopped"
  /\ server' = "ended"
  /\ pending' = <<>>
  /\ UNCHANGED <<conn, stack, polled, quota, roundRef, threads, inMap, removing,
                 peer, kernel, history, failed>>

\* Mutant: the connections are just dropped from the map.
ForgetConnections ==
  /\ ServerDies
  /\ LoopIdle
  /\ server = "same"
  /\ state # "kConnecting"
  /\ server' = "gone"
  /\ inMap' = FALSE
  /\ UNCHANGED <<conn, stack, loop, threads, removing, peer, kernel, history,
                 failed>>

\* ~TcpServer in the connection's loop, between two handlers or functors:
\* runInLoop calls connectDestroyed at once.
ServerDestroyInLoop ==
  /\ ServerDies
  /\ LoopIdle
  /\ server = "same"
  /\ state # "kConnecting"
  /\ server' = "gone"
  /\ inMap' = FALSE
  /\ IF inMap THEN connectDestroyed
              ELSE UNCHANGED <<conn, stack, threads, removing, peer, kernel,
                               history, failed>>
  /\ UNCHANGED loop

PeerSends ==
  /\ Running
  /\ end = "open"
  /\ incoming < MaxIncoming
  /\ rx' = TRUE
  /\ incoming' = incoming + 1
  /\ UNCHANGED <<conn, stack, loop, threads, owner, end, gone, kernel, history, failed>>

PeerCloses ==
  /\ Running
  /\ end = "open"
  /\ end' = "eof"
  /\ UNCHANGED <<conn, stack, loop, threads, owner, rx, gone, incoming, kernel,
                 history, failed>>

\* The first call that meets the reset takes its error: a read, or a write.
PeerResets ==
  /\ Running
  /\ ~gone
  /\ gone' = TRUE
  /\ end' \in {"error", "eof"}
  /\ rx' = FALSE
  /\ UNCHANGED <<conn, stack, loop, threads, owner, incoming, kernel, history, failed>>

KernelDrains ==
  /\ Running
  /\ ~room
  /\ ~gone
  /\ room' = TRUE
  /\ UNCHANGED <<conn, stack, loop, threads, owner, peer, sent, fin, history, failed>>

-----------------------------------------------------------------------------
UserCalls == (\E m \in Msgs : UserSend(m)) \/ UserShutdown \/ UserForceClose

Thread(t) ==
  \/ \E m \in Msgs : ThreadSend(t, m)
  \/ ThreadShutdown(t) \/ ThreadForceClose(t) \/ Drop(t)

ThreadGoesOn(t) == SetDisconnecting(t) \/ QueueCall(t)

LoopStep ==
  \/ UserReturn
  \/ StartRound \/ EndRound
  \/ connectEstablished \/ RunSend \/ RunShutdown \/ RunForceClose
  \/ RunWriteComplete \/ RunDestroyed
  \/ ResumeSend \/ ResumeClose \/ ResumeDestroy
  \/ Poll \/ handleRead \/ handleWrite

Environment ==
  \/ ServerDestroy \/ ServerDestroyInLoop \/ LoopEnds
  \/ PeerSends \/ PeerCloses \/ PeerResets

Next ==
  \/ UserCalls \/ LoopStep \/ HandleOther
  \/ \E t \in Threads : Thread(t) \/ ThreadGoesOn(t)
  \/ ServerRemove \/ KernelDrains \/ Environment

\* The IO thread goes on: callbacks return, and loop() polls, dispatches and
\* runs functors in turn. A thread in the middle of a call finishes it; the
\* server's loop runs its functors; a peer that is there reads what it is
\* sent. Nothing is assumed of users, nor that the peer closes, the server
\* dies or a loop that was told to quit does so.
Fairness ==
  /\ WF_vars(LoopStep)
  /\ \A t \in Threads : WF_vars(ThreadGoesOn(t))
  /\ WF_vars(ServerRemove)
  /\ WF_vars(KernelDrains)

Spec == Init /\ [][Next]_vars
FairSpec == Spec /\ Fairness

-----------------------------------------------------------------------------
(* Properties *)

Ops == {"established", "send", "shutdown", "forceClose", "writeComplete",
        "destroyed"}

ByteSeqs == Seq(Bytes)
Frames ==
  [frame : {"user"}, place : Places] \cup [frame : {"append"}, bytes : ByteSeqs]
    \cup [frame : {"close", "remove"}]
Functors == [op : Ops \ {"send"}] \cup [op : {"send"}, msg : Msgs]

\* The type invariant: the variables hold what the code can put there. A
\* channel with events is in the poller (Channel::update), and a thread in the
\* middle of send has a message.
ConnTypes ==
  /\ state \in {"kConnecting", "kConnected", "kDisconnecting", "kDisconnected"}
  /\ events \subseteq {"R", "W"}
  /\ added \in BOOLEAN
  /\ events # {} => added
  /\ output \in Buf /\ InOrderIndices(output)
  /\ stack \in Seq(Frames)
LoopTypes ==
  /\ dispatch \in Seq({"R", "W"})
  /\ handlers \in Nat
  /\ pending \in Seq(Functors)
  /\ quota \in 0..Len(pending)
  /\ roundRef \in BOOLEAN
ThreadTypes ==
  /\ pc \in [Threads -> {"none", "holds", "send", "shutdown", "checked", "forceClose"}]
  /\ arg \in [Threads -> Msgs \cup {"none"}]
  /\ \A t \in Threads : pc[t] = "send" => arg[t] \in Msgs
OwnerTypes ==
  /\ inMap \in BOOLEAN
  /\ removing \in Nat
  /\ server \in {"same", "other", "gone", "stopped", "ended"}
PeerTypes ==
  /\ rx \in BOOLEAN
  /\ end \in {"open", "error", "eof"}
  /\ gone \in BOOLEAN
  /\ incoming \in Nat
KernelTypes == room \in BOOLEAN /\ sent \in ByteSeqs /\ fin \in BOOLEAN
HistoryTypes ==
  /\ unsent \subseteq Msgs
  /\ by \in [Msgs -> Threads \cup {"io", "nobody"}]
  /\ owed \subseteq Msgs
  /\ late \subseteq Msgs
  /\ ups \in Nat /\ downs \in Nat /\ calls \in Nat
TypeOK ==
  /\ ConnTypes /\ LoopTypes /\ ThreadTypes /\ OwnerTypes
  /\ PeerTypes /\ KernelTypes /\ HistoryTypes

Keeping == \E i \in 1..Len(stack) : stack[i].frame = "append"

\* While the connection is up, the interest in writing and the output buffer
\* agree: bytes that wait are waited for, and an empty buffer does not make
\* the loop spin (handleWrite disables writing, sendInLoop enables it).
WritingIffBuffered ==
  state \in {"kConnected", "kDisconnecting"} => (Writing <=> readableBytes(output) # 0)

\* The user hears once that the connection is up and at most once, later,
\* that it is down (connectEstablished, handleClose and connectDestroyed
\* all call connectionCallback_).
DownOnce == ups <= 1 /\ downs <= ups

\* No message and no high water callback starts before the connection is up
\* or after it went down, with one exception: when several handlers of one
\* iteration use the connection and an earlier one has closed it, the read
\* event that still waits may find data (kqueue_poller.cc:36, eventloop.cc:71).
CallbacksWhileUp ==
  [][/\ stack' # stack
     /\ Len(stack') > Len(stack)
     /\ Head(stack').frame = "user"
     /\ Head(stack').place \in {"message", "highWater"}
     => /\ ups = 1
        /\ downs = 0 \/ (Head(stack').place = "message" /\ handlers > 1)]_vars

\* Once the user has heard that the connection is down, its channel is not
\* interested in events again (disableAll in handleClose and
\* connectDestroyed), though functors of the connection still run.
QuietAfterDown == downs > 0 => events = {}

\* The last reference goes only when nothing can reach the connection any
\* more: it is closed, as its destructor asserts, its channel is out of the
\* poller, no event of it waits to be dispatched, and no functor holds its
\* bare address (queueInLoop in removeConnectionInLoop is there for this).
LifetimeSafe ==
  ~Alive =>
    /\ state = "kDisconnected"
    /\ ~added
    /\ dispatch = <<>>
    /\ pending = <<>>

\* No assertion on the way of a connection fails and nothing is used after it
\* was freed, but for handleClose's assertion, and that one only in an
\* iteration in which several handlers use the connection: an earlier one has
\* closed it, and the read event that still waits finds the end of the stream
\* (kqueue_poller.cc:36, eventloop.cc:71).
AssertionsHold ==
  failed = "none" \/ (failed = "handleClose" /\ handlers > 1)

\* When the stream is ended, the bytes that a thread sent before its shutdown
\* took effect have left. Two places end it: shutdownInLoop, which runs behind
\* the thread's send functors and waits for the output, and handleWrite, which
\* looks at the output and at state_ but not at send functors that still wait
\* (tcp_conncetion.cc:241-257): what those hold is late.
OwnSendsBeforeFin ==
  fin /\ state # "kDisconnected" =>
    \A m \in owed \ late : \A i \in 1..Size[m] :
      \E k \in 1..Len(sent) : sent[k] = <<m, i>>

\* handleClose is never called on a connection that is already closed: its
\* assertion holds.
ClosesOnlyOpen == failed # "handleClose"

\* Output waits that no write takes any more: the write filter is ready for
\* good, and KqueuePoller may report it last each time, which leaves the read
\* filter undispatched (kqueue_poller.cc:35).
WritesFail == Writing /\ (gone \/ fin)

\* A half close ends: once the connection is disconnecting, the stream is
\* ended or the connection closed, whatever waits in the output buffer,
\* unless writes have come to fail.
ShutdownEnds ==
  state = "kDisconnecting" ~> fin \/ state = "kDisconnected" \/ []WritesFail

\* When the peer has ended the stream, the connection is closed, unless writes
\* have come to fail.
EofCloses ==
  (end = "eof" /\ added) ~> state = "kDisconnected" \/ []WritesFail

\* A forceClose of another thread that found the connection open closes it,
\* unless the loop ends with ~TcpServer before it runs the functor
\* (eventloop.cc:68), or an assertion fails because of a close in between.
ForceCloseCloses ==
  \A t \in Threads :
    pc[t] = "checked" ~>
      state = "kDisconnected" \/ server = "ended" \/ failed # "none"

\* A connection whose server is destroyed in the connection's own loop is
\* closed and taken out of the poller, unless connectDestroyed met it half
\* closed, it was about to tell the server (tcp_server.cc:88 keeps the
\* server's bare address), or the late store of another thread's forceClose
\* has opened it again (tcp_conncetion.cc:121).
OrphanIsReleased ==
  server = "gone" ~>
    \/ state = "kDisconnected" /\ ~added
    \/ failed \in {"Channel::remove", "server freed", "updateChannel"}

\* A closed connection is taken out of the poller and released by everyone
\* but users, if no assertion (see AssertionsHold) aborts the program first.
ClosedIsReleased ==
  state = "kDisconnected" ~>
    \/ ~added /\ ~inMap /\ pending = <<>> /\ stack = <<>>
    \/ failed # "none"

-----------------------------------------------------------------------------
(* Refinement: a stream of bytes. Bytes that a send still holds while the  *)
(* high water callback runs have been accepted.                            *)

Phase ==
  CASE state = "kConnecting" -> "connecting"
    [] state \in {"kConnected", "kDisconnecting"} -> "up"
    [] state = "kDisconnected" -> "down"

\* Of a stack with one such frame. Two are there when users send in the high
\* water callback, which overtakes the first.
Kept ==
  IF Keeping THEN stack[CHOOSE i \in 1..Len(stack) : stack[i].frame = "append"].bytes
             ELSE <<>>
Accepted == IF state = "kDisconnected" THEN <<>> ELSE Readable(output) \o Kept

Payloads == {Payload(m) : m \in Msgs}

Stream == INSTANCE ByteStream WITH
  phase <- Phase,
  todo <- Accepted

\* An append for which makeSpace moves the output down (buffer.cc:21-29).
MovesDown ==
  /\ output'.read_idx < output.read_idx
  /\ readableBytes(output') > readableBytes(output)

\* What users send leaves in the order in which it was accepted, nothing is
\* lost or repeated while the connection is up, and the stream is ended only
\* when nothing accepted is left - but when an append moves the output down,
\* stale bytes come to stand in front of what it appends.
StreamUnlessMoved ==
  /\ Stream!Init
  /\ [][\/ Stream!Next
        \/ /\ MovesDown
           /\ \E bytes \in Payloads \cup {<<>>} : Stream!AcceptAmongStale(bytes)
       ]_(Stream!vars)

=============================================================================
