------------------------ MODULE EventLoopThreadPool ------------------------
(***************************************************************************)
(* The loops of a server and their threads: the base loop of the thread    *)
(* that owns the pool, and one EventLoopThread (eventloop_thread.cc) for   *)
(* each IO loop, from the promise that publishes the loop to the join in   *)
(* the destructor (eventloop_thread_pool.cc owns them).                    *)
(*                                                                         *)
(* A loop is what EventLoop is proved to be: a queue of functors run in    *)
(* rounds, and a poll that does not sleep while something is queued or     *)
(* quit() has just been called. The place of a loop's thread in pc:        *)
(*   none, created, published   before loop(); the base thread is idle     *)
(*   check, poll, dispatch, run in loop()                                  *)
(*   ended                      the thread is over, its EventLoop gone     *)
(***************************************************************************)
EXTENDS Integers, Sequences

CONSTANT NumThreads    \* num_threads_

ASSUME PoolAssumption == NumThreads \in Nat

Base == 0
IoThreads == 1..NumThreads
Loops == 0..NumThreads

VARIABLES
  pc,            \* where each loop's thread is
  quit,          \* quit_ of each loop
  pending,       \* pending_functors_ of each loop
  tmp,           \* doPendingFunctors' local list, kept until the round ends
  ran,           \* how many functors of it have run
  pool_started,  \* started_ of the pool
  loops,         \* the length of loops_
  next,          \* next_
  call,          \* what of the server the base thread is executing
  awaited,       \* the IO thread whose promise or end it waits for
  failed         \* the assertion that has aborted the program, or "none"

loopVars == <<pc, quit, pending, tmp, ran>>
poolVars == <<pool_started, loops, next>>
callVars == <<call, awaited>>

Looping == {"check", "poll", "dispatch", "run"}

\* The thread of l is free to go on with its loop.
RunsIn(l) == failed = "none" /\ (l = Base => call = "none")
At(l, label) == RunsIn(l) /\ pc[l] = label
Goto(l, label) == pc' = [pc EXCEPT ![l] = label]

\* The base thread is at this place in start() or in a destructor.
Calling(place) == failed = "none" /\ call = place

PoolInit ==
  /\ pc = [l \in Loops |-> IF l = Base THEN "idle" ELSE "none"]
  /\ quit = [l \in Loops |-> FALSE]
  /\ pending = [l \in Loops |-> <<>>]
  /\ tmp = [l \in Loops |-> <<>>]
  /\ ran = [l \in Loops |-> 0]
  /\ pool_started = FALSE
  /\ loops = 0
  /\ next = 0
  /\ call = "none"
  /\ awaited = Base
  /\ failed = "none"

-----------------------------------------------------------------------------
(* The pool, in the base thread *)

\* One round of EventLoopThreadPool::start's for loop: startLoop up to the
\* wait for the promise.
SpawnThread ==
  /\ Calling("spawn")
  /\ loops < NumThreads
  /\ awaited' = loops + 1
  /\ Goto(loops + 1, "created")
  /\ call' = "future"
  /\ UNCHANGED <<quit, pending, tmp, ran, poolVars, failed>>

\* Mutant: startLoop does not wait for the promise.
GetEarly ==
  /\ Calling("future")
  /\ loops' = loops + 1
  /\ call' = "spawn"
  /\ UNCHANGED <<loopVars, pool_started, next, awaited, failed>>

\* future.get() returns the loop, which is added to loops_.
FutureGet ==
  /\ Calling("future")
  /\ pc[awaited] # "created"
  /\ loops' = loops + 1
  /\ call' = "spawn"
  /\ UNCHANGED <<loopVars, pool_started, next, awaited, failed>>

\* getNextLoop: the loop, and next_ afterwards.
NextLoop == IF loops = 0 THEN Base ELSE next + 1

\* Mutant: the index starts again one loop too early.
WrapEarly == next' = IF loops = 0 \/ next + 2 >= loops THEN 0 ELSE next + 1

\* Mutant: the index runs one past the last loop.
WrapLate ==
  next' = IF loops = 0 THEN next ELSE IF next + 1 > loops THEN 0 ELSE next + 1

AdvanceNext ==
  next' = IF loops = 0 THEN next ELSE IF next + 1 >= loops THEN 0 ELSE next + 1

\* The destructor of an EventLoopThread: quit() stores the flag ...
QuitThread(l) ==
  /\ Calling("threads")
  /\ pc[l] \notin {"none", "ended"}
  /\ quit' = [quit EXCEPT ![l] = TRUE]
  /\ call' = "wake"
  /\ awaited' = l
  /\ UNCHANGED <<pc, pending, tmp, ran, poolVars, failed>>

\* ... and then writes to the pipe, though the thread may have seen the flag,
\* ended and destroyed its loop in between: what the freed loop still holds
\* is used, or the program ends ...
WakeThread ==
  /\ Calling("wake")
  /\ call' = "join"
  /\ failed' \in IF pc[awaited] = "ended" THEN {"none", "EventLoop freed"}
                                          ELSE {"none"}
  /\ UNCHANGED <<loopVars, poolVars, awaited>>

\* ... and join() waits for the thread.
Join ==
  /\ Calling("join")
  /\ pc[awaited] = "ended"
  /\ call' = "threads"
  /\ UNCHANGED <<loopVars, poolVars, awaited, failed>>

-----------------------------------------------------------------------------
(* The threads *)

\* threadFun: the EventLoop is constructed and the promise set.
Publish(l) ==
  /\ At(l, "created")
  /\ Goto(l, "published")
  /\ UNCHANGED <<quit, pending, tmp, ran, poolVars, callVars, failed>>

\* loop() is entered and resets quit_.
EnterLoop(l) ==
  /\ At(l, IF l = Base THEN "idle" ELSE "published")
  /\ quit' = [quit EXCEPT ![l] = FALSE]
  /\ Goto(l, "check")
  /\ UNCHANGED <<pending, tmp, ran, poolVars, callVars, failed>>

\* while (!quit_). When the loop of an IO thread returns, its EventLoop is
\* destroyed with the functors that are still pending.
CheckQuit(l) ==
  /\ At(l, "check")
  /\ Goto(l, IF ~quit[l] THEN "poll" ELSE IF l = Base THEN "idle" ELSE "ended")
  /\ pending' = IF quit[l] /\ l # Base THEN [pending EXCEPT ![l] = <<>>]
                                       ELSE pending
  /\ UNCHANGED <<quit, tmp, ran, poolVars, callVars, failed>>

\* Mutant: quit() does not wake the loop.
WokenByFunctors(l) == pending[l] # <<>>

\* A wakeup has been written, or is never needed (EventLoop!NoLostWakeup).
Woken(l) ==
  \/ pending[l] # <<>>
  \/ quit[l] /\ ~(call = "wake" /\ awaited = l)

\* doPendingFunctors takes the list.
SwapPending(l) ==
  /\ tmp' = [tmp EXCEPT ![l] = pending[l]]
  /\ pending' = [pending EXCEPT ![l] = <<>>]
  /\ Goto(l, "run")

\* The list is destroyed when all of it has run.
EndRound(l) ==
  /\ At(l, "run")
  /\ ran[l] = Len(tmp[l])
  /\ tmp' = [tmp EXCEPT ![l] = <<>>]
  /\ ran' = [ran EXCEPT ![l] = 0]
  /\ Goto(l, "check")
  /\ UNCHANGED <<quit, pending, poolVars, callVars, failed>>

\* User code stops the base loop.
QuitBase ==
  /\ failed = "none"
  /\ pc[Base] \in Looping
  /\ quit' = [quit EXCEPT ![Base] = TRUE]
  /\ UNCHANGED <<pc, pending, tmp, ran, poolVars, callVars, failed>>

=============================================================================
