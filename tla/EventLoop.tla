----------------------------- MODULE EventLoop -----------------------------
(***************************************************************************)
(* One EventLoop object (muduo/net/eventloop.cc): the loop thread that     *)
(* polls, dispatches active channels and runs the pending functors, and    *)
(* the other threads that hand it functors (runInLoop, queueInLoop) or     *)
(* stop it (quit), waking it through the pipe.                             *)
(*                                                                         *)
(* A step of this module is what the code does between two points at which *)
(* threads can interleave: a critical section of functors_mutex_, a store  *)
(* to an atomic, a read or a write of the pipe, a kevent call.             *)
(*                                                                         *)
(* looping_ is TRUE exactly while the loop thread is inside loop(), that   *)
(* is pc[LoopThread] # "idle", and isInLoopThread() is self = LoopThread,  *)
(* so neither is a variable.                                               *)
(***************************************************************************)
EXTENDS Naturals, Sequences, FiniteSets

CONSTANTS
  Functors,    \* the functors user code hands to the loop, each at most once
  Threads,     \* threads other than the loop thread
  LoopThread,  \* the thread that constructed the loop (thread_id_)
  Channels,    \* channels registered with the loop, the wakeup channel apart
  Wakeup,      \* wakeup_channel_, the read end of the pipe
  PipeCapacity \* bytes the kernel buffers before write() on the pipe blocks

ASSUME LoopAssumption ==
  /\ LoopThread \notin Threads
  /\ Wakeup \notin Channels
  /\ PipeCapacity \in Nat \ {0}

VARIABLES
  pending_functors,          \* functors queued, guarded by functors_mutex_
  tmp,                       \* doPendingFunctors' local list: still to run
  calling_pending_functors,  \* calling_pending_functors_
  quit,                      \* quit_
  activeChannels,            \* channels kevent reported, not yet dispatched
  wakeup_pipe,               \* bytes written to the pipe and not yet read
  pc,                        \* where each thread is
  fresh,                     \* history: functors not handed over yet
  ran,                       \* history: functors run, in the order they ran
  early                      \* history: functors the loop thread queued while
                             \* it was not inside loop()

vars == <<pending_functors, tmp, calling_pending_functors, quit,
          activeChannels, wakeup_pipe, pc, fresh, ran, early>>

AllThreads == Threads \cup {LoopThread}
Looping == pc[LoopThread] # "idle"

\* User code is in control, so it may call runInLoop, queueInLoop or quit:
\* another thread between two calls, the loop thread outside loop(), in a
\* channel's handler or in a pending functor.
CanCall(self) ==
  IF self = LoopThread THEN pc[self] \in {"idle", "handler", "functor"}
                       ELSE pc[self] = "ready"

Goto(self, label) == pc' = [pc EXCEPT ![self] = label]

Init ==
  /\ pending_functors = <<>>
  /\ tmp = <<>>
  /\ calling_pending_functors = FALSE
  /\ quit = FALSE
  /\ activeChannels = {}
  /\ wakeup_pipe = 0
  /\ pc = [t \in AllThreads |-> IF t = LoopThread THEN "idle" ELSE "ready"]
  /\ fresh = Functors
  /\ ran = <<>>
  /\ early = {}

-----------------------------------------------------------------------------
(* Calls any thread may make *)

\* The critical section of queueInLoop, then the test for the wakeup; the
\* write itself is the step WakeupWrite, which may block.
QueueThenWake(self, f, wake) ==
  /\ CanCall(self)
  /\ f \in fresh
  /\ fresh' = fresh \ {f}
  /\ pending_functors' = Append(pending_functors, f)
  /\ IF wake THEN Goto(self, "wake") ELSE UNCHANGED pc
  /\ early' = IF self = LoopThread /\ ~Looping THEN early \cup {f} ELSE early
  /\ UNCHANGED <<tmp, calling_pending_functors, quit, activeChannels,
                 wakeup_pipe, ran>>

\* Mutants: queueInLoop forgets one of the two reasons for a wakeup.
QueueNoWakeWhileRunning(self, f) == QueueThenWake(self, f, self # LoopThread)
QueueNoWakeFromOutside(self, f) ==
  QueueThenWake(self, f, calling_pending_functors)

queueInLoop(self, f) ==
  QueueThenWake(self, f, self # LoopThread \/ calling_pending_functors)

\* The functor runs inside the call.
RunInline(f) ==
  /\ f \in fresh
  /\ fresh' = fresh \ {f}
  /\ ran' = Append(ran, f)
  /\ UNCHANGED <<pending_functors, tmp, calling_pending_functors, quit,
                 activeChannels, wakeup_pipe, pc, early>>

runInLoop(self, f) ==
  /\ CanCall(self)
  /\ IF self = LoopThread THEN RunInline(f) ELSE queueInLoop(self, f)

\* Mutant: quit() does not wake the loop.
QuitSilently(self) ==
  /\ CanCall(self)
  /\ quit' = TRUE
  /\ IF self = LoopThread THEN UNCHANGED pc ELSE Goto(self, "done")
  /\ UNCHANGED <<pending_functors, tmp, calling_pending_functors,
                 activeChannels, wakeup_pipe, fresh, ran, early>>

\* quit(): the store, then a wakeup unless the loop thread itself calls.
\* Bound: another thread calls quit at most once and makes no call after it
\* (EventLoopThread's destructor goes on to join the loop thread).
Quit(self) ==
  /\ CanCall(self)
  /\ quit' = TRUE
  /\ IF self = LoopThread THEN UNCHANGED pc ELSE Goto(self, "wakeQuit")
  /\ UNCHANGED <<pending_functors, tmp, calling_pending_functors,
                 activeChannels, wakeup_pipe, fresh, ran, early>>

\* wakeup(): writes one byte; the pipe is a blocking one, so the thread
\* waits while it is full.
WakeupWrite(self) ==
  /\ pc[self] \in {"wake", "wakeQuit"}
  /\ wakeup_pipe < PipeCapacity
  /\ wakeup_pipe' = wakeup_pipe + 1
  /\ Goto(self, IF self = LoopThread THEN "functor"
                ELSE IF pc[self] = "wake" THEN "ready" ELSE "done")
  /\ UNCHANGED <<pending_functors, tmp, calling_pending_functors, quit,
                 activeChannels, fresh, ran, early>>

-----------------------------------------------------------------------------
(* The loop thread *)

\* Entry of loop(): assert(!looping_), then quit_ is reset.
LoopStart ==
  /\ pc[LoopThread] = "idle"
  /\ quit' = FALSE
  /\ Goto(LoopThread, "check")
  /\ UNCHANGED <<pending_functors, tmp, calling_pending_functors,
                 activeChannels, wakeup_pipe, fresh, ran, early>>

\* while (!quit_), and the clearing of activeChannels_ that follows it.
CheckQuit ==
  /\ pc[LoopThread] = "check"
  /\ activeChannels' = IF quit THEN activeChannels ELSE {}
  /\ Goto(LoopThread, IF quit THEN "idle" ELSE "poll")
  /\ UNCHANGED <<pending_functors, tmp, calling_pending_functors, quit,
                 wakeup_pipe, fresh, ran, early>>

\* kevent returns events: any non-empty set of ready channels (it reports at
\* most as many as the event array holds). The wakeup channel is ready while
\* the pipe holds a byte; the other channels are ready as their peers please.
PollEvents(active) ==
  /\ pc[LoopThread] = "poll"
  /\ active # {}
  /\ Wakeup \in active => wakeup_pipe > 0
  /\ activeChannels' = active
  /\ Goto(LoopThread, "dispatch")
  /\ UNCHANGED <<pending_functors, tmp, calling_pending_functors, quit,
                 wakeup_pipe, fresh, ran, early>>

\* kevent returns no event: kPollTimeMs (20 s) have passed, or an error such
\* as an interrupted call, which poll() only logs.
PollNothing ==
  /\ pc[LoopThread] = "poll"
  /\ Goto(LoopThread, "dispatch")
  /\ UNCHANGED <<pending_functors, tmp, calling_pending_functors, quit,
                 activeChannels, wakeup_pipe, fresh, ran, early>>

\* handleEvent of wakeup_channel_ takes bytes from the pipe; the read would
\* block on an empty one.
DispatchWakeup(bytes, remaining) ==
  /\ pc[LoopThread] = "dispatch"
  /\ Wakeup \in activeChannels
  /\ wakeup_pipe > 0
  /\ wakeup_pipe' = wakeup_pipe - bytes
  /\ activeChannels' = remaining
  /\ UNCHANGED <<pending_functors, tmp, calling_pending_functors, quit, pc,
                 fresh, ran, early>>

\* Mutants: two bytes are taken to be there; the channel is dispatched again.
HandleReadTwo == DispatchWakeup(2, activeChannels \ {Wakeup})
HandleReadAgain == DispatchWakeup(1, activeChannels)

\* handleRead takes one byte, whatever the number of wakeups written.
HandleRead == DispatchWakeup(1, activeChannels \ {Wakeup})

\* handleEvent of any other channel enters user code ...
HandleEvent(c) ==
  /\ pc[LoopThread] = "dispatch"
  /\ c \in activeChannels \ {Wakeup}
  /\ activeChannels' = activeChannels \ {c}
  /\ Goto(LoopThread, "handler")
  /\ UNCHANGED <<pending_functors, tmp, calling_pending_functors, quit,
                 wakeup_pipe, fresh, ran, early>>

\* ... which returns after the calls it made.
HandlerReturn ==
  /\ pc[LoopThread] = "handler"
  /\ Goto(LoopThread, "dispatch")
  /\ UNCHANGED <<pending_functors, tmp, calling_pending_functors, quit,
                 activeChannels, wakeup_pipe, fresh, ran, early>>

\* doPendingFunctors, up to the lock.
BeginPending ==
  /\ pc[LoopThread] = "dispatch"
  /\ activeChannels = {}
  /\ calling_pending_functors' = TRUE
  /\ Goto(LoopThread, "swap")
  /\ UNCHANGED <<pending_functors, tmp, quit, activeChannels, wakeup_pipe,
                 fresh, ran, early>>

\* Mutant: the list is copied out and stays pending.
CopyPending ==
  /\ pc[LoopThread] = "swap"
  /\ tmp' = pending_functors
  /\ Goto(LoopThread, "run")
  /\ UNCHANGED <<pending_functors, calling_pending_functors, quit,
                 activeChannels, wakeup_pipe, fresh, ran, early>>

\* The critical section: tmp.swap(pending_functors_), tmp being empty.
SwapPending ==
  /\ pc[LoopThread] = "swap"
  /\ tmp' = pending_functors
  /\ pending_functors' = tmp
  /\ Goto(LoopThread, "run")
  /\ UNCHANGED <<calling_pending_functors, quit, activeChannels, wakeup_pipe,
                 fresh, ran, early>>

\* The next functor of tmp enters user code ...
RunFunctor ==
  /\ pc[LoopThread] = "run"
  /\ tmp # <<>>
  /\ tmp' = Tail(tmp)
  /\ ran' = Append(ran, Head(tmp))
  /\ Goto(LoopThread, "functor")
  /\ UNCHANGED <<pending_functors, calling_pending_functors, quit,
                 activeChannels, wakeup_pipe, fresh, early>>

\* ... which returns after the calls it made.
FunctorReturn ==
  /\ pc[LoopThread] = "functor"
  /\ Goto(LoopThread, "run")
  /\ UNCHANGED <<pending_functors, tmp, calling_pending_functors, quit,
                 activeChannels, wakeup_pipe, fresh, ran, early>>

EndPending ==
  /\ pc[LoopThread] = "run"
  /\ tmp = <<>>
  /\ calling_pending_functors' = FALSE
  /\ Goto(LoopThread, "check")
  /\ UNCHANGED <<pending_functors, tmp, quit, activeChannels, wakeup_pipe,
                 fresh, ran, early>>

-----------------------------------------------------------------------------
Call(self) ==
  \/ \E f \in Functors : queueInLoop(self, f) \/ runInLoop(self, f)
  \/ Quit(self)
  \/ WakeupWrite(self)

\* What the loop thread does between two polls.
LoopBody ==
  \/ CheckQuit \/ HandleRead \/ HandlerReturn
  \/ \E c \in Channels : HandleEvent(c)
  \/ BeginPending \/ SwapPending \/ RunFunctor \/ FunctorReturn \/ EndPending

Poll == \E active \in SUBSET (Channels \cup {Wakeup}) : PollEvents(active)

Next ==
  \/ \E self \in AllThreads : Call(self)
  \/ LoopStart \/ LoopBody \/ Poll \/ PollNothing

\* The operating system schedules every thread: a thread that is about to
\* write to the pipe does so once there is room, the loop thread goes on
\* between polls (user code returns), and kevent returns once the pipe holds
\* a byte. Nothing is assumed of the timeout, of IO events, of the callers or
\* of the start of the loop.
Fairness ==
  /\ \A self \in AllThreads : WF_vars(WakeupWrite(self))
  /\ WF_vars(LoopBody)
  /\ WF_vars(wakeup_pipe > 0 /\ Poll)

Spec == Init /\ [][Next]_vars
FairSpec == Spec /\ Fairness

-----------------------------------------------------------------------------
(* Properties *)

LoopLabels == {"idle", "check", "poll", "dispatch", "handler", "swap", "run",
               "functor", "wake"}
ThreadLabels == {"ready", "wake", "wakeQuit", "done"}

\* The state has the types of EventLoop's members (eventloop.h:29-41).
TypeOK ==
  /\ pending_functors \in Seq(Functors)
  /\ tmp \in Seq(Functors)
  /\ calling_pending_functors \in BOOLEAN
  /\ quit \in BOOLEAN
  /\ activeChannels \subseteq Channels \cup {Wakeup}
  /\ wakeup_pipe \in 0..PipeCapacity
  /\ pc \in [AllThreads -> LoopLabels \cup ThreadLabels]
  /\ pc[LoopThread] \in LoopLabels
  /\ fresh \subseteq Functors
  /\ ran \in Seq(Functors)
  /\ early \subseteq Functors

\* Some thread is about to write to the pipe.
WakeupOnItsWay ==
  \E t \in Threads : pc[t] \in {"wake", "wakeQuit"}

\* A functor that is pending, and was not queued before the loop started.
PendingOwed ==
  \E i \in 1..Len(pending_functors) : pending_functors[i] \notin early

\* No lost wakeup: the loop thread never sits in poll with a functor pending
\* unless the pipe holds a byte or a thread is about to write one. The test
\* in queueInLoop (eventloop.cc:145) skips the write exactly where the loop
\* thread is certain to swap the list before it polls again.
NoLostWakeup ==
  pc[LoopThread] = "poll" /\ PendingOwed =>
    wakeup_pipe > 0 \/ WakeupOnItsWay

\* handleRead (eventloop.cc:106) reads a blocking pipe from the loop thread:
\* when the wakeup channel is dispatched there is a byte to read, so the loop
\* does not hang in read().
WakeupReadNeverBlocks == Wakeup \in activeChannels => wakeup_pipe > 0

\* Every functor queued while the loop runs is executed without the help of
\* the 20 s timeout or of an IO event, unless the loop is stopped first.
QueuedFunctorRuns ==
  \A f \in Functors :
    (Looping /\ \E i \in 1..Len(pending_functors) : pending_functors[i] = f)
      ~> (~Looping \/ f \in early \/ \E i \in 1..Len(ran) : ran[i] = f)

\* quit() ends a running loop (eventloop.cc:82), whichever thread calls it
\* and wherever the loop thread is, asleep in poll included.
QuitStopsLoop == (quit /\ Looping) ~> ~Looping

\* The loop implements FunctorQueue: its queue is what is left of the round
\* followed by what is pending, and its round is tmp.
Queue == INSTANCE FunctorQueue
           WITH queue <- tmp \o pending_functors, quota <- Len(tmp)

ImplementsFunctorQueue == Queue!Spec

-----------------------------------------------------------------------------
(* The inductive invariant behind NoLostWakeup and the refinement *)

\* calling_pending_functors_ is set exactly while doPendingFunctors runs, and
\* its list is empty outside the loop over it.
PendingRoundInv ==
  /\ calling_pending_functors
       <=> pc[LoopThread] \in {"swap", "run", "functor", "wake"}
  /\ pc[LoopThread] \notin {"run", "functor", "wake"} => tmp = <<>>

\* activeChannels_ is empty outside the dispatch loop.
DispatchInv ==
  /\ pc[LoopThread] \notin {"dispatch", "handler"} => activeChannels = {}
  /\ WakeupReadNeverBlocks

\* Wherever the loop thread can still reach poll without a swap, a pending
\* functor has its wakeup written or on its way.
WakeupInv ==
  pc[LoopThread] \in {"idle", "check", "poll", "run", "functor"} /\ PendingOwed
    => wakeup_pipe > 0 \/ WakeupOnItsWay

LoopInv == TypeOK /\ PendingRoundInv /\ DispatchInv /\ WakeupInv

=============================================================================
