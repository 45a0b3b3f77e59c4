---------------------------- MODULE FunctorQueue ----------------------------
(***************************************************************************)
(* What runInLoop/queueInLoop promise a caller, without threads, wakeups   *)
(* or IO: every functor given to the loop runs at most once, functors that *)
(* were queued run in the order in which they were queued, and they run in *)
(* rounds - a functor queued while a round is under way is not part of     *)
(* that round, however long the round lasts, so IO events get their turn   *)
(* (the reason EventLoop::doPendingFunctors swaps the list out).           *)
(***************************************************************************)
EXTENDS Naturals, Sequences

CONSTANT Functors

VARIABLES
  fresh,   \* functors nobody has handed to the loop yet
  queue,   \* functors queued and not yet run, oldest first
  quota,   \* how many of them, from the front, the current round still runs
  ran      \* functors that have run, in the order in which they ran

vars == <<fresh, queue, quota, ran>>

Init ==
  /\ fresh = Functors
  /\ queue = <<>>
  /\ quota = 0
  /\ ran = <<>>

\* A functor is queued behind every other; the current round does not grow.
Enqueue(f) ==
  /\ f \in fresh
  /\ fresh' = fresh \ {f}
  /\ queue' = Append(queue, f)
  /\ UNCHANGED <<quota, ran>>

\* runInLoop called in the loop thread runs its functor on the spot.
RunNow(f) ==
  /\ f \in fresh
  /\ fresh' = fresh \ {f}
  /\ ran' = Append(ran, f)
  /\ UNCHANGED <<queue, quota>>

\* A round takes what is queued at this moment.
StartRound ==
  /\ quota = 0
  /\ quota' = Len(queue)
  /\ UNCHANGED <<fresh, queue, ran>>

RunNext ==
  /\ quota > 0
  /\ quota' = quota - 1
  /\ queue' = Tail(queue)
  /\ ran' = Append(ran, Head(queue))
  /\ UNCHANGED fresh

Next ==
  \/ \E f \in Functors : Enqueue(f) \/ RunNow(f)
  \/ StartRound
  \/ RunNext

Spec == Init /\ [][Next]_vars

=============================================================================
