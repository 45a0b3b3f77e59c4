-------------------------- MODULE TcpServerProofs --------------------------
(***************************************************************************)
(* The safety properties of TcpServer hold for every number of IO loops    *)
(* and of connections: ServerInv is inductive and implies them.            *)
(***************************************************************************)
EXTENDS TcpServer, SequenceTheorems, TLAPS

-----------------------------------------------------------------------------
(* The functors of one loop *)

\* A functor queued behind the others.
LEMMA QueueLast ==
  ASSUME NEW p \in Seq(Functors), NEW t \in Seq(Functors), NEW r \in Nat,
         NEW f \in Functors
  PROVE  /\ Append(p, f) \in Seq(Functors)
         /\ Append(p, f) # <<>>
         /\ \A op \in Ops, c \in Conns :
              LeftIn(Append(p, f), t, r, op, c) <=> LeftIn(p, t, r, op, c) \/ Is(f, op, c)
         /\ /\ InOrderIn(p, t, r)
            /\ \A op \in Ops : LeftIn(p, t, r, op, f.conn) =>
                 op # f.op /\ ~(op = "destroyed" /\ f.op = "established")
            => InOrderIn(Append(p, f), t, r)
<1> DEFINE q == Append(p, f)
<1>1. /\ q \in Seq(Functors) /\ q # <<>>
      /\ Len(p) \in Nat /\ Len(t) \in Nat /\ Len(q) = Len(p) + 1
      /\ \A i \in 1..Len(p) : q[i] = p[i]
      /\ q[Len(p) + 1] = f
  BY AppendProperties, LenProperties
<1> HIDE DEF q
<1>2. ASSUME NEW op \in Ops, NEW c \in Conns
      PROVE  LeftIn(q, t, r, op, c) <=> LeftIn(p, t, r, op, c) \/ Is(f, op, c)
  BY <1>1 DEF LeftIn
<1>3. ASSUME InOrderIn(p, t, r),
             \A op \in Ops : LeftIn(p, t, r, op, f.conn) =>
               op # f.op /\ ~(op = "destroyed" /\ f.op = "established")
      PROVE  InOrderIn(q, t, r)
  <2>1. ASSUME NEW g \in Functors, Clash(g, f)
        PROVE  g.op \in Ops /\ g.conn = f.conn /\ Is(g, g.op, f.conn)
               /\ (g.op = f.op \/ (g.op = "destroyed" /\ f.op = "established"))
    BY <2>1 DEF Clash, Is, Functors
  <2>2. ASSUME NEW i \in 1..Len(p)
        PROVE  ~Clash(p[i], f)
    <3>1. p[i] \in Functors
      BY ElementOfSeq
    <3>2. QED  BY <1>3, <2>1, <3>1 DEF LeftIn
  <2>3. ASSUME NEW i \in r + 1..Len(t)
        PROVE  ~Clash(t[i], f)
    <3>1. t[i] \in Functors
      BY ElementOfSeq, <1>1
    <3>2. QED  BY <1>3, <2>1, <3>1 DEF LeftIn
  <2>4. ASSUME NEW i \in 1..Len(q), NEW j \in 1..Len(q), i < j
        PROVE  ~Clash(q[i], q[j])
    <3>1. i \in 1..Len(p) /\ q[i] = p[i]
      BY <1>1, <2>4
    <3>2. CASE j = Len(p) + 1
      BY <1>1, <2>2, <3>1, <3>2
    <3>3. CASE j \in 1..Len(p)
      BY <1>1, <1>3, <2>4, <3>1, <3>3 DEF InOrderIn
    <3>4. QED  BY <1>1, <3>2, <3>3
  <2>5. \A i \in r + 1..Len(t), j \in 1..Len(q) : ~Clash(t[i], q[j])
    BY <1>1, <1>3, <2>3 DEF InOrderIn
  <2>6. QED  BY <1>3, <2>4, <2>5 DEF InOrderIn
<1>4. QED  BY <1>1, <1>2, <1>3 DEF q

\* The first functor of a round that has not run yet, and is run.
LEMMA RunFirst ==
  ASSUME NEW p \in Seq(Functors), NEW t \in Seq(Functors), NEW r \in Nat,
         r < Len(t), InOrderIn(p, t, r)
  PROVE  /\ t[r + 1] \in Functors
         /\ LeftIn(p, t, r, t[r + 1].op, t[r + 1].conn)
         /\ InOrderIn(p, t, r + 1)
         /\ t[r + 1].op = "destroyed" => ~LeftIn(p, t, r, "established", t[r + 1].conn)
         /\ \A op \in Ops, c \in Conns :
              LeftIn(p, t, r + 1, op, c) <=> LeftIn(p, t, r, op, c) /\ ~Is(t[r + 1], op, c)
<1> DEFINE f == t[r + 1]
<1>1. Len(p) \in Nat /\ Len(t) \in Nat /\ r + 1 \in r + 1..Len(t)
  BY LenProperties
<1>2. f \in Functors
  BY <1>1, ElementOfSeq
<1>3. /\ \A i \in r + 1 + 1..Len(t) : ~Clash(f, t[i])
      /\ \A i \in 1..Len(p) : ~Clash(f, p[i])
  BY <1>1 DEF InOrderIn
<1>4. InOrderIn(p, t, r + 1)
  BY <1>1 DEF InOrderIn
<1>5. ASSUME NEW op \in Ops, NEW c \in Conns
      PROVE  LeftIn(p, t, r + 1, op, c) <=> LeftIn(p, t, r, op, c) /\ ~Is(f, op, c)
  <2>1. LeftIn(p, t, r, op, c) <=> LeftIn(p, t, r + 1, op, c) \/ Is(f, op, c)
    BY <1>1 DEF LeftIn
  <2>2. Is(f, op, c) => ~LeftIn(p, t, r + 1, op, c)
    BY <1>1, <1>3 DEF LeftIn, Is, Clash
  <2>3. QED  BY <2>1, <2>2
<1>6. LeftIn(p, t, r, f.op, f.conn)
  BY <1>1 DEF LeftIn, Is
<1>7. f.op = "destroyed" => ~LeftIn(p, t, r, "established", f.conn)
  BY <1>1, <1>3 DEF LeftIn, Is, Clash
<1>8. QED  BY <1>2, <1>4, <1>5, <1>6, <1>7

\* The queue becomes the round, and a round that has run is over.
LEMMA RoundsKeepLeft ==
  ASSUME NEW p \in Seq(Functors), NEW t \in Seq(Functors)
  PROVE  /\ \A op \in Ops, c \in Conns :
              /\ LeftIn(<<>>, p, 0, op, c) <=> LeftIn(p, <<>>, 0, op, c)
              /\ LeftIn(p, <<>>, 0, op, c) <=> LeftIn(p, t, Len(t), op, c)
              /\ ~LeftIn(<<>>, <<>>, 0, op, c)
         /\ InOrderIn(p, <<>>, 0) => InOrderIn(<<>>, p, 0)
         /\ InOrderIn(p, t, Len(t)) => InOrderIn(p, <<>>, 0)
         /\ InOrderIn(<<>>, <<>>, 0)
<1>1. Len(<<>>) = 0 /\ Len(p) \in Nat /\ Len(t) \in Nat
  BY EmptySeq, LenProperties
<1>2. QED  BY <1>1 DEF LeftIn, InOrderIn

-----------------------------------------------------------------------------
(* What a step does to the functors of all loops *)

\* The same functors are left to run.
SameLeft ==
  \A l \in Loops, op \in Ops, c \in Conns : Left(l, op, c)' <=> Left(l, op, c)
USE DEF SameLeft, Open, States

\* A step that touches no connection, runs nothing and ends no loop.
LEMMA QuietStep ==
  ASSUME ServerInv,
         UNCHANGED <<connVars, mapVars>>,
         SameLeft,
         Dying => Dying',
         \A l \in Loops : pc'[l] = "ended" <=> pc[l] = "ended"
  PROVE  QueueInv' /\ StateInv' /\ LifeInv' /\ FairRotation'
<1> USE DEF ServerInv, connVars, mapVars
<1>1. QueueInv'
  BY DEF QueueInv
<1>2. StateInv' /\ FairRotation'
  BY DEF StateInv, FairRotation
<1>3. LifeInv'
  <2>1. 1..accepted \subseteq Conns
    BY ServerAssumption DEF TypeOK, Conns
  <2>2. loop_of \in [Conns -> Loops] /\ Base \in Loops
    BY PoolAssumption DEF TypeOK, Loops, Base
  <2>3. {"established", "destroyed", "remove"} = Ops
    BY DEF Ops
  <2>4. QED
    BY <2>1, <2>2, <2>3 DEF LifeInv, LifeOf
<1>4. QED  BY <1>1, <1>2, <1>3

\* No functor is queued or run.
LEMMA SameQueues ==
  ASSUME ServerInv, UNCHANGED <<pending, tmp, ran>>
  PROVE  OrderInv' /\ SameLeft
BY DEF ServerInv, OrderInv, Left, Is

-----------------------------------------------------------------------------
(* The owner: start() and the destructor *)

\* startLoop keeps the invariant: the new thread is the one start() waits for.
LEMMA SpawnKeeps ==
  ASSUME ServerInv, SpawnThread, Keep
  PROVE  ServerInv'
<1> USE PoolAssumption, ServerAssumption
    DEF ServerInv, SpawnThread, Keep, Calling, Goto, At, RunsIn,
        loopVars, poolVars, callVars, serverVars, connVars, mapVars, netVars,
        Base, Loops, IoThreads
<1>1. TypeOK'
  <2>1. pc' \in [Loops -> Places]
    BY DEF TypeOK, Places
  <2>2. awaited' \in Loops /\ call' \in Calls
    BY DEF TypeOK, Calls
  <2>3. QED  BY <2>1, <2>2 DEF TypeOK
<1>2. OrderInv' /\ SameLeft
  BY SameQueues
<1>3. BaseInv'
  BY DEF BaseInv, TypeOK, Looping
<1>4. BornInv'
  BY DEF BornInv, TypeOK, StartInv
<1>5. EndInv'
  BY DEF EndInv, TypeOK, Stopping, StartInv, BornInv
<1>6. IdleInv'
  <2>1. \A l \in Loops : pc'[l] = pc[l] \/ (pc[l] = "none" /\ pc'[l] = "created")
    BY DEF TypeOK, BornInv
  <2>2. QED  BY <2>1 DEF IdleInv
<1>7. StartInv' /\ ActiveInv'
  BY DEF StartInv, ActiveInv, TypeOK, BaseInv, IdleInv, EndInv
<1>8. RotationInv' /\ LoopsExist' /\ AssertionsHold'
  BY DEF RotationInv, LoopsExist, AssertionsHold, TypeOK, StartInv, BornInv, EndInv
<1>9. QueueInv' /\ StateInv' /\ LifeInv' /\ FairRotation'
  <2>1. \A l \in Loops : pc'[l] = "ended" <=> pc[l] = "ended"
    BY DEF TypeOK, EndInv, BornInv, StartInv, Stopping
  <2>2. Dying => Dying'
    BY DEF Dying, EndInv, Looping
  <2>3. QED  BY <1>2, <2>1, <2>2, QuietStep
<1>10. QED  BY <1>1, <1>2, <1>3, <1>4, <1>5, <1>6, <1>7, <1>8, <1>9

\* The promise: the loop is added to loops_ before the first connection.
LEMMA FutureGetKeeps ==
  ASSUME ServerInv, FutureGet, Keep
  PROVE  ServerInv'
<1> USE PoolAssumption, ServerAssumption
    DEF ServerInv, FutureGet, Keep, Calling, Goto, At, RunsIn,
        loopVars, poolVars, callVars, serverVars, connVars, mapVars, netVars,
        Base, Loops, IoThreads
<1>1. TypeOK'
  <2>1. /\ loops' \in 0..NumThreads
        /\ next' \in Nat /\ IF loops' = 0 THEN next' = 0 ELSE next' < loops'
    BY DEF TypeOK, StartInv
  <2>2. call' \in Calls
    BY DEF Calls
  <2>3. QED  BY <2>1, <2>2 DEF TypeOK
<1>2. OrderInv' /\ SameLeft
  BY SameQueues
<1>3. BaseInv'
  BY DEF BaseInv, TypeOK, Looping
<1>4. BornInv'
  BY DEF BornInv, TypeOK, StartInv
<1>5. EndInv'
  BY DEF EndInv, TypeOK, Stopping, StartInv, BornInv
<1>6. IdleInv'
  BY DEF IdleInv, TypeOK
<1>7. StartInv' /\ ActiveInv'
  BY DEF StartInv, ActiveInv, TypeOK, BaseInv, IdleInv, EndInv
<1>8. RotationInv' /\ LoopsExist' /\ AssertionsHold'
  BY DEF RotationInv, LoopsExist, AssertionsHold, TypeOK, StartInv, BornInv, EndInv
<1>9. QueueInv' /\ StateInv' /\ LifeInv' /\ FairRotation'
  <2>1. \A l \in Loops : pc'[l] = "ended" <=> pc[l] = "ended"
    BY DEF TypeOK, EndInv, BornInv, StartInv, Stopping
  <2>2. Dying => Dying'
    BY DEF Dying, EndInv, Looping
  <2>3. QED  BY <1>2, <2>1, <2>2, QuietStep
<1>10. QED  BY <1>1, <1>2, <1>3, <1>4, <1>5, <1>6, <1>7, <1>8, <1>9

\* quit() writes to the pipe: the only step that may use a freed loop.
LEMMA WakeKeeps ==
  ASSUME ServerInv, WakeThread, Keep
  PROVE  ServerInv'
<1> USE PoolAssumption, ServerAssumption
    DEF ServerInv, WakeThread, Keep, Calling, Goto, At, RunsIn,
        loopVars, poolVars, callVars, serverVars, connVars, mapVars, netVars,
        Base, Loops, IoThreads
<1>1. TypeOK'
  BY DEF TypeOK, Places, Calls, Looping, Failures
<1>2. OrderInv' /\ SameLeft
  BY SameQueues
<1>3. BaseInv'
  BY DEF BaseInv, TypeOK, Looping
<1>4. BornInv'
  BY DEF BornInv, TypeOK, StartInv
<1>5. EndInv'
  BY DEF EndInv, TypeOK, Stopping, StartInv, BornInv
<1>6. IdleInv'
  BY DEF IdleInv, TypeOK
<1>7. StartInv' /\ ActiveInv'
  BY DEF StartInv, ActiveInv, TypeOK, BaseInv, IdleInv, EndInv
<1>8. RotationInv' /\ LoopsExist' /\ AssertionsHold'
  BY DEF RotationInv, LoopsExist, AssertionsHold, TypeOK, StartInv, BornInv, EndInv
<1>9. QueueInv' /\ StateInv' /\ LifeInv' /\ FairRotation'
  <2>1. \A l \in Loops : pc'[l] = "ended" <=> pc[l] = "ended"
    BY DEF TypeOK, EndInv, BornInv, StartInv, Stopping
  <2>2. Dying => Dying'
    BY DEF Dying, EndInv, Looping
  <2>3. QED  BY <1>2, <2>1, <2>2, QuietStep
<1>10. QED  BY <1>1, <1>2, <1>3, <1>4, <1>5, <1>6, <1>7, <1>8, <1>9

\* The end of a thread is waited for.
LEMMA JoinKeeps ==
  ASSUME ServerInv, Join, Keep
  PROVE  ServerInv'
<1> USE PoolAssumption, ServerAssumption
    DEF ServerInv, Join, Keep, Calling, Goto, At, RunsIn,
        loopVars, poolVars, callVars, serverVars, connVars, mapVars, netVars,
        Base, Loops, IoThreads
<1>1. TypeOK'
  BY DEF TypeOK, Places, Calls, Looping, Failures
<1>2. OrderInv' /\ SameLeft
  BY SameQueues
<1>3. BaseInv'
  BY DEF BaseInv, TypeOK, Looping
<1>4. BornInv'
  BY DEF BornInv, TypeOK, StartInv
<1>5. EndInv'
  BY DEF EndInv, TypeOK, Stopping, StartInv, BornInv
<1>6. IdleInv'
  BY DEF IdleInv, TypeOK
<1>7. StartInv' /\ ActiveInv'
  BY DEF StartInv, ActiveInv, TypeOK, BaseInv, IdleInv, EndInv
<1>8. RotationInv' /\ LoopsExist' /\ AssertionsHold'
  BY DEF RotationInv, LoopsExist, AssertionsHold, TypeOK, StartInv, BornInv, EndInv
<1>9. QueueInv' /\ StateInv' /\ LifeInv' /\ FairRotation'
  <2>1. \A l \in Loops : pc'[l] = "ended" <=> pc[l] = "ended"
    BY DEF TypeOK, EndInv, BornInv, StartInv, Stopping
  <2>2. Dying => Dying'
    BY DEF Dying, EndInv, Looping
  <2>3. QED  BY <1>2, <2>1, <2>2, QuietStep
<1>10. QED  BY <1>1, <1>2, <1>3, <1>4, <1>5, <1>6, <1>7, <1>8, <1>9

\* An IO loop is told to quit when connections_ is empty.
LEMMA QuitThreadKeeps ==
  ASSUME ServerInv, NEW k \in IoThreads, QuitThread(k), Keep
  PROVE  ServerInv'
<1> USE PoolAssumption, ServerAssumption
    DEF ServerInv, QuitThread, Keep, Calling, Goto, At, RunsIn,
        loopVars, poolVars, callVars, serverVars, connVars, mapVars, netVars,
        Base, Loops, IoThreads
<1>1. TypeOK'
  <2>1. quit' \in [Loops -> BOOLEAN]
    BY DEF TypeOK
  <2>2. awaited' \in Loops /\ call' \in Calls
    BY DEF TypeOK, Calls
  <2>3. QED  BY <2>1, <2>2 DEF TypeOK
<1>2. OrderInv' /\ SameLeft
  BY SameQueues
<1>3. BaseInv'
  BY DEF BaseInv, TypeOK, Looping
<1>4. BornInv'
  BY DEF BornInv, TypeOK, StartInv
<1>5. EndInv'
  BY DEF EndInv, TypeOK, Stopping, StartInv, BornInv
<1>6. IdleInv'
  BY DEF IdleInv, TypeOK
<1>7. StartInv' /\ ActiveInv'
  BY DEF StartInv, ActiveInv, TypeOK, BaseInv, IdleInv, EndInv
<1>8. RotationInv' /\ LoopsExist' /\ AssertionsHold'
  BY DEF RotationInv, LoopsExist, AssertionsHold, TypeOK, StartInv, BornInv, EndInv
<1>9. QueueInv' /\ StateInv' /\ LifeInv' /\ FairRotation'
  <2>1. \A l \in Loops : pc'[l] = "ended" <=> pc[l] = "ended"
    BY DEF TypeOK, EndInv, BornInv, StartInv, Stopping
  <2>2. Dying => Dying'
    BY DEF Dying, EndInv, Looping
  <2>3. QED  BY <1>2, <2>1, <2>2, QuietStep
<1>10. QED  BY <1>1, <1>2, <1>3, <1>4, <1>5, <1>6, <1>7, <1>8, <1>9

\* The acceptor listens when all loops are there.
LEMMA ListenKeeps ==
  ASSUME ServerInv, Listen
  PROVE  ServerInv'
<1> USE PoolAssumption, ServerAssumption
    DEF ServerInv, Listen, Calling, Goto, At, RunsIn,
        loopVars, poolVars, callVars, serverVars, connVars, mapVars, netVars,
        Base, Loops, IoThreads
<1>1. TypeOK'
  BY DEF TypeOK, Places, Calls, Looping, Failures
<1>2. OrderInv' /\ SameLeft
  BY SameQueues
<1>3. BaseInv'
  BY DEF BaseInv, TypeOK, Looping
<1>4. BornInv'
  BY DEF BornInv, TypeOK, StartInv
<1>5. EndInv'
  BY DEF EndInv, TypeOK, Stopping, StartInv, BornInv
<1>6. IdleInv'
  BY DEF IdleInv, TypeOK
<1>7. StartInv' /\ ActiveInv'
  BY DEF StartInv, ActiveInv, TypeOK, BaseInv, IdleInv, EndInv
<1>8. RotationInv' /\ LoopsExist' /\ AssertionsHold'
  BY DEF RotationInv, LoopsExist, AssertionsHold, TypeOK, StartInv, BornInv, EndInv
<1>9. QueueInv' /\ StateInv' /\ LifeInv' /\ FairRotation'
  <2>1. \A l \in Loops : pc'[l] = "ended" <=> pc[l] = "ended"
    BY DEF TypeOK, EndInv, BornInv, StartInv, Stopping
  <2>2. Dying => Dying'
    BY DEF Dying, EndInv, Looping
  <2>3. QED  BY <1>2, <2>1, <2>2, QuietStep
<1>10. QED  BY <1>1, <1>2, <1>3, <1>4, <1>5, <1>6, <1>7, <1>8, <1>9

\* The threads are stopped after the last connection has left the map.
LEMMA DestroyPoolKeeps ==
  ASSUME ServerInv, DestroyPool
  PROVE  ServerInv'
<1> USE PoolAssumption, ServerAssumption
    DEF ServerInv, DestroyPool, Calling, Goto, At, RunsIn,
        loopVars, poolVars, callVars, serverVars, connVars, mapVars, netVars,
        Base, Loops, IoThreads
<1>1. TypeOK'
  BY DEF TypeOK, Places, Calls, Looping, Failures
<1>2. OrderInv' /\ SameLeft
  BY SameQueues
<1>3. BaseInv'
  BY DEF BaseInv, TypeOK, Looping
<1>4. BornInv'
  BY DEF BornInv, TypeOK, StartInv
<1>5. EndInv'
  BY DEF EndInv, TypeOK, Stopping, StartInv, BornInv
<1>6. IdleInv'
  BY DEF IdleInv, TypeOK
<1>7. StartInv' /\ ActiveInv'
  BY DEF StartInv, ActiveInv, TypeOK, BaseInv, IdleInv, EndInv
<1>8. RotationInv' /\ LoopsExist' /\ AssertionsHold'
  BY DEF RotationInv, LoopsExist, AssertionsHold, TypeOK, StartInv, BornInv, EndInv
<1>9. QueueInv' /\ StateInv' /\ LifeInv' /\ FairRotation'
  <2>1. \A l \in Loops : pc'[l] = "ended" <=> pc[l] = "ended"
    BY DEF TypeOK, EndInv, BornInv, StartInv, Stopping
  <2>2. Dying => Dying'
    BY DEF Dying, EndInv, Looping
  <2>3. QED  BY <1>2, <2>1, <2>2, QuietStep
<1>10. QED  BY <1>1, <1>2, <1>3, <1>4, <1>5, <1>6, <1>7, <1>8, <1>9

\* The server is gone when nothing of its pool runs.
LEMMA ServerGoneKeeps ==
  ASSUME ServerInv, ServerGone
  PROVE  ServerInv'
<1> USE PoolAssumption, ServerAssumption
    DEF ServerInv, ServerGone, Calling, Goto, At, RunsIn,
        loopVars, poolVars, callVars, serverVars, connVars, mapVars, netVars,
        Base, Loops, IoThreads
<1>1. TypeOK'
  BY DEF TypeOK, Places, Calls, Looping, Failures
<1>2. OrderInv' /\ SameLeft
  BY SameQueues
<1>3. BaseInv'
  BY DEF BaseInv, TypeOK, Looping
<1>4. BornInv'
  BY DEF BornInv, TypeOK, StartInv
<1>5. EndInv'
  BY DEF EndInv, TypeOK, Stopping, StartInv, BornInv
<1>6. IdleInv'
  BY DEF IdleInv, TypeOK
<1>7. StartInv' /\ ActiveInv'
  <2>1. Acceptor \notin active[Base]
    BY DEF BaseInv, IdleInv, Looping
  <2>2. StartInv'
    BY DEF StartInv
  <2>3. ActiveInv'
    BY <2>1 DEF ActiveInv
  <2>4. QED  BY <2>2, <2>3
<1>8. RotationInv' /\ LoopsExist' /\ AssertionsHold'
  BY DEF RotationInv, LoopsExist, AssertionsHold, TypeOK, StartInv, BornInv, EndInv
<1>9. QueueInv' /\ StateInv' /\ LifeInv' /\ FairRotation'
  <2>1. \A l \in Loops : pc'[l] = "ended" <=> pc[l] = "ended"
    BY DEF TypeOK, EndInv, BornInv, StartInv, Stopping
  <2>2. Dying => Dying'
    BY DEF Dying, EndInv, Looping
  <2>3. QED  BY <1>2, <2>1, <2>2, QuietStep
<1>10. QED  BY <1>1, <1>2, <1>3, <1>4, <1>5, <1>6, <1>7, <1>8, <1>9

\* A first start() finds a pool that is not started.
LEMMA StartKeeps ==
  ASSUME ServerInv, Start
  PROVE  ServerInv'
<1> USE PoolAssumption, ServerAssumption
    DEF ServerInv, Start, OwnerMayCall, Fail, Calling, Goto, At, RunsIn,
        loopVars, poolVars, callVars, serverVars, connVars, mapVars, netVars,
        Base, Loops, IoThreads
<1>1. TypeOK'
  BY DEF TypeOK, Places, Calls, Looping, Failures
<1>2. OrderInv' /\ SameLeft
  BY SameQueues
<1>3. BaseInv'
  BY DEF BaseInv, TypeOK, Looping
<1>4. BornInv'
  BY DEF BornInv, TypeOK, StartInv
<1>5. EndInv'
  BY DEF EndInv, TypeOK, Stopping, StartInv, BornInv
<1>6. IdleInv'
  BY DEF IdleInv, TypeOK
<1>7. StartInv' /\ ActiveInv'
  BY DEF StartInv, ActiveInv, TypeOK, BaseInv, IdleInv, EndInv
<1>8. RotationInv' /\ LoopsExist' /\ AssertionsHold'
  BY DEF RotationInv, LoopsExist, AssertionsHold, TypeOK, StartInv, BornInv, EndInv
<1>9. QueueInv' /\ StateInv' /\ LifeInv' /\ FairRotation'
  <2>1. \A l \in Loops : pc'[l] = "ended" <=> pc[l] = "ended"
    BY DEF TypeOK, EndInv, BornInv, StartInv, Stopping
  <2>2. Dying => Dying'
    BY DEF Dying, EndInv, Looping
  <2>3. QED  BY <1>2, <2>1, <2>2, QuietStep
<1>10. QED  BY <1>1, <1>2, <1>3, <1>4, <1>5, <1>6, <1>7, <1>8, <1>9

\* The destructor begins.
LEMMA DestructKeeps ==
  ASSUME ServerInv, Destruct
  PROVE  ServerInv'
<1> USE PoolAssumption, ServerAssumption
    DEF ServerInv, Destruct, OwnerMayCall, Calling, Goto, At, RunsIn,
        loopVars, poolVars, callVars, serverVars, connVars, mapVars, netVars,
        Base, Loops, IoThreads
<1>1. TypeOK'
  BY DEF TypeOK, Places, Calls, Looping, Failures
<1>2. OrderInv' /\ SameLeft
  BY SameQueues
<1>3. BaseInv'
  BY DEF BaseInv, TypeOK, Looping
<1>4. BornInv'
  BY DEF BornInv, TypeOK, StartInv
<1>5. EndInv'
  BY DEF EndInv, TypeOK, Stopping, StartInv, BornInv
<1>6. IdleInv'
  BY DEF IdleInv, TypeOK
<1>7. StartInv' /\ ActiveInv'
  <2>1. StartInv'
    BY DEF StartInv
  <2>2. ActiveInv'
    BY DEF ActiveInv
  <2>3. QED  BY <2>1, <2>2
<1>8. RotationInv' /\ LoopsExist' /\ AssertionsHold'
  BY DEF RotationInv, LoopsExist, AssertionsHold, TypeOK, StartInv, BornInv, EndInv
<1>9. QueueInv' /\ StateInv' /\ LifeInv' /\ FairRotation'
  <2>1. \A l \in Loops : pc'[l] = "ended" <=> pc[l] = "ended"
    BY DEF TypeOK, EndInv, BornInv, StartInv, Stopping
  <2>2. Dying => Dying'
    BY DEF Dying, EndInv, Looping
  <2>3. QED  BY <1>2, <2>1, <2>2, QuietStep
<1>10. QED  BY <1>1, <1>2, <1>3, <1>4, <1>5, <1>6, <1>7, <1>8, <1>9

-----------------------------------------------------------------------------
(* The threads of the loops, their clients, and quit() *)

\* The promise is set.
LEMMA PublishKeeps ==
  ASSUME ServerInv, NEW k \in IoThreads, Publish(k), Keep
  PROVE  ServerInv'
<1> USE PoolAssumption, ServerAssumption
    DEF ServerInv, Publish, Keep, Calling, Goto, At, RunsIn,
        loopVars, poolVars, callVars, serverVars, connVars, mapVars, netVars,
        Base, Loops, IoThreads
<1>1. TypeOK'
  BY DEF TypeOK, Places, Calls, Looping, Failures
<1>2. OrderInv' /\ SameLeft
  BY SameQueues
<1>3. BaseInv'
  BY DEF BaseInv, TypeOK, Looping
<1>4. BornInv'
  BY DEF BornInv, TypeOK, StartInv
<1>5. EndInv'
  BY DEF EndInv, TypeOK, Stopping, StartInv, BornInv
<1>6. IdleInv'
  BY DEF IdleInv, TypeOK
<1>7. StartInv' /\ ActiveInv'
  BY DEF StartInv, ActiveInv, TypeOK, BaseInv, IdleInv, EndInv
<1>8. RotationInv' /\ LoopsExist' /\ AssertionsHold'
  BY DEF RotationInv, LoopsExist, AssertionsHold, TypeOK, StartInv, BornInv, EndInv
<1>9. QueueInv' /\ StateInv' /\ LifeInv' /\ FairRotation'
  <2>1. \A l \in Loops : pc'[l] = "ended" <=> pc[l] = "ended"
    BY DEF TypeOK, EndInv, BornInv, StartInv, Stopping
  <2>2. Dying => Dying'
    BY DEF Dying, EndInv, Looping
  <2>3. QED  BY <1>2, <2>1, <2>2, QuietStep
<1>10. QED  BY <1>1, <1>2, <1>3, <1>4, <1>5, <1>6, <1>7, <1>8, <1>9

\* loop() is entered.
LEMMA EnterKeeps ==
  ASSUME ServerInv, NEW k \in Loops, EnterLoop(k), Keep
  PROVE  ServerInv'
<1> USE PoolAssumption, ServerAssumption
    DEF ServerInv, EnterLoop, Keep, Calling, Goto, At, RunsIn,
        loopVars, poolVars, callVars, serverVars, connVars, mapVars, netVars,
        Base, Loops, IoThreads
<1>1. TypeOK'
  BY DEF TypeOK, Places, Calls, Looping, Failures
<1>2. OrderInv' /\ SameLeft
  BY SameQueues
<1>3. BaseInv'
  BY DEF BaseInv, TypeOK, Looping
<1>4. BornInv'
  <2>1. \A l \in IoThreads :
          pc'[l] = pc[l] \/ (pc[l] = "published" /\ pc'[l] = "check")
    BY DEF TypeOK
  <2>2. call = "future" => awaited \in IoThreads
    BY DEF StartInv, TypeOK
  <2>3. QED  BY <2>1, <2>2 DEF BornInv
<1>5. EndInv'
  BY DEF EndInv, TypeOK, Stopping, StartInv, BornInv
<1>6. IdleInv'
  BY DEF IdleInv, TypeOK
<1>7. StartInv' /\ ActiveInv'
  BY DEF StartInv, ActiveInv, TypeOK, BaseInv, IdleInv, EndInv
<1>8. RotationInv' /\ LoopsExist' /\ AssertionsHold'
  BY DEF RotationInv, LoopsExist, AssertionsHold, TypeOK, StartInv, BornInv, EndInv
<1>9. QueueInv' /\ StateInv' /\ LifeInv' /\ FairRotation'
  <2>1. \A l \in Loops : pc'[l] = "ended" <=> pc[l] = "ended"
    BY DEF TypeOK, EndInv, BornInv, StartInv, Stopping
  <2>2. Dying => Dying'
    BY DEF Dying, EndInv, Looping
  <2>3. QED  BY <1>2, <2>1, <2>2, QuietStep
<1>10. QED  BY <1>1, <1>2, <1>3, <1>4, <1>5, <1>6, <1>7, <1>8, <1>9

\* The base loop is told to quit.
LEMMA QuitBaseKeeps ==
  ASSUME ServerInv, QuitBase, Keep
  PROVE  ServerInv'
<1> USE PoolAssumption, ServerAssumption
    DEF ServerInv, QuitBase, Keep, Calling, Goto, At, RunsIn,
        loopVars, poolVars, callVars, serverVars, connVars, mapVars, netVars,
        Base, Loops, IoThreads
<1>1. TypeOK'
  BY DEF TypeOK, Places, Calls, Looping, Failures
<1>2. OrderInv' /\ SameLeft
  BY SameQueues
<1>3. BaseInv'
  BY DEF BaseInv, TypeOK, Looping
<1>4. BornInv'
  BY DEF BornInv, TypeOK, StartInv
<1>5. EndInv'
  BY DEF EndInv, TypeOK, Stopping, StartInv, BornInv
<1>6. IdleInv'
  BY DEF IdleInv, TypeOK
<1>7. StartInv' /\ ActiveInv'
  BY DEF StartInv, ActiveInv, TypeOK, BaseInv, IdleInv, EndInv
<1>8. RotationInv' /\ LoopsExist' /\ AssertionsHold'
  BY DEF RotationInv, LoopsExist, AssertionsHold, TypeOK, StartInv, BornInv, EndInv
<1>9. QueueInv' /\ StateInv' /\ LifeInv' /\ FairRotation'
  <2>1. \A l \in Loops : pc'[l] = "ended" <=> pc[l] = "ended"
    BY DEF TypeOK, EndInv, BornInv, StartInv, Stopping
  <2>2. Dying => Dying'
    BY DEF Dying, EndInv, Looping
  <2>3. QED  BY <1>2, <2>1, <2>2, QuietStep
<1>10. QED  BY <1>1, <1>2, <1>3, <1>4, <1>5, <1>6, <1>7, <1>8, <1>9

\* What poll finds: connections that are up in this loop, and, in the base
\* loop, a client that waits for a server that listens.
LEMMA WhatIsReady ==
  ASSUME ServerInv, NEW k \in Loops
  PROVE  /\ Ready(k) \subseteq Conns \cup {Acceptor}
         /\ \A c \in Ready(k) \cap Conns : loop_of[c] = k /\ Open(c)
         /\ Acceptor \in Ready(k) =>
              k = Base /\ accepted < arrived /\ listening /\ server = "alive"
<1> USE ServerAssumption DEF ServerInv, Acceptor, Conns
<1>1. registered \subseteq Conns /\ Acceptor \notin Conns
  BY DEF TypeOK
<1>2. listening => server = "alive"
  BY DEF EndInv, TypeOK
<1>3. QED  BY <1>1, <1>2 DEF Ready

\* poll returns.
LEMMA PollKeeps ==
  ASSUME ServerInv, NEW k \in Loops, Poll(k)
  PROVE  ServerInv'
<1> USE PoolAssumption, ServerAssumption
    DEF ServerInv, Poll, Calling, Goto, At, RunsIn,
        loopVars, poolVars, callVars, serverVars, connVars, mapVars, netVars,
        Base, Loops, IoThreads
<1>1. TypeOK'
  <2>1. pc' \in [Loops -> Places]
    BY DEF TypeOK, Places, Looping
  <2>2. active' \in [Loops -> SUBSET (Conns \cup {Acceptor})]
    BY WhatIsReady DEF TypeOK
  <2>3. QED  BY <2>1, <2>2 DEF TypeOK
<1>2. OrderInv' /\ SameLeft
  BY SameQueues
<1>3. BaseInv'
  BY DEF BaseInv, TypeOK, Looping
<1>4. BornInv'
  <2>1. \A l \in Loops : pc'[l] = pc[l] \/ (pc[l] = "poll" /\ pc'[l] = "dispatch")
    BY DEF TypeOK
  <2>2. call = "future" => awaited \in IoThreads
    BY DEF StartInv, TypeOK
  <2>3. QED  BY <2>1, <2>2 DEF BornInv
<1>5. EndInv'
  BY DEF EndInv, TypeOK, Stopping, StartInv, BornInv
<1>6. IdleInv'
  BY DEF IdleInv, TypeOK
<1>7. StartInv' /\ ActiveInv'
  <2>1. \A l \in Loops : active'[l] = IF l = k THEN Ready(k) ELSE active[l]
    BY DEF TypeOK
  <2>2. Acceptor \in active'[Base] => Acceptor \in active[Base] \/ listening
    BY <2>1, WhatIsReady
  <2>3. StartInv'
    BY <2>2 DEF StartInv
  <2>4. ActiveInv'
    <3>1. ASSUME NEW l \in Loops, l # k
          PROVE  active'[l] = active[l]
      BY <2>1, <3>1
    <3>2. active'[k] = Ready(k)
      BY <2>1
    <3>3. UNCHANGED <<accepted, arrived, server, loop_of, state>>
      OBVIOUS
    <3>4. QED  BY <3>1, <3>2, <3>3, WhatIsReady DEF ActiveInv
  <2>5. QED  BY <2>3, <2>4
<1>8. RotationInv' /\ LoopsExist' /\ AssertionsHold'
  BY DEF RotationInv, LoopsExist, AssertionsHold, TypeOK, StartInv, BornInv, EndInv
<1>9. QueueInv' /\ StateInv' /\ LifeInv' /\ FairRotation'
  <2>1. \A l \in Loops : pc'[l] = "ended" <=> pc[l] = "ended"
    BY DEF TypeOK, EndInv, BornInv, StartInv, Stopping
  <2>2. Dying => Dying'
    BY DEF Dying, EndInv, Looping
  <2>3. QED  BY <1>2, <2>1, <2>2, QuietStep
<1>10. QED  BY <1>1, <1>2, <1>3, <1>4, <1>5, <1>6, <1>7, <1>8, <1>9

\* accept() fails.
LEMMA AcceptFailsKeeps ==
  ASSUME ServerInv, AcceptFails
  PROVE  ServerInv'
<1> USE PoolAssumption, ServerAssumption
    DEF ServerInv, AcceptFails, Fail, Calling, Goto, At, RunsIn,
        loopVars, poolVars, callVars, serverVars, connVars, mapVars, netVars,
        Base, Loops, IoThreads
<1>1. TypeOK'
  BY DEF TypeOK, Places, Calls, Looping, Failures
<1>2. OrderInv' /\ SameLeft
  BY SameQueues
<1>3. BaseInv'
  BY DEF BaseInv, TypeOK, Looping
<1>4. BornInv'
  BY DEF BornInv, TypeOK, StartInv
<1>5. EndInv'
  BY DEF EndInv, TypeOK, Stopping, StartInv, BornInv
<1>6. IdleInv'
  BY DEF IdleInv, TypeOK
<1>7. StartInv' /\ ActiveInv'
  BY DEF StartInv, ActiveInv, TypeOK, BaseInv, IdleInv, EndInv
<1>8. RotationInv' /\ LoopsExist' /\ AssertionsHold'
  BY DEF RotationInv, LoopsExist, AssertionsHold, TypeOK, StartInv, BornInv, EndInv
<1>9. QueueInv' /\ StateInv' /\ LifeInv' /\ FairRotation'
  <2>1. \A l \in Loops : pc'[l] = "ended" <=> pc[l] = "ended"
    BY DEF TypeOK, EndInv, BornInv, StartInv, Stopping
  <2>2. Dying => Dying'
    BY DEF Dying, EndInv, Looping
  <2>3. QED  BY <1>2, <2>1, <2>2, QuietStep
<1>10. QED  BY <1>1, <1>2, <1>3, <1>4, <1>5, <1>6, <1>7, <1>8, <1>9

\* User code half closes a connection.
LEMMA HalfCloseKeeps ==
  ASSUME ServerInv, NEW k \in Loops, NEW d \in Conns, HalfClose(k, d)
  PROVE  ServerInv'
<1> USE PoolAssumption, ServerAssumption
    DEF ServerInv, HalfClose, Calling, Goto, At, RunsIn,
        loopVars, poolVars, callVars, serverVars, connVars, mapVars, netVars,
        Base, Loops, IoThreads
<1>1. TypeOK'
  BY DEF TypeOK, Places, Calls, Looping, Failures
<1>2. OrderInv' /\ SameLeft
  BY SameQueues
<1>3. BaseInv'
  BY DEF BaseInv, TypeOK, Looping
<1>4. BornInv'
  BY DEF BornInv, TypeOK, StartInv
<1>5. EndInv'
  BY DEF EndInv, TypeOK, Stopping, StartInv, BornInv
<1>6. IdleInv'
  BY DEF IdleInv, TypeOK
<1>7. /\ state \in [Conns -> States]
      /\ \A c \in Conns : c # d => state'[c] = state[c]
      /\ state[d] = "kConnected" /\ state'[d] = "kDisconnecting"
  BY DEF TypeOK
<1>8. StartInv' /\ ActiveInv' /\ RotationInv' /\ LoopsExist' /\ AssertionsHold'
  BY <1>7 DEF StartInv, ActiveInv, RotationInv, LoopsExist, AssertionsHold
<1>9. QueueInv' /\ StateInv' /\ FairRotation'
  <2>1. QueueInv' /\ FairRotation'
    BY <1>2 DEF QueueInv, FairRotation
  <2>2. d \in registered
    <3>1. d \in 1..accepted /\ loop_of[d] = k /\ pc[k] # "ended"
      <4>1. d <= accepted
        BY <1>7 DEF StateInv
      <4>2. accepted \in 0..arrived /\ arrived \in 0..MaxConns
        BY DEF TypeOK
      <4>3. QED  BY <4>1, <4>2 DEF Conns
    <3>2. LifeOf(d)
      BY <3>1 DEF LifeInv
    <3>3. "established" \in Ops /\ "destroyed" \in Ops
      BY DEF Ops
    <3>4. QED  BY <1>7, <3>1, <3>2 DEF LifeOf
  <2>3. QED  BY <1>7, <2>1, <2>2 DEF StateInv
<1>10. LifeInv'
  <2>1. 1..accepted \subseteq Conns
    BY DEF TypeOK, Conns
  <2>2. loop_of \in [Conns -> Loops] /\ {"established", "destroyed", "remove"} = Ops
    BY DEF TypeOK, Ops
  <2>3. SUFFICES ASSUME NEW c \in 1..accepted PROVE LifeOf(c)'
    BY DEF LifeInv
  <2>4. LifeOf(c)
    BY DEF LifeInv
  <2>5. state'[c] = state[c]
          \/ (state[c] = "kConnected" /\ state'[c] = "kDisconnecting")
    BY <1>7, <2>1
  <2>6. QED  BY <1>2, <2>1, <2>2, <2>4, <2>5 DEF LifeOf, Dying
<1>11. QED  BY <1>1, <1>2, <1>3, <1>4, <1>5, <1>6, <1>8, <1>9, <1>10

\* A client connects.
LEMMA ConnectsKeeps ==
  ASSUME ServerInv, ClientConnects
  PROVE  ServerInv'
<1> USE PoolAssumption, ServerAssumption
    DEF ServerInv, ClientConnects, Calling, Goto, At, RunsIn,
        loopVars, poolVars, callVars, serverVars, connVars, mapVars, netVars,
        Base, Loops, IoThreads
<1>1. TypeOK'
  BY DEF TypeOK, Places, Calls, Looping, Failures
<1>2. OrderInv' /\ SameLeft
  BY SameQueues
<1>3. BaseInv'
  BY DEF BaseInv, TypeOK, Looping
<1>4. BornInv'
  BY DEF BornInv, TypeOK, StartInv
<1>5. EndInv'
  BY DEF EndInv, TypeOK, Stopping, StartInv, BornInv
<1>6. IdleInv'
  BY DEF IdleInv, TypeOK
<1>7. StartInv' /\ ActiveInv'
  <2>1. StartInv'
    BY DEF StartInv
  <2>2. ActiveInv'
    BY DEF ActiveInv, TypeOK
  <2>3. QED  BY <2>1, <2>2
<1>8. RotationInv' /\ LoopsExist' /\ AssertionsHold'
  BY DEF RotationInv, LoopsExist, AssertionsHold, TypeOK, StartInv, BornInv, EndInv
<1>9. QueueInv' /\ StateInv' /\ LifeInv' /\ FairRotation'
  <2>1. \A l \in Loops : pc'[l] = "ended" <=> pc[l] = "ended"
    BY DEF TypeOK, EndInv, BornInv, StartInv, Stopping
  <2>2. Dying => Dying'
    BY DEF Dying, EndInv, Looping
  <2>3. QED  BY <1>2, <2>1, <2>2, QuietStep
<1>10. QED  BY <1>1, <1>2, <1>3, <1>4, <1>5, <1>6, <1>7, <1>8, <1>9

\* A client closes.
LEMMA ClosesKeeps ==
  ASSUME ServerInv, NEW d \in Conns, ClientCloses(d)
  PROVE  ServerInv'
<1> USE PoolAssumption, ServerAssumption
    DEF ServerInv, ClientCloses, Calling, Goto, At, RunsIn,
        loopVars, poolVars, callVars, serverVars, connVars, mapVars, netVars,
        Base, Loops, IoThreads
<1>1. TypeOK'
  BY DEF TypeOK, Places, Calls, Looping, Failures
<1>2. OrderInv' /\ SameLeft
  BY SameQueues
<1>3. BaseInv'
  BY DEF BaseInv, TypeOK, Looping
<1>4. BornInv'
  BY DEF BornInv, TypeOK, StartInv
<1>5. EndInv'
  BY DEF EndInv, TypeOK, Stopping, StartInv, BornInv
<1>6. IdleInv'
  BY DEF IdleInv, TypeOK
<1>7. StartInv' /\ ActiveInv'
  BY DEF StartInv, ActiveInv, TypeOK, BaseInv, IdleInv, EndInv
<1>8. RotationInv' /\ LoopsExist' /\ AssertionsHold'
  BY DEF RotationInv, LoopsExist, AssertionsHold, TypeOK, StartInv, BornInv, EndInv
<1>9. QueueInv' /\ StateInv' /\ LifeInv' /\ FairRotation'
  <2>1. \A l \in Loops : pc'[l] = "ended" <=> pc[l] = "ended"
    BY DEF TypeOK, EndInv, BornInv, StartInv, Stopping
  <2>2. Dying => Dying'
    BY DEF Dying, EndInv, Looping
  <2>3. QED  BY <1>2, <2>1, <2>2, QuietStep
<1>10. QED  BY <1>1, <1>2, <1>3, <1>4, <1>5, <1>6, <1>7, <1>8, <1>9

-----------------------------------------------------------------------------
(* The rounds of a loop *)

\* The queue becomes the round.
LEMMA EndDispatchKeeps ==
  ASSUME ServerInv, NEW k \in Loops, EndDispatch(k)
  PROVE  ServerInv'
<1> USE PoolAssumption, ServerAssumption
    DEF ServerInv, EndDispatch, SwapPending, Goto, At, RunsIn,
        poolVars, callVars, serverVars, connVars, mapVars, netVars,
        Base, Loops, IoThreads
<1>1. pending[k] \in Seq(Functors) /\ tmp[k] \in Seq(Functors)
  BY DEF TypeOK
<1>2. Len(<<>>) = 0 /\ Len(pending[k]) \in Nat
  BY EmptySeq DEF TypeOK
<1>3. /\ pending'[k] = <<>> /\ tmp'[k] = pending[k] /\ tmp[k] = <<>>
      /\ ran[k] = 0 /\ ran' = ran
      /\ \A l \in Loops : l # k => pending'[l] = pending[l] /\ tmp'[l] = tmp[l]
  BY DEF TypeOK, IdleInv
<1>4. TypeOK'
  <2>1. <<>> \in Seq(Functors)
    OBVIOUS
  <2>2. pc' \in [Loops -> Places]
    BY DEF TypeOK, Places, Looping
  <2>3. /\ pending' \in [Loops -> Seq(Functors)]
        /\ tmp' \in [Loops -> Seq(Functors)]
    BY <2>1 DEF TypeOK
  <2>4. ASSUME NEW l \in Loops
        PROVE  ran'[l] <= Len(tmp'[l])
    <3>1. CASE l = k
      BY <1>2, <1>3, <3>1
    <3>2. CASE l # k
      BY <1>3, <3>2 DEF TypeOK
    <3>3. QED  BY <3>1, <3>2
  <2>5. QED  BY <2>2, <2>3, <2>4 DEF TypeOK
<1>5. SameLeft
  <2>1. SUFFICES ASSUME NEW l \in Loops, NEW op \in Ops, NEW c \in Conns
                 PROVE  Left(l, op, c)' <=> Left(l, op, c)
    OBVIOUS
  <2>2. CASE l = k
    BY ONLY <1>1, <1>3, <2>2, RoundsKeepLeft DEF Left
  <2>3. CASE l # k
    BY <1>3, <2>3 DEF Left
  <2>4. QED  BY <2>2, <2>3
<1>6. OrderInv'
  <2>1. SUFFICES ASSUME NEW l \in Loops PROVE OrderInv!(l)'
    BY DEF OrderInv
  <2>2. OrderInv!(l)
    BY DEF OrderInv
  <2>3. CASE l = k
    BY ONLY <1>1, <1>3, <2>2, <2>3, RoundsKeepLeft
  <2>4. CASE l # k
    BY <1>3, <2>2, <2>4
  <2>5. QED  BY <2>3, <2>4
<1>7. BaseInv'
  BY DEF BaseInv, TypeOK, Looping
<1>8. BornInv'
  <2>1. \A l \in Loops : pc'[l] = pc[l] \/ (pc[l] = "dispatch" /\ pc'[l] = "run")
    BY DEF TypeOK
  <2>2. call = "future" => awaited \in IoThreads
    BY DEF StartInv, TypeOK
  <2>3. QED  BY <2>1, <2>2 DEF BornInv
<1>9. EndInv'
  BY DEF EndInv, TypeOK, Stopping
<1>10. IdleInv'
  <2>1. pc'[k] = "run" /\ \A l \in Loops : l # k => pc'[l] = pc[l]
    BY DEF TypeOK
  <2>2. active[k] = {} /\ active' = active
    OBVIOUS
  <2>3. IdleInv
    OBVIOUS
  <2>4. QED  BY ONLY <1>3, <2>1, <2>2, <2>3 DEF IdleInv
<1>11. StartInv' /\ ActiveInv'
  BY DEF StartInv, ActiveInv
<1>12. RotationInv' /\ LoopsExist' /\ AssertionsHold'
  BY DEF RotationInv, LoopsExist, AssertionsHold, TypeOK
<1>13. QueueInv' /\ StateInv' /\ LifeInv' /\ FairRotation'
  <2>1. \A l \in Loops : pc'[l] = "ended" <=> pc[l] = "ended"
    BY DEF TypeOK
  <2>2. QED  BY <1>5, <2>1, QuietStep DEF Dying
<1>14. QED  BY <1>4, <1>6, <1>7, <1>8, <1>9, <1>10, <1>11, <1>12, <1>13

\* The round is over.
LEMMA EndRoundKeeps ==
  ASSUME ServerInv, NEW k \in Loops, EndRound(k), Keep
  PROVE  ServerInv'
<1> USE PoolAssumption, ServerAssumption
    DEF ServerInv, EndRound, Keep, Goto, At, RunsIn,
        poolVars, callVars, serverVars, connVars, mapVars, netVars,
        Base, Loops, IoThreads
<1>1. pending[k] \in Seq(Functors) /\ tmp[k] \in Seq(Functors)
  BY DEF TypeOK
<1>2. Len(<<>>) = 0 /\ Len(pending[k]) \in Nat /\ Len(tmp[k]) \in Nat
  BY EmptySeq DEF TypeOK
<1>3. /\ tmp'[k] = <<>> /\ ran[k] = Len(tmp[k]) /\ ran'[k] = 0 /\ pending' = pending
      /\ \A l \in Loops : l # k => ran'[l] = ran[l] /\ tmp'[l] = tmp[l]
  BY DEF TypeOK
<1>4. TypeOK'
  <2>1. <<>> \in Seq(Functors)
    OBVIOUS
  <2>2. pc' \in [Loops -> Places]
    BY DEF TypeOK, Places, Looping
  <2>3. tmp' \in [Loops -> Seq(Functors)] /\ ran' \in [Loops -> Nat]
    BY <2>1 DEF TypeOK
  <2>4. ASSUME NEW l \in Loops
        PROVE  ran'[l] <= Len(tmp'[l])
    <3>1. CASE l = k
      BY <1>2, <1>3, <3>1
    <3>2. CASE l # k
      BY <1>3, <3>2 DEF TypeOK
    <3>3. QED  BY <3>1, <3>2
  <2>5. QED  BY <2>2, <2>3, <2>4 DEF TypeOK
<1>5. SameLeft
  <2>1. SUFFICES ASSUME NEW l \in Loops, NEW op \in Ops, NEW c \in Conns
                 PROVE  Left(l, op, c)' <=> Left(l, op, c)
    OBVIOUS
  <2>2. CASE l = k
    BY ONLY <1>1, <1>3, <2>2, RoundsKeepLeft DEF Left
  <2>3. CASE l # k
    BY <1>3, <2>3 DEF Left
  <2>4. QED  BY <2>2, <2>3
<1>6. OrderInv'
  <2>1. SUFFICES ASSUME NEW l \in Loops PROVE OrderInv!(l)'
    BY DEF OrderInv
  <2>2. OrderInv!(l)
    BY DEF OrderInv
  <2>3. CASE l = k
    BY ONLY <1>1, <1>3, <2>2, <2>3, RoundsKeepLeft
  <2>4. CASE l # k
    BY <1>3, <2>2, <2>4
  <2>5. QED  BY <2>3, <2>4
<1>7. BaseInv'
  BY DEF BaseInv, TypeOK, Looping
<1>8. BornInv'
  BY DEF BornInv, TypeOK, StartInv
<1>9. EndInv'
  BY DEF EndInv, TypeOK, Stopping
<1>10. IdleInv'
  BY <1>3 DEF IdleInv, TypeOK
<1>11. StartInv' /\ ActiveInv'
  BY DEF StartInv, ActiveInv
<1>12. RotationInv' /\ LoopsExist' /\ AssertionsHold'
  BY DEF RotationInv, LoopsExist, AssertionsHold, TypeOK
<1>13. QueueInv' /\ StateInv' /\ LifeInv' /\ FairRotation'
  <2>1. \A l \in Loops : pc'[l] = "ended" <=> pc[l] = "ended"
    BY DEF TypeOK
  <2>2. QED  BY <1>5, <2>1, QuietStep DEF Dying
<1>14. QED  BY <1>4, <1>6, <1>7, <1>8, <1>9, <1>10, <1>11, <1>12, <1>13

\* The loop goes on, or the base loop returns.
LEMMA GoOnKeeps ==
  ASSUME ServerInv, NEW k \in Loops, CheckQuit(k), Keep, ~(quit[k] /\ k # Base)
  PROVE  ServerInv'
<1> USE PoolAssumption, ServerAssumption
    DEF ServerInv, CheckQuit, Keep, Goto, At, RunsIn,
        poolVars, callVars, serverVars, connVars, mapVars, netVars,
        Base, Loops, IoThreads
<1>1. TypeOK'
  BY DEF TypeOK, Places, Calls, Looping, Failures
<1>2. OrderInv' /\ SameLeft
  BY SameQueues
<1>3. BaseInv'
  BY DEF BaseInv, TypeOK, Looping
<1>4. BornInv'
  <2>1. \A l \in Loops : pc'[l] = pc[l] \/ (pc[l] = "check" /\ pc'[l] \in {"poll", "idle"})
    BY DEF TypeOK
  <2>2. \A l \in IoThreads : pc'[l] = pc[l] \/ (pc[l] = "check" /\ pc'[l] = "poll")
    BY DEF TypeOK
  <2>3. call = "future" => awaited \in IoThreads
    BY DEF StartInv, TypeOK
  <2>4. QED  BY <2>2, <2>3 DEF BornInv
<1>5. EndInv'
  BY DEF EndInv, TypeOK, Stopping
<1>6. IdleInv'
  BY DEF IdleInv, TypeOK
<1>7. StartInv' /\ ActiveInv'
  BY DEF StartInv, ActiveInv
<1>8. RotationInv' /\ LoopsExist' /\ AssertionsHold'
  BY DEF RotationInv, LoopsExist, AssertionsHold, TypeOK
<1>9. QueueInv' /\ StateInv' /\ LifeInv' /\ FairRotation'
  <2>1. \A l \in Loops : pc'[l] = "ended" <=> pc[l] = "ended"
    BY DEF TypeOK
  <2>2. QED  BY <1>2, <2>1, QuietStep DEF Dying
<1>10. QED  BY <1>1, <1>2, <1>3, <1>4, <1>5, <1>6, <1>7, <1>8, <1>9

\* An IO loop ends and takes its functors with it.
LEMMA EndsKeeps ==
  ASSUME ServerInv, NEW k \in IoThreads, CheckQuit(k), Keep, quit[k]
  PROVE  ServerInv'
<1> USE PoolAssumption, ServerAssumption
    DEF ServerInv, CheckQuit, Keep, Goto, At, RunsIn,
        poolVars, callVars, serverVars, connVars, mapVars, netVars,
        Base, Loops, IoThreads
<1>1. Len(<<>>) = 0 /\ pending[k] \in Seq(Functors)
  BY EmptySeq DEF TypeOK
<1>2. /\ pending'[k] = <<>> /\ tmp[k] = <<>> /\ ran[k] = 0 /\ tmp' = tmp /\ ran' = ran
      /\ pc'[k] = "ended" /\ k \in Loops /\ k # Base
      /\ \A l \in Loops : l # k => pending'[l] = pending[l] /\ pc'[l] = pc[l]
  BY DEF TypeOK, IdleInv
<1>3. Stopping /\ connections = {} /\ Dying
  BY DEF EndInv, Stopping, Dying
<1>4. TypeOK'
  <2>1. <<>> \in Seq(Functors)
    OBVIOUS
  <2>2. pc' \in [Loops -> Places] /\ pending' \in [Loops -> Seq(Functors)]
    BY <2>1 DEF TypeOK, Places, Looping
  <2>3. QED  BY <2>2 DEF TypeOK
<1>5. ASSUME NEW l \in Loops, NEW op \in Ops, NEW c \in Conns
      PROVE  Left(l, op, c)' <=> Left(l, op, c) /\ l # k
  <2>1. CASE l = k
    BY ONLY <1>1, <1>2, <2>1, RoundsKeepLeft DEF Left
  <2>2. CASE l # k
    BY <1>2, <2>2 DEF Left
  <2>3. QED  BY <2>1, <2>2
<1>6. OrderInv'
  <2>1. SUFFICES ASSUME NEW l \in Loops PROVE OrderInv!(l)'
    BY DEF OrderInv
  <2>2. CASE l = k
    BY ONLY <1>1, <1>2, <2>2, RoundsKeepLeft
  <2>3. CASE l # k
    BY <1>2, <2>3 DEF OrderInv
  <2>4. QED  BY <2>2, <2>3
<1>7. BaseInv'
  BY DEF BaseInv, TypeOK, Looping
<1>8. BornInv'
  <2>1. pc[k] = "check" /\ call # "future"
    BY <1>3 DEF Stopping, EndInv
  <2>2. QED  BY <1>2, <2>1 DEF BornInv
<1>9. EndInv'
  BY <1>3 DEF EndInv, TypeOK, Stopping
<1>10. IdleInv'
  <2>1. active' = active /\ active[k] = {}
    BY DEF IdleInv
  <2>2. QED  BY <1>2, <2>1 DEF IdleInv
<1>11. StartInv' /\ ActiveInv' /\ StateInv' /\ FairRotation'
  BY DEF StartInv, ActiveInv, StateInv, FairRotation
<1>12. RotationInv' /\ LoopsExist' /\ AssertionsHold'
  BY <1>2 DEF RotationInv, LoopsExist, AssertionsHold, TypeOK
<1>13. QueueInv'
  BY <1>5 DEF QueueInv
<1>14. LifeInv'
  <2>1. SUFFICES ASSUME NEW c \in 1..accepted PROVE LifeOf(c)'
    BY DEF LifeInv
  <2>2. c \in Conns /\ loop_of[c] \in Loops
    <3>1. 1..accepted \subseteq Conns /\ loop_of \in [Conns -> Loops]
      BY DEF TypeOK, Conns
    <3>2. QED  BY ONLY <3>1, <2>1
  <2>3. {"established", "destroyed", "remove"} = Ops
    BY DEF Ops
  <2>4. Dying'
    BY <1>3 DEF Dying
  <2>5. CASE loop_of[c] = k
    BY <1>2, <1>3, <1>5, <2>2, <2>3, <2>4, <2>5 DEF LifeInv, LifeOf
  <2>6. CASE loop_of[c] # k
    <3>1. /\ \A op \in Ops : Left(loop_of[c], op, c)' <=> Left(loop_of[c], op, c)
          /\ Left(Base, "remove", c)' <=> Left(Base, "remove", c)
      <4>1. \A op \in Ops : Left(loop_of[c], op, c)' <=> Left(loop_of[c], op, c)
        BY <1>5, <2>2, <2>6
      <4>2. Left(Base, "remove", c)' <=> Left(Base, "remove", c)
        BY <1>2, <1>5, <2>2 DEF Ops
      <4>3. QED  BY <4>1, <4>2
    <3>2. pc'[loop_of[c]] = pc[loop_of[c]]
      BY <1>2, <2>2, <2>6
    <3>3. UNCHANGED <<connections, state, registered>>
      OBVIOUS
    <3>4. LifeOf(c)
      BY DEF LifeInv
    <3>5. QED  BY <2>3, <2>4, <3>1, <3>2, <3>3, <3>4 DEF LifeOf
  <2>7. QED  BY <2>5, <2>6
<1>15. QED
  BY <1>4, <1>6, <1>7, <1>8, <1>9, <1>10, <1>11, <1>12, <1>13, <1>14

\* Functors are records.
LEMMA FunctorType ==
  ASSUME NEW op \in Ops, NEW c \in Conns
  PROVE  /\ Functor(op, c) \in Functors
         /\ Functor(op, c).op = op /\ Functor(op, c).conn = c
BY DEF Functor, Functors

\* A step that adds one functor behind the queue of a loop, where nothing that
\* may not come before it is left.
LEMMA QueueStep ==
  ASSUME ServerInv, NEW k \in Loops, NEW op \in Ops, NEW d \in Conns,
         Queue(k, Functor(op, d)), UNCHANGED <<tmp, ran>>,
         ~Left(k, op, d),
         op = "established" => ~Left(k, "destroyed", d)
  PROVE  /\ OrderInv'
         /\ pending' \in [Loops -> Seq(Functors)]
         /\ \A l \in Loops : l # k => pending'[l] = pending[l]
         /\ \A l \in Loops, o \in Ops, c \in Conns :
              Left(l, o, c)' <=> Left(l, o, c) \/ (l = k /\ o = op /\ c = d)
<1> DEFINE f == Functor(op, d)
<1>1. f \in Functors /\ f.op = op /\ f.conn = d
      /\ \A o \in Ops, c \in Conns : Is(f, o, c) <=> o = op /\ c = d
  BY FunctorType DEF Is
<1>2. /\ \A l \in Loops : /\ pending[l] \in Seq(Functors)
                          /\ tmp[l] \in Seq(Functors)
                          /\ ran[l] \in Nat
      /\ pending \in [Loops -> Seq(Functors)]
      /\ OrderInv
  BY DEF ServerInv, TypeOK
<1> HIDE DEF f
<1>3. pending'[k] = Append(pending[k], f)
      /\ \A l \in Loops : l # k => pending'[l] = pending[l]
  BY <1>2 DEF Queue, f
<1>4. /\ Append(pending[k], f) \in Seq(Functors)
      /\ \A o \in Ops, c \in Conns :
           LeftIn(Append(pending[k], f), tmp[k], ran[k], o, c)
             <=> LeftIn(pending[k], tmp[k], ran[k], o, c) \/ (o = op /\ c = d)
      /\ InOrderIn(Append(pending[k], f), tmp[k], ran[k])
  <2>1. InOrderIn(pending[k], tmp[k], ran[k])
    BY <1>2 DEF OrderInv
  <2>2. \A o \in Ops : LeftIn(pending[k], tmp[k], ran[k], o, f.conn) =>
          o # f.op /\ ~(o = "destroyed" /\ f.op = "established")
    BY <1>1 DEF Left
  <2>3. QED  BY <1>1, <1>2, <2>1, <2>2, QueueLast
<1>5. pending' \in [Loops -> Seq(Functors)]
  BY <1>2, <1>4 DEF Queue, f
<1>6. ASSUME NEW l \in Loops, NEW o \in Ops, NEW c \in Conns
      PROVE  Left(l, o, c)' <=> Left(l, o, c) \/ (l = k /\ o = op /\ c = d)
  <2>1. CASE l = k
    BY <1>3, <1>4, <2>1 DEF Left
  <2>2. CASE l # k
    BY <1>3, <2>2 DEF Left
  <2>3. QED  BY <2>1, <2>2
<1>7. ASSUME NEW l \in Loops
      PROVE  InOrderIn(pending[l], tmp[l], ran[l])'
  <2>1. InOrderIn(pending[l], tmp[l], ran[l])
    BY <1>2 DEF OrderInv
  <2>2. CASE l = k
    BY <1>3, <1>4, <2>2
  <2>3. CASE l # k
    BY <1>3, <2>1, <2>3
  <2>4. QED  BY <2>2, <2>3
<1>8. QED  BY <1>3, <1>5, <1>6, <1>7 DEF OrderInv

\* What a step does not touch of a connection lives on.
LEMMA LivesOn ==
  ASSUME ServerInv, NEW c \in 1..accepted,
         UNCHANGED pc, loop_of'[c] = loop_of[c], state'[c] = state[c],
         c \in registered' <=> c \in registered,
         c \in connections' <=> c \in connections,
         Dying => Dying',
         \A l \in Loops, op \in Ops : Left(l, op, c)' <=> Left(l, op, c)
  PROVE  LifeOf(c)'
<1>1. c \in Conns /\ loop_of[c] \in Loops /\ Base \in Loops
  BY PoolAssumption, ServerAssumption DEF ServerInv, TypeOK, Conns, Loops, Base
<1>2. {"established", "destroyed", "remove"} = Ops
  BY DEF Ops
<1>3. LifeOf(c)
  BY DEF ServerInv, LifeInv
<1>4. QED  BY <1>1, <1>2, <1>3 DEF LifeOf

\* The loop of a connection exists while the connection is in the map, and the
\* base loop always.
LEMMA LoopThere ==
  ASSUME ServerInv
  PROVE  /\ pc[Base] \notin {"none", "created", "ended"}
         /\ \A l \in IoThreads : l <= loops /\ ~Stopping =>
              pc[l] \notin {"none", "created", "ended"}
         /\ \A c \in connections :
              /\ c \in Conns /\ c \in 1..accepted
              /\ loop_of[c] \in Loops
              /\ ~Stopping
              /\ pc[loop_of[c]] \notin {"none", "created", "ended"}
<1> USE PoolAssumption, ServerAssumption DEF ServerInv
<1>1. pc[Base] \notin {"none", "created", "ended"}
  BY DEF BaseInv, Looping
<1>2. ASSUME NEW l \in IoThreads, l <= loops, ~Stopping
      PROVE  pc[l] \notin {"none", "created", "ended"}
  BY <1>2 DEF BornInv, EndInv
<1>3. ASSUME NEW c \in connections
      PROVE  /\ c \in Conns /\ c \in 1..accepted
             /\ loop_of[c] \in Loops
             /\ ~Stopping
             /\ pc[loop_of[c]] \notin {"none", "created", "ended"}
  <2>1. c \in Conns /\ c \in 1..accepted /\ loop_of[c] \in Loops
    BY DEF TypeOK, Conns
  <2>2. ~Stopping
    BY DEF EndInv
  <2>3. loop_of[c] <= loops
    BY <2>1 DEF RotationInv
  <2>4. loop_of[c] = Base \/ loop_of[c] \in IoThreads
    BY <2>1 DEF Loops, IoThreads, Base
  <2>5. QED  BY <1>1, <1>2, <2>1, <2>2, <2>3, <2>4
<1>4. QED  BY <1>1, <1>2, <1>3

-----------------------------------------------------------------------------
(* What makes, closes and removes connections *)

\* An assertion that fails ends the program where it is.
LEMMA AbortKeeps ==
  ASSUME ServerInv, failed' \in Failures, AssertionsHold',
         UNCHANGED <<loopVars, poolVars, callVars, serverVars, connVars, mapVars,
                     netVars, active>>
  PROVE  ServerInv'
<1> USE DEF ServerInv, loopVars, poolVars, callVars, serverVars, connVars, mapVars,
            netVars
<1>1. TypeOK'
  BY DEF TypeOK
<1>2. OrderInv' /\ SameLeft
  BY SameQueues
<1>3. BaseInv' /\ BornInv' /\ EndInv' /\ IdleInv'
  BY DEF BaseInv, BornInv, EndInv, Stopping, IdleInv
<1>4. StartInv' /\ ActiveInv' /\ RotationInv' /\ LoopsExist'
  BY DEF StartInv, ActiveInv, RotationInv, LoopsExist
<1>5. QueueInv' /\ StateInv' /\ LifeInv' /\ FairRotation'
  BY <1>2, QuietStep DEF Dying
<1>6. QED  BY <1>1, <1>2, <1>3, <1>4, <1>5

\* The destructor removes a connection from the map, and closes it or has it
\* closed in its loop.
LEMMA DestroyConnectionKeeps ==
  ASSUME ServerInv, NEW d \in Conns, DestroyConnection(d)
  PROVE  ServerInv'
<1> USE PoolAssumption, ServerAssumption
    DEF ServerInv, DestroyConnection, Fail, Calling, loopVars, poolVars, callVars,
        serverVars, netVars, Base, Loops, IoThreads
<1>1. /\ d \in 1..accepted /\ loop_of[d] \in Loops /\ ~Stopping
      /\ pc[loop_of[d]] \notin {"none", "created", "ended"}
      /\ call = "connections" /\ pc[Base] \in {"idle", "run"} /\ active[Base] = {}
  BY LoopThere DEF BaseInv, IdleInv
<1>2. LifeOf(d)
  BY <1>1 DEF LifeInv
<1>3. "established" \in Ops /\ "destroyed" \in Ops /\ "remove" \in Ops
  BY DEF Ops
<1>4. Dying /\ Dying'
  BY <1>1 DEF Dying
<1>5. 1..accepted \subseteq Conns
  BY DEF TypeOK, Conns
<1>6. BaseInv' /\ BornInv' /\ EndInv' /\ IdleInv' /\ StartInv'
  BY <1>1 DEF BaseInv, BornInv, EndInv, IdleInv, StartInv, Stopping
<1>7. RotationInv' /\ FairRotation'
  BY DEF RotationInv, FairRotation
<1>11. CASE loop_of[d] = Base /\ state[d] = "kDisconnecting"
  <2>1. /\ failed' = "Channel::remove" /\ connections' = connections
        /\ UNCHANGED <<connVars, pending>>
    BY <1>11 DEF connectDestroyed
  <2>2. d \in registered
    BY <1>11 DEF StateInv
  <2>3. AssertionsHold' /\ failed' \in Failures
    BY <1>4, <1>11, <2>1, <2>2 DEF AssertionsHold, Failures, connVars
  <2>4. QED  BY <2>1, <2>3, AbortKeeps DEF mapVars
<1>8. CASE loop_of[d] = Base /\ state[d] # "kDisconnecting"
  <2>1. d \in registered /\ state[d] \in {"kConnected", "kDisconnected"}
        /\ ~Left(Base, "established", d) /\ ~Left(Base, "destroyed", d)
    BY <1>1, <1>2, <1>8 DEF LifeOf, StateInv
  <2>2. /\ UNCHANGED <<failed, pending, tmp, ran, pc>>
        /\ registered' = registered \ {d} /\ connections' = connections \ {d}
        /\ state'[d] = "kDisconnected"
        /\ \A c \in Conns : c # d => state'[c] = state[c]
    BY <1>8, <2>1 DEF connectDestroyed, TypeOK
  <2>3. OrderInv' /\ SameLeft
    BY <2>2, SameQueues
  <2>4. TypeOK'
    <3>1. /\ state' \in [Conns -> States]
          /\ downs' \in [Conns -> Nat] /\ ups' = ups
      <4>1. /\ state \in [Conns -> States]
            /\ downs \in [Conns -> Nat]
        BY DEF TypeOK
      <4>2. CASE state[d] = "kConnected"
        BY ONLY <1>8, <2>1, <4>1, <4>2, DestroyConnection(d)
        DEF DestroyConnection, connectDestroyed, States
      <4>3. CASE state[d] # "kConnected"
        BY ONLY <1>8, <2>1, <4>1, <4>3, DestroyConnection(d)
        DEF DestroyConnection, connectDestroyed, States
      <4>4. QED  BY <4>2, <4>3
    <3>2. connections' \subseteq 1..accepted' /\ registered' \subseteq 1..accepted'
      BY <2>2 DEF TypeOK
    <3>3. QED  BY <2>2, <3>1, <3>2 DEF TypeOK
  <2>5. ActiveInv'
    <3>1. \A l \in Loops : d \notin active[l]
      BY <1>1, <1>8 DEF ActiveInv
    <3>2. UNCHANGED <<active, loop_of, accepted, arrived, server>> /\ ActiveInv
      OBVIOUS
    <3>3. QED  BY ONLY <2>2, <3>1, <3>2 DEF ActiveInv
  <2>6. QueueInv'
    BY <2>3 DEF QueueInv
  <2>7. StateInv'
    <3>1. ups' = ups /\ downs'[d] = 1 /\ ups[d] = 1
          /\ \A c \in Conns : c # d => downs'[c] = downs[c]
      BY <1>8, <2>1 DEF connectDestroyed, StateInv, TypeOK
    <3>2. StateInv /\ accepted' = accepted /\ d <= accepted
      BY <1>1 DEF TypeOK
    <3>3. QED  BY ONLY <2>1, <2>2, <3>1, <3>2 DEF StateInv
  <2>8. ASSUME NEW c \in 1..accepted PROVE LifeOf(c)'
    <3>1. CASE c = d
      BY <1>1, <1>2, <1>3, <1>4, <1>8, <2>1, <2>2, <2>3, <3>1 DEF LifeOf
    <3>2. CASE c # d
      BY <1>4, <1>5, <2>2, <2>3, <3>2, LivesOn
    <3>3. QED  BY <3>1, <3>2
  <2>9. LoopsExist' /\ AssertionsHold'
    BY <2>2 DEF LoopsExist, AssertionsHold
  <2>10. QED  BY <1>6, <1>7, <2>3, <2>4, <2>5, <2>6, <2>7, <2>8, <2>9 DEF LifeInv
<1>9. CASE loop_of[d] # Base
  <2>1. /\ Queue(loop_of[d], Functor("destroyed", d))
        /\ connections' = connections \ {d}
        /\ failed' = "none"
        /\ UNCHANGED <<failed, tmp, ran, pc, connVars>>
    BY <1>9
  <2>2. ~Left(loop_of[d], "destroyed", d)
    BY <1>2 DEF LifeOf
  <2>3. /\ OrderInv'
        /\ pending' \in [Loops -> Seq(Functors)]
        /\ \A l \in Loops : l # loop_of[d] => pending'[l] = pending[l]
        /\ \A l \in Loops, o \in Ops, c \in Conns :
             Left(l, o, c)' <=> Left(l, o, c) \/ (l = loop_of[d] /\ o = "destroyed" /\ c = d)
    BY <1>1, <1>3, <2>1, <2>2, QueueStep
  <2>4. TypeOK'
    BY <2>1, <2>3 DEF TypeOK, connVars
  <2>5. ActiveInv' /\ StateInv' /\ AssertionsHold'
    <3>1. ActiveInv' /\ StateInv'
      BY <2>1 DEF ActiveInv, StateInv, connVars
    <3>2. AssertionsHold'
      BY ONLY <2>1 DEF AssertionsHold
    <3>3. QED  BY <3>1, <3>2
  <2>6. QueueInv'
    <3>1. QueueInv /\ UNCHANGED <<loop_of, accepted>> /\ d <= accepted
      BY <1>1 DEF TypeOK
    <3>2. QED  BY ONLY <1>1, <2>3, <3>1 DEF QueueInv, Base
  <2>7. ASSUME NEW c \in 1..accepted PROVE LifeOf(c)'
    <3>1. CASE c = d
      BY <1>1, <1>2, <1>3, <1>4, <2>1, <2>3, <3>1 DEF LifeOf, connVars
    <3>2. CASE c # d
      BY <1>4, <1>5, <2>1, <2>3, <3>2, LivesOn DEF connVars
    <3>3. QED  BY <3>1, <3>2
  <2>8. LoopsExist'
    BY <1>1, <2>1, <2>3 DEF LoopsExist
  <2>9. QED  BY <1>6, <1>7, <2>3, <2>4, <2>5, <2>6, <2>7, <2>8 DEF LifeInv
<1>10. QED  BY <1>8, <1>9, <1>11

\* The round robin does not come back to a loop before its turn.
LEMMA Window ==
  ASSUME NEW N \in Nat, NEW n \in Nat, n < N, NEW m \in Int, 0 < m, m < N
  PROVE  (IF n > m THEN n - m ELSE n - m + N) # (IF n > 0 THEN n ELSE n + N)
OBVIOUS

\* A connection is accepted, and its loop chosen.
LEMMA newConnectionKeeps ==
  ASSUME ServerInv, newConnection
  PROVE  ServerInv'
<1> DEFINE d == accepted + 1
           k == NextLoop
<1> USE PoolAssumption, ServerAssumption
    DEF ServerInv, At, RunsIn, loopVars, poolVars, callVars,
        serverVars, netVars, Base, Loops, IoThreads
<1>1. /\ At(Base, "dispatch") /\ Acceptor \in active[Base]
      /\ active' = [active EXCEPT ![Base] = @ \ {Acceptor}]
      /\ accepted' = d
      /\ AdvanceNext
      /\ connections' = connections \cup {d}
      /\ loop_of' = [loop_of EXCEPT ![d] = k]
      /\ UNCHANGED <<pc, quit, tmp, ran, pool_started, loops, callVars, failed,
                 serverVars, downs, netVars>>
  BY DEF newConnection
<1>2. /\ call = "none" /\ ~Stopping /\ server = "alive" /\ accepted < arrived
      /\ started /\ loops = NumThreads
      /\ pc[Base] = "dispatch"
  BY <1>1 DEF ActiveInv, StartInv, Stopping
<1>3. accepted \in Nat /\ arrived \in Nat /\ arrived <= MaxConns
  BY DEF TypeOK
<1>4. /\ d \in Conns /\ d \notin 1..accepted /\ 1..accepted \subseteq Conns
      /\ 1..d = 1..accepted \cup {d}
      /\ \A c \in Conns : c <= accepted => c \in 1..accepted
      /\ accepted \in Nat /\ arrived \in Nat
  BY <1>2, <1>3 DEF Conns
<1>5. k \in Loops /\ k <= loops /\ k = (IF NumThreads = 0 THEN Base ELSE next + 1)
  BY <1>2 DEF NextLoop, TypeOK
<1>6. /\ loop_of'[d] = k /\ loop_of' \in [Conns -> Loops]
      /\ \A c \in Conns : c # d => loop_of'[c] = loop_of[c]
  BY <1>1, <1>4, <1>5 DEF TypeOK
<1>7. /\ \A l \in Loops, op \in Ops : ~Left(l, op, d)
      /\ state[d] = "none" /\ d \notin registered
      /\ ups[d] = 0 /\ downs[d] = 0
  BY <1>4 DEF QueueInv, StateInv, TypeOK
<1>8. "established" \in Ops /\ "destroyed" \in Ops /\ "remove" \in Ops
  BY DEF Ops
<1>9. pc[k] \notin {"none", "created", "ended"}
  BY <1>2, <1>5, LoopThere
<1> HIDE DEF k, d
<1>10. BaseInv' /\ BornInv' /\ EndInv'
  BY <1>1, <1>2 DEF BaseInv, BornInv, EndInv, Stopping
<1>11. IdleInv' /\ StartInv'
  <2>1. \A l \in Loops : active'[l] \subseteq active[l]
    BY <1>1 DEF TypeOK
  <2>2. IdleInv'
    BY <1>1, <2>1 DEF IdleInv
  <2>3. StartInv'
    BY <1>1, <1>2 DEF StartInv
  <2>4. QED  BY <2>2, <2>3
<1>12. next' \in Nat /\ (IF loops' = 0 THEN next' = 0 ELSE next' < loops')
  BY <1>1, <1>2 DEF AdvanceNext, TypeOK
<1>13. RotationInv'
  <2>1. \A c \in 1..accepted : loop_of'[c] = loop_of[c] /\ loop_of[c] \in Nat
    <3>1. loop_of \in [Conns -> 0..NumThreads]
      BY DEF TypeOK
    <3>2. QED  BY ONLY PoolAssumption, <1>4, <1>6, <3>1
  <2>2. \A c \in 1..d : loop_of'[c] <= loops'
    BY <1>1, <1>4, <1>5, <1>6, <2>1 DEF RotationInv
  <2>3. ASSUME NEW c \in 1..d, d - c < NumThreads
        PROVE  loop_of'[c] = IF next' > d - c THEN next' - (d - c)
                                              ELSE next' - (d - c) + NumThreads
    <3>1. CASE c = d
      <4>1. next \in Nat /\ 0 < NumThreads /\ next < NumThreads /\ d - d = 0 /\ d \in Int
        BY <1>2, <1>3, <2>3, <3>1 DEF TypeOK, d
      <4>2. next' = IF next + 1 >= NumThreads THEN 0 ELSE next + 1
        BY <1>1, <1>2, <4>1 DEF AdvanceNext
      <4>3. loop_of'[c] = next + 1
        BY <1>5, <1>6, <3>1, <4>1
      <4>4. QED  BY ONLY PoolAssumption, <3>1, <4>1, <4>2, <4>3
    <3>2. CASE c # d
      <4>1. c \in 1..accepted /\ accepted - c < NumThreads /\ d - c = accepted - c + 1
        BY <1>4, <2>3, <3>2 DEF d
      <4>2. loop_of[c] = IF next > accepted - c THEN next - (accepted - c)
                                               ELSE next - (accepted - c) + NumThreads
        BY <4>1 DEF RotationInv
      <4>3. loop_of'[c] = loop_of[c]
        BY <2>1, <4>1
      <4>4. next \in Nat /\ next < NumThreads
            /\ next' = IF next + 1 >= NumThreads THEN 0 ELSE next + 1
        BY <1>1, <1>2, <1>4, <2>3, <4>1 DEF AdvanceNext, TypeOK
      <4>5. accepted - c \in Int /\ accepted - c >= 0
        BY <1>4, <4>1
      <4>6. QED  BY ONLY PoolAssumption, <2>3, <4>1, <4>2, <4>3, <4>4, <4>5
    <3>3. QED  BY <3>1, <3>2
  <2>4. QED  BY <1>1, <2>2, <2>3 DEF RotationInv
<1>14. FairRotation'
  <2>1. SUFFICES ASSUME NEW c \in 1..d, NEW e \in 1..d, c < e, e - c < NumThreads
                 PROVE  loop_of'[c] # loop_of'[e]
    BY <1>1 DEF FairRotation
  <2>2. CASE e = d
    <3>1. c \in 1..d /\ e \in 1..d /\ d - c < NumThreads /\ d - c > 0 /\ d - c \in Int
          /\ 0 < NumThreads /\ d - d = 0
      BY <1>4, <2>1, <2>2 DEF d
    <3>2. loop_of'[c] = IF next' > d - c THEN next' - (d - c)
                                         ELSE next' - (d - c) + NumThreads
      BY <1>1, <1>13, <2>1, <3>1 DEF RotationInv
    <3>3. loop_of'[d] = IF next' > 0 THEN next' ELSE next' + NumThreads
      BY <1>1, <1>12, <1>13, <2>2, <3>1 DEF RotationInv
    <3>4. next' \in Nat /\ next' < NumThreads
      BY <1>1, <1>2, <1>12, <3>1
    <3>5. QED  BY ONLY PoolAssumption, Window, <2>2, <3>1, <3>2, <3>3, <3>4
  <2>3. CASE e # d
    BY <1>4, <1>6, <2>1, <2>3 DEF FairRotation, d
  <2>4. QED  BY <2>2, <2>3
<1>15. ActiveInv'
  <2>1. ASSUME NEW l \in Loops, NEW c \in active'[l] \cap Conns
        PROVE  loop_of'[c] = l /\ Open(c)'
    <3>1. c \in active[l] /\ loop_of[c] = l /\ Open(c)
      BY <1>1, <2>1 DEF ActiveInv, TypeOK
    <3>2. c # d
      BY <1>7, <3>1
    <3>3. state'[c] = state[c]
      BY <1>1, <2>1, <3>2 DEF newConnection, TypeOK, d
    <3>4. QED  BY <1>6, <2>1, <3>1, <3>2, <3>3
  <2>2. \A l \in Loops : Acceptor \notin active'[l]
    BY <1>1 DEF ActiveInv, TypeOK
  <2>3. QED  BY <2>1, <2>2 DEF ActiveInv
<1>16. /\ accepted' \in 0..arrived' /\ connections' \subseteq 1..accepted'
       /\ active' \in [Loops -> SUBSET (Conns \cup {Acceptor})]
       /\ registered \subseteq 1..accepted'
  <2>1. accepted' \in 0..arrived'
    BY <1>1, <1>2, <1>3 DEF d
  <2>2. connections' \subseteq 1..accepted' /\ registered \subseteq 1..accepted'
    BY <1>1, <1>4 DEF TypeOK
  <2>3. active' \in [Loops -> SUBSET (Conns \cup {Acceptor})]
    BY <1>1 DEF TypeOK
  <2>4. QED  BY <2>1, <2>2, <2>3
<1>17. CASE k = Base
  <2>1. /\ state' = [state EXCEPT ![d] = "kConnected"]
        /\ registered' = registered \cup {d}
        /\ ups' = [ups EXCEPT ![d] = @ + 1]
        /\ UNCHANGED pending
    BY <1>17 DEF newConnection, k, d
  <2>2. OrderInv' /\ SameLeft
    BY <1>1, <2>1, SameQueues
  <2>3. TypeOK'
    <3>1. /\ state' \in [Conns -> States]
          /\ ups' \in [Conns -> Nat]
      <4>1. /\ state \in [Conns -> States]
            /\ ups \in [Conns -> Nat]
        BY DEF TypeOK
      <4>2. state' \in [Conns -> States]
        BY ONLY <1>4, <2>1, <4>1 DEF States
      <4>3. ups' \in [Conns -> Nat]
        BY ONLY <1>4, <1>7, <2>1, <4>1
      <4>4. QED  BY <4>2, <4>3
    <3>2. registered' \subseteq 1..accepted'
      BY <1>1, <1>4, <1>16, <2>1
    <3>3. QED  BY <1>1, <1>6, <1>12, <1>16, <2>1, <3>1, <3>2 DEF TypeOK
  <2>4. QueueInv'
    BY <1>1, <1>4, <1>6, <1>7, <2>2 DEF QueueInv
  <2>5. StateInv'
    <3>1. \A c \in Conns : c <= d <=> c <= accepted \/ c = d
      BY <1>4 DEF Conns, d
    <3>2. /\ state'[d] = "kConnected"
          /\ ups'[d] = 1 /\ downs' = downs
          /\ \A c \in Conns : c # d => state'[c] = state[c] /\ ups'[c] = ups[c]
          /\ registered' \subseteq registered \cup {d} /\ registered \subseteq registered'
      BY <1>1, <1>4, <1>7, <2>1 DEF TypeOK
    <3>3. QED
      BY ONLY ServerInv, <1>1, <1>4, <1>7, <3>1, <3>2
      DEF ServerInv, StateInv, Open
  <2>6. ASSUME NEW c \in 1..d PROVE LifeOf(c)'
    <3>1. CASE c = d
      BY <1>1, <1>4, <1>6, <1>7, <1>8, <1>17, <2>1, <2>2, <3>1 DEF LifeOf, TypeOK
    <3>2. CASE c # d
      <4>1. c \in 1..accepted /\ c \in Conns
        BY <1>4, <3>2
      <4>2. Dying => Dying'
        BY <1>1 DEF Dying
      <4>3. state'[c] = state[c] /\ loop_of'[c] = loop_of[c]
        BY <1>6, <2>1, <3>2, <4>1 DEF TypeOK
      <4>4. QED  BY <1>1, <2>1, <2>2, <3>2, <4>1, <4>2, <4>3, LivesOn
    <3>3. QED  BY <3>1, <3>2
  <2>7. LoopsExist' /\ AssertionsHold'
    BY <1>1, <2>1 DEF LoopsExist, AssertionsHold
  <2>8. QED
    BY <1>1, <1>10, <1>11, <1>13, <1>14, <1>15, <2>2, <2>3, <2>4, <2>5, <2>6, <2>7 DEF LifeInv
<1>18. CASE k # Base
  <2>1. /\ state' = [state EXCEPT ![d] = "kConnecting"]
        /\ Queue(k, Functor("established", d))
        /\ UNCHANGED <<registered, ups, tmp, ran>>
    BY <1>18 DEF newConnection, k, d
  <2>2. /\ OrderInv'
        /\ pending' \in [Loops -> Seq(Functors)]
        /\ \A l \in Loops : l # k => pending'[l] = pending[l]
        /\ \A l \in Loops, o \in Ops, c \in Conns :
             Left(l, o, c)' <=> Left(l, o, c) \/ (l = k /\ o = "established" /\ c = d)
    BY <1>4, <1>5, <1>7, <1>8, <2>1, QueueStep
  <2>3. TypeOK'
    <3>1. state' \in [Conns -> States]
      BY <2>1 DEF TypeOK
    <3>2. QED  BY <1>1, <1>6, <1>12, <1>16, <2>1, <2>2, <3>1 DEF TypeOK
  <2>4. QueueInv'
    BY <1>1, <1>4, <1>6, <1>7, <2>2 DEF QueueInv
  <2>5. StateInv'
    <3>1. \A c \in Conns : c <= d <=> c <= accepted \/ c = d
      BY <1>4 DEF Conns, d
    <3>2. /\ state'[d] = "kConnecting"
          /\ ups'[d] = 0 /\ downs' = downs
          /\ \A c \in Conns : c # d => state'[c] = state[c] /\ ups'[c] = ups[c]
          /\ registered' = registered /\ d \notin registered'
      BY <1>1, <1>4, <1>7, <2>1 DEF TypeOK
    <3>3. QED
      BY ONLY ServerInv, <1>1, <1>4, <1>7, <3>1, <3>2
      DEF ServerInv, StateInv, Open
  <2>6. ASSUME NEW c \in 1..d PROVE LifeOf(c)'
    <3>1. CASE c = d
      BY <1>1, <1>4, <1>6, <1>7, <1>8, <1>18, <2>1, <2>2, <3>1 DEF LifeOf, TypeOK
    <3>2. CASE c # d
      <4>1. c \in 1..accepted /\ c \in Conns
        BY <1>4, <3>2
      <4>2. Dying => Dying'
        BY <1>1 DEF Dying
      <4>3. state'[c] = state[c] /\ loop_of'[c] = loop_of[c]
        BY <1>6, <2>1, <3>2, <4>1 DEF TypeOK
      <4>4. QED  BY <1>1, <2>1, <2>2, <3>2, <4>1, <4>2, <4>3, LivesOn
    <3>3. QED  BY <3>1, <3>2
  <2>7. LoopsExist' /\ AssertionsHold'
    BY <1>1, <1>5, <1>9, <2>2 DEF LoopsExist, AssertionsHold
  <2>8. QED
    BY <1>1, <1>10, <1>11, <1>13, <1>14, <1>15, <2>2, <2>3, <2>4, <2>5, <2>6, <2>7 DEF LifeInv
<1>19. QED  BY <1>17, <1>18

\* A connection is closed by its peer.
LEMMA handleCloseKeeps ==
  ASSUME ServerInv, NEW k \in Loops, NEW d \in Conns, handleClose(k, d)
  PROVE  ServerInv'
<1> USE PoolAssumption, ServerAssumption
    DEF ServerInv, At, RunsIn, loopVars, poolVars, callVars,
        serverVars, netVars, Base, Loops, IoThreads
<1>1. /\ At(k, "dispatch") /\ d \in active[k]
      /\ active' = [active EXCEPT ![k] = @ \ {d}]
      /\ UNCHANGED <<pc, quit, tmp, ran, poolVars, callVars, serverVars, accepted,
                     loop_of, netVars>>
  BY DEF handleClose
<1>2. loop_of[d] = k /\ Open(d) /\ d \in 1..accepted
  BY <1>1 DEF ActiveInv, StateInv, TypeOK, Conns
<1>3. LifeOf(d) /\ 1..accepted \subseteq Conns
  BY <1>2 DEF LifeInv, TypeOK, Conns
<1>4. "established" \in Ops /\ "destroyed" \in Ops /\ "remove" \in Ops
  BY DEF Ops
<1>5. ~Left(k, "established", d) /\ ~Left(Base, "remove", d)
  BY <1>2, <1>3 DEF LifeOf
<1>6. /\ state' = [state EXCEPT ![d] = "kDisconnected"]
      /\ downs' = [downs EXCEPT ![d] = @ + 1]
      /\ UNCHANGED ups
  BY <1>2 DEF handleClose
<1>7. /\ state'[d] = "kDisconnected" /\ downs'[d] = 1 /\ ups[d] = 1
      /\ \A c \in Conns : c # d => state'[c] = state[c] /\ downs'[c] = downs[c]
      /\ state' \in [Conns -> States]
      /\ downs' \in [Conns -> Nat]
  <2>1. /\ state \in [Conns -> States]
        /\ downs \in [Conns -> Nat]
        /\ ups[d] = 1 /\ downs[d] = 0
    BY <1>2 DEF TypeOK, StateInv
  <2>2. state' \in [Conns -> States]
    BY <1>6, <2>1
  <2>3. downs' \in [Conns -> Nat]
    BY <1>6, <2>1
  <2>4. QED  BY <1>6, <2>1, <2>2, <2>3
<1>8. /\ \A l \in Loops : active'[l] \subseteq active[l]
      /\ d \notin active'[k]
      /\ active' \in [Loops -> SUBSET (Conns \cup {Acceptor})]
  BY <1>1 DEF TypeOK
<1>9. BaseInv' /\ BornInv' /\ IdleInv' /\ StartInv'
  <2>1. IdleInv'
    BY <1>1, <1>8 DEF IdleInv
  <2>2. StartInv'
    BY <1>1, <1>8 DEF StartInv
  <2>3. QED  BY <1>1, <2>1, <2>2 DEF BaseInv, BornInv
<1>10. RotationInv' /\ FairRotation'
  BY <1>1 DEF RotationInv, FairRotation
<1>11. ActiveInv'
  BY <1>1, <1>2, <1>7, <1>8 DEF ActiveInv
<1>12. Dying <=> Dying'
  BY <1>1 DEF Dying
<1>13. SUFFICES
         /\ TypeOK' /\ EndInv' /\ QueueInv' /\ OrderInv' /\ StateInv' /\ LifeInv'
         /\ LoopsExist' /\ AssertionsHold'
  BY <1>9, <1>10, <1>11
<1>14. ASSUME registered' = registered, connections' \subseteq connections
       PROVE  StateInv' /\ EndInv'
  <2>1. StateInv'
    BY <1>1, <1>2, <1>6, <1>7, <1>14 DEF StateInv
  <2>2. EndInv'
    BY <1>1, <1>14 DEF EndInv, Stopping
  <2>3. QED  BY <2>1, <2>2
<1>15. CASE k # Base
  <2>1. /\ Queue(Base, Functor("remove", d))
        /\ UNCHANGED <<connections, registered, failed>>
    BY <1>2, <1>15 DEF handleClose
  <2>2. /\ OrderInv'
        /\ pending' \in [Loops -> Seq(Functors)]
        /\ \A l \in Loops : l # Base => pending'[l] = pending[l]
        /\ \A l \in Loops, o \in Ops, c \in Conns :
             Left(l, o, c)' <=> Left(l, o, c) \/ (l = Base /\ o = "remove" /\ c = d)
    BY <1>1, <1>4, <1>5, <2>1, QueueStep
  <2>3. TypeOK'
    BY <1>1, <1>6, <1>7, <1>8, <2>1, <2>2 DEF TypeOK
  <2>4. QueueInv'
    <3>1. QueueInv /\ d <= accepted
      BY <1>2 DEF TypeOK
    <3>2. QED  BY ONLY <1>1, <2>2, <3>1 DEF QueueInv, mapVars, Base
  <2>5. ASSUME NEW c \in 1..accepted PROVE LifeOf(c)'
    <3>1. CASE c = d
      BY <1>1, <1>2, <1>3, <1>4, <1>5, <1>7, <1>12, <2>1, <2>2, <3>1 DEF LifeOf
    <3>2. CASE c # d
      BY <1>1, <1>3, <1>7, <1>12, <2>1, <2>2, <3>2, LivesOn
    <3>3. QED  BY <3>1, <3>2
  <2>6. LoopsExist' /\ AssertionsHold'
    BY <1>1, <2>1, <2>2, LoopThere DEF LoopsExist, AssertionsHold
  <2>7. QED  BY <1>1, <1>14, <2>1, <2>2, <2>3, <2>4, <2>5, <2>6 DEF LifeInv
<1>16. CASE k = Base /\ server = "gone"
  <2>1. /\ failed' = "TcpServer freed"
        /\ UNCHANGED <<connections, registered, pending>>
    BY <1>2, <1>16 DEF handleClose, removeConnectionInLoop, Fail
  <2>2. OrderInv' /\ SameLeft
    BY <1>1, <2>1, SameQueues
  <2>3. TypeOK'
    BY <1>1, <1>6, <1>7, <1>8, <2>1 DEF TypeOK, Failures
  <2>4. QueueInv'
    BY <1>1, <2>2 DEF QueueInv
  <2>5. ASSUME NEW c \in 1..accepted PROVE LifeOf(c)'
    <3>1. CASE c = d
      BY <1>1, <1>2, <1>3, <1>4, <1>5, <1>7, <1>12, <2>1, <2>2, <3>1 DEF LifeOf
    <3>2. CASE c # d
      BY <1>1, <1>3, <1>7, <1>12, <2>1, <2>2, <3>2, LivesOn
    <3>3. QED  BY <3>1, <3>2
  <2>6. LoopsExist' /\ AssertionsHold'
    BY <1>1, <2>1 DEF LoopsExist, AssertionsHold
  <2>7. QED  BY <1>1, <1>14, <2>1, <2>2, <2>3, <2>4, <2>5, <2>6 DEF LifeInv
<1>17. CASE k = Base /\ server # "gone"
  <2>1. d \in connections
    BY <1>1, <1>2, <1>3, <1>17 DEF LifeOf, Dying
  <2>2. /\ Queue(Base, Functor("destroyed", d))
        /\ connections' = connections \ {d}
        /\ UNCHANGED <<registered, failed>>
    BY <1>2, <1>17, <2>1 DEF handleClose, removeConnectionInLoop
  <2>3. ~Left(Base, "destroyed", d)
    BY <1>2, <1>3, <1>17, <2>1 DEF LifeOf
  <2>4. /\ OrderInv'
        /\ pending' \in [Loops -> Seq(Functors)]
        /\ \A l \in Loops : l # Base => pending'[l] = pending[l]
        /\ \A l \in Loops, o \in Ops, c \in Conns :
             Left(l, o, c)' <=> Left(l, o, c) \/ (l = Base /\ o = "destroyed" /\ c = d)
    BY <1>1, <1>4, <2>2, <2>3, QueueStep
  <2>5. TypeOK'
    BY <1>1, <1>6, <1>7, <1>8, <2>2, <2>4 DEF TypeOK
  <2>6. QueueInv'
    <3>1. QueueInv /\ d <= accepted
      BY <1>2 DEF TypeOK
    <3>2. QED  BY ONLY <1>1, <1>2, <1>17, <2>4, <3>1 DEF QueueInv, mapVars, Base
  <2>7. ASSUME NEW c \in 1..accepted PROVE LifeOf(c)'
    <3>1. CASE c = d
      BY <1>1, <1>2, <1>3, <1>4, <1>5, <1>7, <1>17, <2>1, <2>2, <2>4, <3>1 DEF LifeOf
    <3>2. CASE c # d
      BY <1>1, <1>3, <1>7, <1>12, <2>2, <2>4, <3>2, LivesOn
    <3>3. QED  BY <3>1, <3>2
  <2>8. LoopsExist' /\ AssertionsHold'
    BY <1>1, <2>2, <2>4, LoopThere DEF LoopsExist, AssertionsHold
  <2>9. QED  BY <1>1, <1>14, <2>2, <2>4, <2>5, <2>6, <2>7, <2>8 DEF LifeInv
<1>18. QED  BY <1>15, <1>16, <1>17

\* The loop runs the first functor that is left of its round.
RunsFirst(k, op, d) ==
  /\ ran[k] < Len(tmp[k])
  /\ tmp[k][ran[k] + 1] = Functor(op, d)
  /\ ran' = [ran EXCEPT ![k] = @ + 1]
  /\ UNCHANGED tmp

\* What is left then, before anything is queued.
LEMMA RunStep ==
  ASSUME ServerInv, NEW k \in Loops, NEW op \in Ops, NEW d \in Conns,
         RunsFirst(k, op, d)
  PROVE  /\ Left(k, op, d)
         /\ op = "destroyed" => ~Left(k, "established", d)
         /\ ran' \in [Loops -> Nat]
         /\ \A l \in Loops :
              /\ ran'[l] <= Len(tmp'[l])
              /\ InOrderIn(pending[l], tmp[l], ran'[l])
              /\ \A o \in Ops, c \in Conns :
                   LeftIn(pending[l], tmp[l], ran'[l], o, c) <=>
                     Left(l, o, c) /\ ~(l = k /\ o = op /\ c = d)
<1> USE DEF RunsFirst
<1>1. /\ \A l \in Loops : /\ pending[l] \in Seq(Functors)
                          /\ tmp[l] \in Seq(Functors) /\ Len(tmp[l]) \in Nat
                          /\ ran[l] \in Nat /\ ran[l] <= Len(tmp[l])
                          /\ InOrderIn(pending[l], tmp[l], ran[l])
      /\ pending \in [Loops -> Seq(Functors)]
      /\ ran \in [Loops -> Nat]
  BY LenProperties DEF ServerInv, TypeOK, OrderInv
<1>2. /\ ran'[k] = ran[k] + 1
      /\ \A l \in Loops : l # k => ran'[l] = ran[l]
      /\ ran' \in [Loops -> Nat]
      /\ \A l \in Loops : ran'[l] <= Len(tmp'[l])
  BY <1>1
<1> DEFINE f == tmp[k][ran[k] + 1]
<1>3. f.op = op /\ f.conn = d
      /\ \A o \in Ops, c \in Conns : Is(f, o, c) <=> o = op /\ c = d
  BY FunctorType DEF Is
<1>4. /\ LeftIn(pending[k], tmp[k], ran[k], op, d)
      /\ InOrderIn(pending[k], tmp[k], ran[k] + 1)
      /\ op = "destroyed" => ~LeftIn(pending[k], tmp[k], ran[k], "established", d)
      /\ \A o \in Ops, c \in Conns :
           LeftIn(pending[k], tmp[k], ran[k] + 1, o, c) <=>
             LeftIn(pending[k], tmp[k], ran[k], o, c) /\ ~(o = op /\ c = d)
  <2>1. /\ LeftIn(pending[k], tmp[k], ran[k], f.op, f.conn)
        /\ InOrderIn(pending[k], tmp[k], ran[k] + 1)
        /\ f.op = "destroyed" => ~LeftIn(pending[k], tmp[k], ran[k], "established", f.conn)
        /\ \A o \in Ops, c \in Conns :
             LeftIn(pending[k], tmp[k], ran[k] + 1, o, c) <=>
               LeftIn(pending[k], tmp[k], ran[k], o, c) /\ ~Is(f, o, c)
    BY <1>1, RunFirst
  <2>2. QED  BY <1>3, <2>1
<1> HIDE DEF f
<1>5. ASSUME NEW l \in Loops
      PROVE  /\ InOrderIn(pending[l], tmp[l], ran'[l])
             /\ \A o \in Ops, c \in Conns :
                  LeftIn(pending[l], tmp[l], ran'[l], o, c) <=>
                    Left(l, o, c) /\ ~(l = k /\ o = op /\ c = d)
  <2>1. CASE l = k
    BY <1>2, <1>4, <2>1 DEF Left
  <2>2. CASE l # k
    BY <1>1, <1>2, <2>2 DEF Left
  <2>3. QED  BY <2>1, <2>2
<1>6. QED  BY <1>2, <1>4, <1>5 DEF Left

\* The functor queues nothing.
LEMMA RunOnly ==
  ASSUME ServerInv, NEW k \in Loops, NEW op \in Ops, NEW d \in Conns,
         RunsFirst(k, op, d),
         UNCHANGED pending
  PROVE  /\ OrderInv'
         /\ \A l \in Loops, o \in Ops, c \in Conns :
              Left(l, o, c)' <=> Left(l, o, c) /\ ~(l = k /\ o = op /\ c = d)
<1>1. ASSUME NEW l \in Loops
      PROVE  /\ InOrderIn(pending[l], tmp[l], ran'[l])
             /\ \A o \in Ops, c \in Conns :
                  LeftIn(pending[l], tmp[l], ran'[l], o, c) <=>
                    Left(l, o, c) /\ ~(l = k /\ o = op /\ c = d)
  BY RunStep
<1>2. OrderInv'
  BY <1>1 DEF OrderInv, RunsFirst
<1>3. ASSUME NEW l \in Loops, NEW o \in Ops, NEW c \in Conns
      PROVE  Left(l, o, c)' <=> Left(l, o, c) /\ ~(l = k /\ o = op /\ c = d)
  <2>1. Left(l, o, c)' <=> LeftIn(pending[l], tmp[l], ran'[l], o, c)
    BY DEF Left, RunsFirst
  <2>2. QED  BY <1>1, <2>1
<1>4. QED  BY <1>2, <1>3

\* The functor queues the destruction of the connection.
LEMMA RunAndQueue ==
  ASSUME ServerInv, NEW k \in Loops, NEW op \in Ops, NEW d \in Conns,
         RunsFirst(k, op, d),
         NEW j \in Loops, Queue(j, Functor("destroyed", d)), ~Left(j, "destroyed", d)
  PROVE  /\ OrderInv'
         /\ pending' \in [Loops -> Seq(Functors)]
         /\ \A l \in Loops : l # j => pending'[l] = pending[l]
         /\ \A l \in Loops, o \in Ops, c \in Conns :
              Left(l, o, c)' <=>
                \/ Left(l, o, c) /\ ~(l = k /\ o = op /\ c = d)
                \/ l = j /\ o = "destroyed" /\ c = d
<1>1. /\ pending[j] \in Seq(Functors) /\ tmp[j] \in Seq(Functors)
       /\ pending \in [Loops -> Seq(Functors)]
  BY DEF ServerInv, TypeOK
<1>2. /\ ran' \in [Loops -> Nat]
       /\ \A l \in Loops :
            /\ InOrderIn(pending[l], tmp[l], ran'[l])
            /\ \A o \in Ops, c \in Conns :
                 LeftIn(pending[l], tmp[l], ran'[l], o, c) <=>
                   Left(l, o, c) /\ ~(l = k /\ o = op /\ c = d)
  BY RunStep
<1> USE DEF RunsFirst
<1> DEFINE g == Functor("destroyed", d)
<1>3. /\ g \in Functors /\ g.op = "destroyed" /\ g.conn = d
      /\ \A o \in Ops, c \in Conns : Is(g, o, c) <=> o = "destroyed" /\ c = d
  BY FunctorType DEF Is, Ops
<1> HIDE DEF g
<1>4. pending'[j] = Append(pending[j], g)
      /\ \A l \in Loops : l # j => pending'[l] = pending[l]
  BY <1>1 DEF Queue, g
<1>5. /\ Append(pending[j], g) \in Seq(Functors)
      /\ \A o \in Ops, c \in Conns :
           LeftIn(Append(pending[j], g), tmp[j], ran'[j], o, c) <=>
             LeftIn(pending[j], tmp[j], ran'[j], o, c) \/ (o = "destroyed" /\ c = d)
      /\ InOrderIn(Append(pending[j], g), tmp[j], ran'[j])
  <2>1. \A o \in Ops : LeftIn(pending[j], tmp[j], ran'[j], o, g.conn) =>
          o # g.op /\ ~(o = "destroyed" /\ g.op = "established")
    BY <1>2, <1>3
  <2>2. ran'[j] \in Nat /\ InOrderIn(pending[j], tmp[j], ran'[j])
    BY <1>2
  <2>3. /\ Append(pending[j], g) \in Seq(Functors)
        /\ \A o \in Ops, c \in Conns :
             LeftIn(Append(pending[j], g), tmp[j], ran'[j], o, c) <=>
               LeftIn(pending[j], tmp[j], ran'[j], o, c) \/ Is(g, o, c)
        /\ InOrderIn(Append(pending[j], g), tmp[j], ran'[j])
    BY ONLY <1>1, <1>3, <2>1, <2>2, QueueLast
  <2>4. QED  BY ONLY <1>3, <2>3
<1>6. pending' \in [Loops -> Seq(Functors)]
  BY <1>1, <1>5 DEF Queue, g
<1>7. ASSUME NEW l \in Loops
      PROVE  InOrderIn(pending[l], tmp[l], ran[l])'
  <2>1. CASE l = j
    BY <1>4, <1>5, <2>1
  <2>2. CASE l # j
    BY <1>2, <1>4, <2>2
  <2>3. QED  BY <2>1, <2>2
<1>8. ASSUME NEW l \in Loops, NEW o \in Ops, NEW c \in Conns
      PROVE  Left(l, o, c)' <=>
               \/ Left(l, o, c) /\ ~(l = k /\ o = op /\ c = d)
               \/ l = j /\ o = "destroyed" /\ c = d
  <2>1. CASE l = j
    <3>1. Left(j, o, c)' <=> LeftIn(Append(pending[j], g), tmp[j], ran'[j], o, c)
      BY <1>4 DEF Left
    <3>2. QED  BY <1>2, <1>5, <2>1, <3>1
  <2>2. CASE l # j
    <3>1. Left(l, o, c)' <=> LeftIn(pending[l], tmp[l], ran'[l], o, c)
      BY <1>4, <2>2 DEF Left
    <3>2. QED  BY <1>2, <2>2, <3>1
  <2>3. QED  BY <2>1, <2>2
<1>9. QED  BY <1>4, <1>6, <1>7, <1>8 DEF OrderInv

\* The functor whose turn it is.
LEMMA FunctorsTurn ==
  ASSUME ServerInv, NEW k \in Loops, At(k, "run"), ran[k] < Len(tmp[k]),
         NEW op, NEW d, op = tmp[k][ran[k] + 1].op, d = tmp[k][ran[k] + 1].conn
  PROVE  /\ op \in Ops /\ d \in Conns /\ tmp[k][ran[k] + 1] = Functor(op, d)
         /\ Left(k, op, d)
         /\ op = "destroyed" => ~Left(k, "established", d)
         /\ d \in 1..accepted /\ 1..accepted \subseteq Conns
         /\ k = (IF op = "remove" THEN Base ELSE loop_of[d])
         /\ loop_of[d] \in Loops
         /\ LifeOf(d)
<1> DEFINE f == tmp[k][ran[k] + 1]
<1>1. /\ tmp[k] \in Seq(Functors) /\ pending[k] \in Seq(Functors)
      /\ ran[k] \in Nat /\ Len(tmp[k]) \in Nat
      /\ InOrderIn(pending[k], tmp[k], ran[k])
  BY LenProperties DEF ServerInv, TypeOK, OrderInv
<1>2. /\ f \in Functors
      /\ LeftIn(pending[k], tmp[k], ran[k], f.op, f.conn)
      /\ f.op = "destroyed" => ~LeftIn(pending[k], tmp[k], ran[k], "established", f.conn)
  BY <1>1, RunFirst
<1>3. op \in Ops /\ d \in Conns /\ f = Functor(op, d)
  BY <1>2 DEF Functors, Functor
<1>4. Left(k, op, d) /\ (op = "destroyed" => ~Left(k, "established", d))
  BY <1>2 DEF Left
<1> HIDE DEF f
<1>5. /\ d \in 1..accepted /\ 1..accepted \subseteq Conns
      /\ k = (IF op = "remove" THEN Base ELSE loop_of[d])
      /\ loop_of[d] \in Loops
  <2>1. /\ d <= accepted
        /\ k = (IF op = "remove" THEN Base ELSE loop_of[d])
    BY <1>3, <1>4 DEF ServerInv, QueueInv
  <2>2. /\ accepted \in 0..arrived /\ arrived \in 0..MaxConns
        /\ loop_of \in [Conns -> Loops]
    BY DEF ServerInv, TypeOK
  <2>3. QED  BY ONLY <1>3, <2>1, <2>2, ServerAssumption DEF Conns
<1>6. QED  BY <1>3, <1>4, <1>5 DEF ServerInv, LifeInv, f

\* A functor that ends the program: a removal that finds the server gone, or
\* connectDestroyed of a half-closed connection, in the destructor's last
\* functors.
LEMMA RunFunctorFails ==
  ASSUME ServerInv, NEW k \in Loops, RunFunctor(k), failed' # "none"
  PROVE  ServerInv'
<1> DEFINE op == tmp[k][ran[k] + 1].op
           d == tmp[k][ran[k] + 1].conn
<1>1. /\ At(k, "run") /\ ran[k] < Len(tmp[k]) /\ failed = "none"
      /\ UNCHANGED <<pc, quit, tmp, ran, poolVars, callVars, serverVars, accepted,
                     loop_of, netVars, active>>
      /\ \/ /\ op = "established"
            /\ connectEstablished(d)
            /\ UNCHANGED <<connections, pending>>
         \/ /\ op = "destroyed"
            /\ connectDestroyed(d)
            /\ UNCHANGED <<connections, pending>>
         \/ /\ op = "remove"
            /\ removeConnectionInLoop(d)
            /\ UNCHANGED <<state, ups, downs>>
  BY DEF RunFunctor, At, RunsIn
<1>2. /\ op \in Ops /\ d \in Conns
      /\ Left(k, op, d)
      /\ op = "destroyed" => ~Left(k, "established", d)
      /\ k = (IF op = "remove" THEN Base ELSE loop_of[d])
      /\ LifeOf(d)
  BY <1>1, FunctorsTurn
<1> HIDE DEF op, d
<1>3. call = "none" \/ k # Base
  BY <1>1 DEF At, RunsIn
<1>4. CASE op = "established"
  <2>1. state[d] = "kConnecting"
    BY <1>2, <1>4 DEF LifeOf
  <2>2. QED  BY <1>1, <1>4, <2>1 DEF connectEstablished
<1>5. CASE op = "destroyed"
  <2>1. d \in registered /\ d \notin connections
    BY <1>2, <1>5 DEF LifeOf
  <2>2. state[d] = "kDisconnecting" /\ failed' = "Channel::remove"
        /\ UNCHANGED <<connVars, connections, pending>>
    BY <1>1, <1>5, <2>1 DEF connectDestroyed, Fail
  <2>3. Dying'
    BY <1>1, <1>2, <2>1, <2>2 DEF LifeOf, Dying, callVars, serverVars
  <2>4. AssertionsHold' /\ failed' \in Failures
    BY <1>2, <2>1, <2>2, <2>3 DEF AssertionsHold, Failures, connVars
  <2>5. QED  BY <1>1, <2>2, <2>4, AbortKeeps DEF loopVars, mapVars
<1>6. CASE op = "remove"
  <2>1. d \in connections \/ server = "gone"
    BY <1>2, <1>3, <1>6 DEF LifeOf, Dying
  <2>2. failed' = "TcpServer freed"
        /\ UNCHANGED <<connVars, connections, pending>>
    BY <1>1, <1>6, <2>1 DEF removeConnectionInLoop, Fail, connVars
  <2>3. AssertionsHold' /\ failed' \in Failures
    BY <2>2 DEF AssertionsHold, Failures
  <2>4. QED  BY <1>1, <2>2, <2>3, AbortKeeps DEF loopVars, mapVars
<1>7. QED  BY <1>2, <1>4, <1>5, <1>6 DEF Ops

\* A functor runs: established, destroyed or remove.
LEMMA RunFunctorKeeps ==
  ASSUME ServerInv, NEW k \in Loops, RunFunctor(k), failed' = "none"
  PROVE  ServerInv'
<1> DEFINE f == tmp[k][ran[k] + 1]
           op == f.op
           d == f.conn
<1>1. /\ At(k, "run") /\ ran[k] < Len(tmp[k])
      /\ ran' = [ran EXCEPT ![k] = @ + 1]
      /\ UNCHANGED <<pc, quit, tmp, poolVars, callVars, serverVars, accepted,
                     loop_of, netVars, active>>
      /\ \/ /\ op = "established"
            /\ connectEstablished(d)
            /\ UNCHANGED <<connections, pending>>
         \/ /\ op = "destroyed"
            /\ connectDestroyed(d)
            /\ UNCHANGED <<connections, pending>>
         \/ /\ op = "remove"
            /\ removeConnectionInLoop(d)
            /\ UNCHANGED <<state, ups, downs>>
  BY DEF RunFunctor
<1>3. op \in Ops /\ d \in Conns /\ f = Functor(op, d)
  BY <1>1, FunctorsTurn
<1>4. RunsFirst(k, op, d)
  BY <1>1, <1>3 DEF RunsFirst
<1> HIDE DEF f, op, d
<1>5. /\ Left(k, op, d)
      /\ op = "destroyed" => ~Left(k, "established", d)
      /\ ran' \in [Loops -> Nat]
      /\ \A l \in Loops : ran'[l] <= Len(tmp'[l])
  BY <1>3, <1>4, RunStep
<1>6. UNCHANGED pending =>
         /\ OrderInv'
         /\ \A l \in Loops, o \in Ops, c \in Conns :
              Left(l, o, c)' <=> Left(l, o, c) /\ ~(l = k /\ o = op /\ c = d)
  BY <1>3, <1>4, RunOnly
<1>7. ASSUME NEW j \in Loops, Queue(j, Functor("destroyed", d)), ~Left(j, "destroyed", d)
        PROVE  /\ OrderInv'
               /\ pending' \in [Loops -> Seq(Functors)]
               /\ \A l \in Loops : l # j => pending'[l] = pending[l]
               /\ \A l \in Loops, o \in Ops, c \in Conns :
                    Left(l, o, c)' <=>
                      \/ Left(l, o, c) /\ ~(l = k /\ o = op /\ c = d)
                      \/ l = j /\ o = "destroyed" /\ c = d
  BY <1>3, <1>4, <1>7, RunAndQueue
<1> USE PoolAssumption, ServerAssumption
    DEF ServerInv, loopVars, poolVars, callVars, serverVars, netVars, Base,
        Loops, IoThreads
<1>8. /\ d \in 1..accepted /\ 1..accepted \subseteq Conns
      /\ k = (IF op = "remove" THEN Base ELSE loop_of[d])
      /\ loop_of[d] \in Loops
  BY <1>1, FunctorsTurn DEF f, op, d
<1>9. /\ LifeOf(d)
      /\ state[d] \in States
  BY <1>1, <1>8, FunctorsTurn DEF LifeInv, TypeOK
<1>10. "established" \in Ops /\ "destroyed" \in Ops /\ "remove" \in Ops
  BY DEF Ops
<1>11. active[k] = {} /\ pc[k] = "run" /\ (k = Base => call = "none")
  BY <1>1 DEF IdleInv, At, RunsIn
<1>12. BaseInv' /\ BornInv' /\ StartInv' /\ RotationInv' /\ FairRotation'
  BY <1>1 DEF BaseInv, BornInv, StartInv, RotationInv, FairRotation
<1>13. IdleInv'
  <2>1. \A l \in Loops : pc[l] # "run" => ran'[l] = ran[l]
    BY <1>1, <1>11 DEF TypeOK
  <2>2. QED  BY <1>1, <2>1 DEF IdleInv
<1>14. Dying <=> Dying'
  BY <1>1 DEF Dying
<1>15. connections' \subseteq connections => EndInv'
  BY <1>1 DEF EndInv, Stopping
<1>16. SUFFICES
         /\ TypeOK' /\ EndInv' /\ ActiveInv' /\ QueueInv' /\ OrderInv' /\ StateInv'
         /\ LifeInv' /\ LoopsExist' /\ AssertionsHold'
  BY <1>12, <1>13
<1>17. CASE op = "established"
  <2>1. k = loop_of[d] /\ k # Base /\ state[d] = "kConnecting"
        /\ ~Left(Base, "remove", d)
    BY <1>5, <1>8, <1>9, <1>17 DEF LifeOf
  <2>2. /\ state' = [state EXCEPT ![d] = "kConnected"]
        /\ registered' = registered \cup {d}
        /\ ups' = [ups EXCEPT ![d] = @ + 1]
        /\ UNCHANGED <<downs, failed, connections, pending>>
    BY <1>1, <1>17, <2>1 DEF connectEstablished
  <2>3. /\ state \in [Conns -> States]
        /\ ups \in [Conns -> Nat] /\ ups[d] = 0 /\ downs[d] = 0
    BY <1>3, <2>1 DEF TypeOK, StateInv
  <2>4. /\ state'[d] = "kConnected" /\ ups'[d] = 1
        /\ \A c \in Conns : c # d => state'[c] = state[c] /\ ups'[c] = ups[c]
    BY <1>3, <2>2, <2>3
  <2>5. TypeOK'
    <3>1. state' \in [Conns -> States]
      BY <1>3, <2>2, <2>3
    <3>2. ups' \in [Conns -> Nat]
      BY <1>3, <2>2, <2>3
    <3>3. QED  BY <1>1, <1>5, <1>8, <2>2, <3>1, <3>2 DEF TypeOK
  <2>6. ActiveInv'
    BY <1>1, <1>11, <2>1, <2>4 DEF ActiveInv
  <2>7. QueueInv'
    BY <1>1, <1>6, <2>2 DEF QueueInv
  <2>8. StateInv'
    BY <1>1, <1>8, <2>1, <2>2, <2>3, <2>4 DEF StateInv
  <2>9. ASSUME NEW c \in 1..accepted PROVE LifeOf(c)'
    <3>1. CASE c = d
      BY <1>1, <1>5, <1>6, <1>8, <1>9, <1>10, <1>14, <1>17, <2>1, <2>2, <2>4, <3>1
      DEF LifeOf
    <3>2. CASE c # d
      BY <1>1, <1>6, <1>8, <1>14, <2>2, <2>4, <3>2, LivesOn
    <3>3. QED  BY <3>1, <3>2
  <2>10. LoopsExist' /\ AssertionsHold'
    BY <1>1, <2>2 DEF LoopsExist, AssertionsHold
  <2>11. QED
    BY <1>1, <1>6, <1>15, <2>2, <2>5, <2>6, <2>7, <2>8, <2>9, <2>10 DEF LifeInv
<1>18. CASE op = "destroyed"
  <2>1. k = loop_of[d] /\ d \in registered /\ d \notin connections
        /\ ~Left(k, "established", d)
    BY <1>3, <1>5, <1>8, <1>9, <1>18 DEF LifeOf
  <2>0. state[d] \in {"kConnected", "kDisconnected"}
    BY <1>1, <1>3, <1>18, <2>1 DEF connectDestroyed, Fail, StateInv
  <2>2. /\ registered' = registered \ {d}
        /\ UNCHANGED <<ups, failed, connections, pending>>
    BY <1>1, <1>18, <2>0, <2>1 DEF connectDestroyed
  <2>3. /\ state \in [Conns -> States]
        /\ downs \in [Conns -> Nat] /\ ups[d] = 1
        /\ downs[d] = IF state[d] = "kConnected" THEN 0 ELSE 1
    BY <1>3, <2>0, <2>1 DEF TypeOK, StateInv
  <2>4. IF state[d] = "kConnected"
          THEN /\ state' = [state EXCEPT ![d] = "kDisconnected"]
               /\ downs' = [downs EXCEPT ![d] = @ + 1]
          ELSE UNCHANGED <<state, downs>>
    <3>1. /\ state' = [state EXCEPT ![d] = "kDisconnected"]
          /\ downs' = IF state[d] = "kConnected" THEN [downs EXCEPT ![d] = @ + 1]
                                                 ELSE downs
      BY <1>1, <1>18, <2>0, <2>1 DEF connectDestroyed
    <3>2. state[d] # "kConnected" => [state EXCEPT ![d] = "kDisconnected"] = state
      BY <1>3, <2>0, <2>3
    <3>3. QED  BY ONLY <3>1, <3>2
  <2>5. /\ state'[d] = "kDisconnected" /\ downs'[d] = 1
        /\ \A c \in Conns : c # d => state'[c] = state[c] /\ downs'[c] = downs[c]
        /\ state' \in [Conns -> States]
        /\ downs' \in [Conns -> Nat]
    <3>1. CASE state[d] = "kConnected"
      <4>1. state' \in [Conns -> States]
        BY <1>3, <2>3, <2>4, <3>1
      <4>2. downs' \in [Conns -> Nat]
        BY <1>3, <2>3, <2>4, <3>1
      <4>3. QED  BY <1>3, <2>3, <2>4, <3>1, <4>1, <4>2
    <3>2. CASE state[d] # "kConnected"
      BY <1>3, <2>0, <2>1, <2>3, <2>4, <3>2
    <3>3. QED  BY <3>1, <3>2
  <2>6. TypeOK'
    BY <1>1, <1>5, <2>2, <2>5 DEF TypeOK
  <2>7. ActiveInv'
    BY <1>1, <1>11, <2>1, <2>5 DEF ActiveInv
  <2>8. QueueInv'
    BY <1>1, <1>6, <2>2 DEF QueueInv
  <2>9. StateInv'
    BY <1>1, <1>8, <2>1, <2>2, <2>3, <2>5 DEF StateInv
  <2>10. ASSUME NEW c \in 1..accepted PROVE LifeOf(c)'
    <3>1. CASE c = d
      BY <1>1, <1>5, <1>6, <1>8, <1>9, <1>10, <1>14, <1>18, <2>1, <2>2, <2>5, <3>1
      DEF LifeOf
    <3>2. CASE c # d
      BY <1>1, <1>6, <1>8, <1>14, <2>2, <2>5, <3>2, LivesOn
    <3>3. QED  BY <3>1, <3>2
  <2>11. LoopsExist' /\ AssertionsHold'
    BY <1>1, <2>2 DEF LoopsExist, AssertionsHold
  <2>12. QED
    BY <1>1, <1>6, <1>15, <2>2, <2>6, <2>7, <2>8, <2>9, <2>10, <2>11 DEF LifeInv
<1>20. CASE op = "remove"
  <2>0. server # "gone"
    BY <1>1, <1>20 DEF removeConnectionInLoop, Fail
  <2>1. k = Base /\ state[d] = "kDisconnected" /\ d \in connections
        /\ ~Left(loop_of[d], "destroyed", d)
    BY <1>5, <1>8, <1>9, <1>11, <1>20, <2>0 DEF LifeOf, Dying
  <2>2. /\ Queue(loop_of[d], Functor("destroyed", d))
        /\ connections' = connections \ {d}
        /\ UNCHANGED <<registered, failed, connVars>>
    BY <1>1, <1>20, <2>0, <2>1 DEF removeConnectionInLoop, connVars
  <2>3. /\ OrderInv'
        /\ pending' \in [Loops -> Seq(Functors)]
        /\ \A l \in Loops : l # loop_of[d] => pending'[l] = pending[l]
        /\ \A l \in Loops, o \in Ops, c \in Conns :
             Left(l, o, c)' <=>
               \/ Left(l, o, c) /\ ~(l = k /\ o = op /\ c = d)
               \/ l = loop_of[d] /\ o = "destroyed" /\ c = d
    BY <1>7, <1>8, <2>1, <2>2
  <2>4. TypeOK'
    BY <1>1, <1>5, <2>2, <2>3 DEF TypeOK, connVars
  <2>5. ActiveInv' /\ StateInv'
    BY <1>1, <2>2 DEF ActiveInv, StateInv, connVars
  <2>6. QueueInv'
    <3>1. QueueInv /\ d <= accepted
      BY <1>8 DEF TypeOK
    <3>2. QED  BY ONLY <1>1, <2>3, <3>1 DEF QueueInv
  <2>7. ASSUME NEW c \in 1..accepted PROVE LifeOf(c)'
    <3>1. CASE c = d
      BY <1>1, <1>5, <1>8, <1>9, <1>10, <1>14, <1>20, <2>1, <2>2, <2>3, <3>1
      DEF LifeOf, connVars
    <3>2. CASE c # d
      BY <1>1, <1>8, <1>14, <2>2, <2>3, <3>2, LivesOn DEF connVars
    <3>3. QED  BY <3>1, <3>2
  <2>8. LoopsExist' /\ AssertionsHold'
    BY <1>1, <2>1, <2>2, <2>3, LoopThere DEF LoopsExist, AssertionsHold
  <2>9. QED
    BY <1>1, <1>15, <2>2, <2>3, <2>4, <2>5, <2>6, <2>7, <2>8 DEF LifeInv
<1>21. QED  BY <1>1, <1>17, <1>18, <1>20

-----------------------------------------------------------------------------
(* The inductive invariant and what follows from it *)

\* The invariant holds at first.
LEMMA InitServerInv == Init => ServerInv
<1> SUFFICES ASSUME Init PROVE ServerInv
  OBVIOUS
<1> USE PoolAssumption, ServerAssumption
    DEF Init, PoolInit, Base, Loops, IoThreads, Conns
<1>1. Len(<<>>) = 0 /\ <<>> \in Seq(Functors) /\ 1..0 = {}
  BY EmptySeq
<1>2. TypeOK
  BY <1>1 DEF TypeOK, Places, Calls, Failures
<1>3. \A l \in Loops, op \in Ops, c \in Conns : ~Left(l, op, c)
  BY <1>1, RoundsKeepLeft DEF Left
<1>4. OrderInv
  BY <1>1, RoundsKeepLeft DEF OrderInv
<1>5. QueueInv
  BY <1>3 DEF QueueInv
<1>6. BaseInv /\ BornInv /\ EndInv /\ IdleInv
  <2>1. BaseInv /\ IdleInv
    BY DEF BaseInv, IdleInv
  <2>2. /\ \A l \in IoThreads : pc[l] = "none" /\ ~quit[l]
        /\ loops = 0 /\ call = "none" /\ server = "alive" /\ connections = {}
    <3>1. pc = [l \in Loops |-> IF l = Base THEN "idle" ELSE "none"]
          /\ quit = [l \in Loops |-> FALSE]
      OBVIOUS
    <3>2. \A l \in IoThreads : l \in Loops /\ l # Base
      OBVIOUS
    <3>3. \A l \in IoThreads : pc[l] = "none" /\ ~quit[l]
      BY ONLY <3>1, <3>2
    <3>4. QED  BY <3>3
  <2>3. BornInv
    BY ONLY PoolAssumption, <2>2 DEF BornInv, IoThreads
  <2>4. EndInv
    BY ONLY <2>2 DEF EndInv, Stopping
  <2>5. QED  BY <2>1, <2>3, <2>4
<1>7. StartInv /\ ActiveInv
  BY DEF StartInv, ActiveInv
<1>8. RotationInv /\ FairRotation /\ LifeInv
  BY <1>1 DEF RotationInv, FairRotation, LifeInv
<1>9. StateInv /\ LoopsExist /\ AssertionsHold
  BY DEF StateInv, LoopsExist, AssertionsHold
<1>10. QED
  BY <1>2, <1>4, <1>5, <1>6, <1>7, <1>8, <1>9 DEF ServerInv

\* Every step keeps the invariant.
LEMMA NextServerInv == ServerInv /\ [Next]_vars => ServerInv'
<1> SUFFICES ASSUME ServerInv, [Next]_vars PROVE ServerInv'
  OBVIOUS
<1>1. CASE Start \/ Destruct
  BY <1>1, StartKeeps, DestructKeeps
<1>2. CASE OwnerStep
  <2>1. CASE (SpawnThread \/ FutureGet \/ WakeThread \/ Join) /\ Keep
    BY <2>1, SpawnKeeps, FutureGetKeeps, WakeKeeps, JoinKeeps
  <2>2. CASE (\E l \in IoThreads : QuitThread(l)) /\ Keep
    BY <2>2, QuitThreadKeeps
  <2>3. CASE Listen \/ DestroyPool \/ ServerGone
    BY <2>3, ListenKeeps, DestroyPoolKeeps, ServerGoneKeeps
  <2>4. CASE \E c \in Conns : DestroyConnection(c)
    BY <2>4, DestroyConnectionKeeps
  <2>5. QED  BY <1>2, <2>1, <2>2, <2>3, <2>4 DEF OwnerStep
<1>3. CASE (EnterLoop(Base) \/ QuitBase) /\ Keep
  BY <1>3, PoolAssumption, EnterKeeps, QuitBaseKeeps DEF Base, Loops
<1>4. ASSUME NEW l \in Loops, LoopStep(l)
      PROVE  ServerInv'
  <2>1. CASE CheckQuit(l) /\ Keep
    <3>1. CASE quit[l] /\ l # Base
      BY <2>1, <3>1, EndsKeeps DEF Loops, IoThreads, Base
    <3>2. CASE ~(quit[l] /\ l # Base)
      BY <2>1, <3>2, GoOnKeeps
    <3>3. QED  BY <3>1, <3>2
  <2>2. CASE EndRound(l) /\ Keep
    BY <2>2, EndRoundKeeps
  <2>3. CASE \E c \in Conns : handleClose(l, c)
    BY <2>3, handleCloseKeeps
  <2>4. CASE newConnection \/ AcceptFails
    BY <2>4, newConnectionKeeps, AcceptFailsKeeps
  <2>5. CASE EndDispatch(l) \/ RunFunctor(l)
    BY <2>5, EndDispatchKeeps, RunFunctorFails, RunFunctorKeeps
  <2>6. QED  BY <1>4, <2>1, <2>2, <2>3, <2>4, <2>5 DEF LoopStep
<1>5. ASSUME NEW l \in Loops, ThreadStep(l)
      PROVE  ServerInv'
  <2>1. l \in IoThreads /\ ((Publish(l) \/ EnterLoop(l)) /\ Keep)
    BY <1>5 DEF ThreadStep, Loops, IoThreads, Base
  <2>2. QED  BY <2>1, PublishKeeps, EnterKeeps
<1>6. ASSUME NEW l \in Loops, Poll(l)
      PROVE  ServerInv'
  BY <1>6, PollKeeps
<1>7. CASE ClientConnects \/ \E c \in Conns : ClientCloses(c)
  BY <1>7, ConnectsKeeps, ClosesKeeps
<1>10. CASE \E l \in Loops, c \in Conns : HalfClose(l, c)
  BY <1>10, HalfCloseKeeps
<1>8. CASE UNCHANGED vars
  <2>1. OrderInv' /\ SameLeft
    BY <1>8, SameQueues DEF vars, loopVars
  <2>2. QueueInv' /\ StateInv' /\ LifeInv' /\ FairRotation'
    BY <1>8, <2>1, QuietStep
    DEF vars, loopVars, callVars, serverVars, connVars, mapVars, Dying
  <2>3. TypeOK'
    BY <1>8 DEF ServerInv, TypeOK, vars, loopVars, poolVars, callVars, serverVars,
         connVars, mapVars, netVars
  <2>4. BaseInv' /\ BornInv' /\ EndInv' /\ IdleInv' /\ LoopsExist' /\ AssertionsHold'
    BY <1>8 DEF ServerInv, BaseInv, BornInv, EndInv, Stopping, IdleInv,
         LoopsExist, AssertionsHold, Dying, vars, loopVars, poolVars, callVars,
         serverVars, connVars, mapVars
  <2>5. StartInv' /\ ActiveInv' /\ RotationInv'
    BY <1>8 DEF ServerInv, StartInv, ActiveInv, RotationInv, vars, poolVars,
         callVars, serverVars, connVars, mapVars, netVars
  <2>6. QED  BY <2>1, <2>2, <2>3, <2>4, <2>5 DEF ServerInv
<1>9. QED  BY <1>1, <1>2, <1>3, <1>4, <1>5, <1>6, <1>7, <1>8, <1>10 DEF Next

\* The inductive invariant holds for every number of IO loops and connections.
THEOREM ServerInvariant == Spec => []ServerInv
<1>1. Init => ServerInv
  BY InitServerInv
<1>2. ServerInv /\ [Next]_vars => ServerInv'
  BY NextServerInv
<1>3. QED  BY <1>1, <1>2, PTL DEF Spec

\* The members of the server, the pool and the connections keep their types,
\* and next_ stays an index of loops_ (eventloop_thread_pool.cc:43).
THEOREM ServerTypes == Spec => []TypeOK
<1>1. ServerInv => TypeOK
  BY DEF ServerInv
<1>2. QED  BY <1>1, ServerInvariant, PTL

\* getNextLoop is a round robin: as many connections in a row as there are IO
\* loops go to different ones.
THEOREM RotationIsFair == Spec => []FairRotation
<1>1. ServerInv => FairRotation
  BY DEF ServerInv
<1>2. QED  BY <1>1, ServerInvariant, PTL

\* Nobody queues a functor in a loop that is not there yet or no more.
THEOREM QueuesAreLoops == Spec => []LoopsExist
<1>1. ServerInv => LoopsExist
  BY DEF ServerInv
<1>2. QED  BY <1>1, ServerInvariant, PTL

\* The user hears of a connection once that it is up, and then at most once
\* that it is down, whoever takes it down.
THEOREM UpThenDownOnce == Spec => []CallbacksOnce
<1>1. ServerInv => CallbacksOnce
  <2> SUFFICES ASSUME ServerInv, NEW c \in Conns
                PROVE  downs[c] <= ups[c] /\ ups[c] <= 1
    BY DEF CallbacksOnce
  <2>1. state[c] \in States
    BY DEF ServerInv, TypeOK
  <2>2. /\ state[c] \in {"none", "kConnecting"} => ups[c] = 0 /\ downs[c] = 0
        /\ Open(c) => ups[c] = 1 /\ downs[c] = 0
        /\ state[c] = "kDisconnected" => ups[c] = 1 /\ downs[c] = 1
    BY DEF ServerInv, StateInv
  <2>3. QED  BY <2>1, <2>2
<1>2. QED  BY <1>1, ServerInvariant, PTL

\* No assertion of start, connectEstablished, handleClose, removeConnection or
\* the poller fails, and that of Channel::remove only in the destructor, of a
\* connection that is half closed.
THEOREM NoAssertionAborts == Spec => []AssertionsHold
<1>1. ServerInv => AssertionsHold
  BY DEF ServerInv
<1>2. QED  BY <1>1, ServerInvariant, PTL

\* A functor that is left refers to its connection.
LEMMA LeftRefers ==
  ASSUME ServerInv, NEW l \in Loops, NEW op \in Ops, NEW c \in Conns, Left(l, op, c)
  PROVE  Alive(c)
<1>1. pending[l] \in Seq(Functors) /\ tmp[l] \in Seq(Functors) /\ ran[l] \in Nat
      /\ Len(tmp[l]) \in Nat
  BY LenProperties DEF ServerInv, TypeOK
<1>2. ran[l] + 1..Len(tmp[l]) \subseteq 1..Len(tmp[l])
  BY <1>1
<1>3. QED  BY <1>2 DEF Left, LeftIn, Is, Alive, Refers

\* What the invariant says of a connection that nobody refers to.
LEMMA Unreferred ==
  ASSUME ServerInv
  PROVE  ClosedUnlessLoopQuit /\ NoDanglingChannel
<1>1. ASSUME NEW c \in 1..accepted, ~Alive(c)
      PROVE  /\ state[c] = "kDisconnected" \/ pc[loop_of[c]] = "ended"
             /\ c \in registered => pc[loop_of[c]] = "ended"
  <2>1. c \in Conns /\ loop_of[c] \in Loops
    BY ServerAssumption DEF ServerInv, TypeOK, Conns
  <2>2. c \notin connections
    BY <1>1 DEF Alive
  <2>3. ~Left(loop_of[c], "destroyed", c)
    BY <1>1, <2>1, LeftRefers DEF Ops
  <2>4. QED  BY <2>2, <2>3 DEF ServerInv, LifeInv, LifeOf
<1>2. \A l \in Loops : pc[l] = "ended" => quit[l]
  BY DEF ServerInv, BaseInv, EndInv, Looping, Loops, IoThreads, Base
<1>3. registered \subseteq 1..accepted /\ \A c \in 1..accepted : loop_of[c] \in Loops
  BY ServerAssumption DEF ServerInv, TypeOK, Conns
<1>4. QED
  BY <1>1, <1>2, <1>3 DEF ClosedUnlessLoopQuit, NoDanglingChannel

\* A connection that nobody refers to is closed, but for one whose loop was
\* told to quit: neither the race of handleClose, removal and the destructor
\* nor a late functor frees an open connection.
THEOREM FreedAreClosed == Spec => []ClosedUnlessLoopQuit
<1>1. ServerInv => ClosedUnlessLoopQuit
  BY Unreferred
<1>2. QED  BY <1>1, ServerInvariant, PTL

\* The channel of a freed connection is in no poller that polls.
THEOREM FreedAreForgotten == Spec => []NoDanglingChannel
<1>1. ServerInv => NoDanglingChannel
  BY Unreferred
<1>2. QED  BY <1>1, ServerInvariant, PTL

=============================================================================
