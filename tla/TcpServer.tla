------------------------------ MODULE TcpServer ------------------------------
(***************************************************************************)
(* A TcpServer (muduo/net/tcp_server.cc) with its Acceptor, its pool of    *)
(* loop threads and the connections it hands to them, from start() to the  *)
(* destructor. A connection is reduced to its lifetime: state_, whether    *)
(* its channel is registered with its loop's poller, and who refers to it  *)
(* - connections_, and the functors that capture it. TcpConnection models  *)
(* what happens on one connection.                                         *)
(*                                                                         *)
(* The server's owner calls start() and the destructor in the base thread, *)
(* outside loop() or in a functor, as the assertions demand; user code     *)
(* keeps no connection of its own, and may half close one in a callback.   *)
(***************************************************************************)
EXTENDS EventLoopThreadPool, FiniteSets

CONSTANTS
  MaxConns,    \* bound: connections that clients open
  ServerDies   \* TRUE: the server may be destroyed

ASSUME ServerAssumption == MaxConns \in Nat /\ ServerDies \in BOOLEAN

VARIABLES
  server,       \* "alive", or "gone" once ~TcpServer is over
  started,      \* started_
  listening,    \* listenning_ of the acceptor
  arrived,      \* connections that clients have opened
  accepted,     \* connections accepted so far: next_conn_id_ - 1
  connections,  \* connections_; a connection's name is its number
  loop_of,      \* loop_ of each connection
  state,        \* state_ of each connection, "none" before it exists
  registered,   \* connections whose channel is in its loop's poller
  closed,       \* connections whose peer has ended the stream
  active,       \* the channels each loop has polled and not dispatched yet
  ups,          \* history: connection callbacks with connected()
  downs         \* history: connection callbacks without

serverVars == <<server, started, listening>>
connVars   == <<state, registered, ups, downs>>
mapVars    == <<accepted, connections, loop_of>>
netVars    == <<arrived, closed>>
vars == <<loopVars, poolVars, callVars, failed, serverVars, connVars, mapVars,
          netVars, active>>

Conns == 1..MaxConns
Acceptor == 0      \* accept_channel_, beside the channels of the connections

Functor(op, c) == [op |-> op, conn |-> c]
Queue(l, f) == pending' = [pending EXCEPT ![l] = Append(@, f)]

\* Somebody refers to the connection.
Refers(functors, c) == \E i \in 1..Len(functors) : functors[i].conn = c
Alive(c) ==
  c \in connections \/ \E l \in Loops : Refers(pending[l], c) \/ Refers(tmp[l], c)

Init ==
  /\ PoolInit
  /\ server = "alive"
  /\ started = FALSE
  /\ listening = FALSE
  /\ arrived = 0
  /\ accepted = 0
  /\ connections = {}
  /\ loop_of = [c \in Conns |-> Base]
  /\ state = [c \in Conns |-> "none"]
  /\ registered = {}
  /\ closed = {}
  /\ active = [l \in Loops |-> {}]
  /\ ups = [c \in Conns |-> 0]
  /\ downs = [c \in Conns |-> 0]

Fail(assertion) == failed' = assertion

-----------------------------------------------------------------------------
(* What the loops do with a connection *)

\* TcpConnection::connectEstablished
connectEstablished(c) ==
  IF state[c] # "kConnecting"
    THEN Fail("connectEstablished") /\ UNCHANGED connVars
    ELSE /\ state' = [state EXCEPT ![c] = "kConnected"]
         /\ registered' = registered \cup {c}
         /\ ups' = [ups EXCEPT ![c] = @ + 1]
         /\ UNCHANGED <<downs, failed>>

\* Mutant: the callback is called whether or not the connection was up.
DestroyCallsBack(c) ==
  /\ state' = [state EXCEPT ![c] = "kDisconnected"]
  /\ downs' = [downs EXCEPT ![c] = @ + 1]
  /\ registered' = registered \ {c}
  /\ UNCHANGED <<ups, failed>>

\* Mutant: the channel stays in the poller.
DestroyKeepsChannel(c) ==
  /\ state' = [state EXCEPT ![c] = "kDisconnected"]
  /\ downs' = IF state[c] = "kConnected" THEN [downs EXCEPT ![c] = @ + 1]
                                         ELSE downs
  /\ UNCHANGED <<ups, registered, failed>>

\* TcpConnection::connectDestroyed. A half-closed connection is still
\* interested in events, which Channel::remove asserts against; the poller
\* asserts that it has the channel.
connectDestroyed(c) ==
  IF state[c] = "kDisconnecting"
    THEN Fail("Channel::remove") /\ UNCHANGED connVars
  ELSE IF c \notin registered
    THEN Fail("removeChannel") /\ UNCHANGED connVars
    ELSE /\ state' = [state EXCEPT ![c] = "kDisconnected"]
         /\ downs' = IF state[c] = "kConnected" THEN [downs EXCEPT ![c] = @ + 1]
                                                ELSE downs
         /\ registered' = registered \ {c}
         /\ UNCHANGED <<ups, failed>>

\* Mutant: the connection stays in the map.
RemoveKeepsEntry(c) ==
  /\ Queue(loop_of[c], Functor("destroyed", c))
  /\ UNCHANGED <<connections, registered, failed>>

\* TcpServer::removeConnectionInLoop; erase must have found the connection.
removeConnectionInLoop(c) ==
  /\ UNCHANGED registered
  /\ IF server = "gone"
       THEN Fail("TcpServer freed") /\ UNCHANGED <<connections, pending>>
     ELSE IF c \notin connections
       THEN Fail("removeConnectionInLoop") /\ UNCHANGED <<connections, pending>>
       ELSE /\ connections' = connections \ {c}
            /\ Queue(loop_of[c], Functor("destroyed", c))
            /\ UNCHANGED failed

-----------------------------------------------------------------------------
(* start() and the destructor, in the base thread *)

\* User code of the base thread is in control: outside loop(), or in a
\* functor.
OwnerMayCall == At(Base, "idle") \/ At(Base, "run")

\* Mutant: started_ is not tested.
StartAgain ==
  /\ OwnerMayCall
  /\ server = "alive"
  /\ started' = TRUE
  /\ IF pool_started
       THEN Fail("EventLoopThreadPool::start") /\ UNCHANGED <<pool_started, call>>
       ELSE pool_started' = TRUE /\ call' = "spawn" /\ UNCHANGED failed
  /\ UNCHANGED <<loopVars, loops, next, awaited, server, listening, connVars,
                 mapVars, netVars, active>>

\* start(), up to the pool's threads; a second call does nothing.
Start ==
  /\ OwnerMayCall
  /\ server = "alive"
  /\ ~started
  /\ started' = TRUE
  /\ IF pool_started
       THEN Fail("EventLoopThreadPool::start") /\ UNCHANGED <<pool_started, call>>
       ELSE pool_started' = TRUE /\ call' = "spawn" /\ UNCHANGED failed
  /\ UNCHANGED <<loopVars, loops, next, awaited, server, listening, connVars,
                 mapVars, netVars, active>>

\* The functor of start() runs inside the call: Acceptor::listen.
Listen ==
  /\ Calling("spawn")
  /\ loops = NumThreads
  /\ listening' = TRUE
  /\ call' = "none"
  /\ UNCHANGED <<loopVars, poolVars, awaited, failed, server, started,
                 connVars, mapVars, netVars, active>>

Destruct ==
  /\ ServerDies
  /\ OwnerMayCall
  /\ server = "alive"
  /\ call' = "connections"
  /\ UNCHANGED <<loopVars, poolVars, awaited, failed, serverVars, connVars,
                 mapVars, netVars, active>>

\* Mutant: the connections are only dropped.
DropConnection(c) ==
  /\ Calling("connections")
  /\ c \in connections
  /\ connections' = connections \ {c}
  /\ UNCHANGED <<loopVars, poolVars, callVars, failed, serverVars, connVars,
                 accepted, loop_of, netVars, active>>

\* One round of ~TcpServer's for loop, in the order of the hash table; the
\* round holds the connection until it is over.
DestroyConnection(c) ==
  /\ Calling("connections")
  /\ c \in connections
  /\ IF loop_of[c] = Base
       THEN connectDestroyed(c) /\ UNCHANGED pending
       ELSE Queue(loop_of[c], Functor("destroyed", c)) /\ UNCHANGED <<connVars, failed>>
  /\ connections' = IF failed' = "none" THEN connections \ {c} ELSE connections
  /\ UNCHANGED <<pc, quit, tmp, ran, poolVars, callVars, serverVars, accepted,
                 loop_of, netVars, active>>

\* The members are destroyed: the threads of the pool one by one, in an order
\* the standard library chooses ...
DestroyPool ==
  /\ Calling("connections")
  /\ connections = {}
  /\ call' = "threads"
  /\ UNCHANGED <<loopVars, poolVars, awaited, failed, serverVars, connVars,
                 mapVars, netVars, active>>

\* ... then the acceptor, whose socket is closed.
ServerGone ==
  /\ Calling("threads")
  /\ \A l \in IoThreads : pc[l] \in {"none", "ended"}
  /\ server' = "gone"
  /\ listening' = FALSE
  /\ call' = "none"
  /\ UNCHANGED <<loopVars, poolVars, awaited, failed, started, connVars,
                 mapVars, netVars, active>>

-----------------------------------------------------------------------------
(* The loops *)

\* The connection is up, if perhaps half closed.
Open(c) == state[c] \in {"kConnected", "kDisconnecting"}

\* A closed connection is not interested in events; the backlog is not empty
\* while a client waits to be accepted.
Ready(l) ==
  {c \in registered \cap closed : loop_of[c] = l /\ Open(c)}
    \cup {x \in {Acceptor} : l = Base /\ listening /\ accepted < arrived}

\* poll returns with the ready channels, or with none: a wakeup, the timeout
\* or an interrupted call.
Poll(l) ==
  /\ At(l, "poll")
  /\ active' = [active EXCEPT ![l] = Ready(l)]
  /\ Goto(l, "dispatch")
  /\ UNCHANGED <<quit, pending, tmp, ran, poolVars, callVars, failed,
                 serverVars, connVars, mapVars, netVars>>

\* Acceptor::handleRead and TcpServer::newConnection.
newConnection ==
  LET c == accepted + 1
      io_loop == NextLoop
  IN
  /\ At(Base, "dispatch")
  /\ Acceptor \in active[Base]
  /\ active' = [active EXCEPT ![Base] = @ \ {Acceptor}]
  /\ accepted' = c
  /\ AdvanceNext
  /\ connections' = connections \cup {c}
  /\ loop_of' = [loop_of EXCEPT ![c] = io_loop]
  /\ IF io_loop = Base
       THEN /\ state' = [state EXCEPT ![c] = "kConnected"]
            /\ registered' = registered \cup {c}
            /\ ups' = [ups EXCEPT ![c] = @ + 1]
            /\ UNCHANGED pending
       ELSE /\ state' = [state EXCEPT ![c] = "kConnecting"]
            /\ Queue(io_loop, Functor("established", c))
            /\ UNCHANGED <<registered, ups>>
  /\ UNCHANGED <<pc, quit, tmp, ran, pool_started, loops, callVars, failed,
                 serverVars, downs, netVars>>

\* accept() fails - no descriptor is left, or the client has gone - and
\* Socket::accept ends the program.
AcceptFails ==
  /\ At(Base, "dispatch")
  /\ Acceptor \in active[Base]
  /\ Fail("Socket::accept")
  /\ UNCHANGED <<loopVars, poolVars, callVars, serverVars, connVars, mapVars,
                 netVars, active>>

\* TcpConnection::handleRead at the end of the stream: handleClose, and
\* removeConnection through closeCallback_.
handleClose(l, c) ==
  /\ At(l, "dispatch")
  /\ c \in active[l] \ {Acceptor}
  /\ active' = [active EXCEPT ![l] = @ \ {c}]
  /\ IF ~Open(c)
       THEN Fail("handleClose") /\ UNCHANGED <<connVars, connections, pending>>
       ELSE /\ state' = [state EXCEPT ![c] = "kDisconnected"]
            /\ downs' = [downs EXCEPT ![c] = @ + 1]
            /\ IF l = Base
                 THEN removeConnectionInLoop(c)
                 ELSE /\ Queue(Base, Functor("remove", c))
                      /\ UNCHANGED <<connections, registered, failed>>
            /\ UNCHANGED ups
  /\ UNCHANGED <<pc, quit, tmp, ran, poolVars, callVars, serverVars, accepted,
                 loop_of, netVars>>

\* shutdown() by user code in a callback of the connection. The loop goes on
\* to read from it.
HalfClose(l, c) ==
  /\ At(l, "dispatch") \/ At(l, "run")
  /\ loop_of[c] = l
  /\ state[c] = "kConnected"
  /\ state' = [state EXCEPT ![c] = "kDisconnecting"]
  /\ UNCHANGED <<loopVars, poolVars, callVars, failed, serverVars, registered,
                 ups, downs, mapVars, netVars, active>>

EndDispatch(l) ==
  /\ At(l, "dispatch")
  /\ active[l] = {}
  /\ SwapPending(l)
  /\ UNCHANGED <<quit, ran, poolVars, callVars, failed, serverVars, connVars,
                 mapVars, netVars, active>>

\* ran counts the functors that have returned.
RunFunctor(l) ==
  /\ At(l, "run")
  /\ ran[l] < Len(tmp[l])
  /\ LET f == tmp[l][ran[l] + 1] IN
     \/ /\ f.op = "established"
        /\ connectEstablished(f.conn)
        /\ UNCHANGED <<connections, pending>>
     \/ /\ f.op = "destroyed"
        /\ connectDestroyed(f.conn)
        /\ UNCHANGED <<connections, pending>>
     \/ /\ f.op = "remove"
        /\ removeConnectionInLoop(f.conn)
        /\ UNCHANGED <<state, ups, downs>>
  /\ ran' = IF failed' = "none" THEN [ran EXCEPT ![l] = @ + 1] ELSE ran
  /\ UNCHANGED <<pc, quit, tmp, poolVars, callVars, serverVars, accepted,
                 loop_of, netVars, active>>

-----------------------------------------------------------------------------
(* Clients *)

ClientConnects ==
  /\ failed = "none"
  /\ arrived < MaxConns
  /\ arrived' = arrived + 1
  /\ UNCHANGED <<loopVars, poolVars, callVars, failed, serverVars, connVars,
                 mapVars, closed, active>>

ClientCloses(c) ==
  /\ failed = "none"
  /\ c \in 1..arrived \ closed
  /\ closed' = closed \cup {c}
  /\ UNCHANGED <<loopVars, poolVars, callVars, failed, serverVars, connVars,
                 mapVars, arrived, active>>

-----------------------------------------------------------------------------
Keep == UNCHANGED <<serverVars, connVars, mapVars, netVars, active>>

\* What the base thread does in start() and in the destructor.
OwnerStep ==
  \/ (SpawnThread \/ FutureGet \/ WakeThread \/ Join) /\ Keep
  \/ (\E l \in IoThreads : QuitThread(l)) /\ Keep
  \/ Listen \/ DestroyPool \/ ServerGone
  \/ \E c \in Conns : DestroyConnection(c)

\* What the thread of a loop does between two polls.
LoopStep(l) ==
  \/ (CheckQuit(l) \/ EndRound(l)) /\ Keep
  \/ \E c \in Conns : handleClose(l, c)
  \/ l = Base /\ (newConnection \/ AcceptFails)
  \/ EndDispatch(l) \/ RunFunctor(l)

\* What an IO thread does before it is in loop().
ThreadStep(l) == l # Base /\ (Publish(l) \/ EnterLoop(l)) /\ Keep

Next ==
  \/ Start \/ Destruct \/ OwnerStep
  \/ (EnterLoop(Base) \/ QuitBase) /\ Keep
  \/ \E l \in Loops : LoopStep(l) \/ ThreadStep(l) \/ Poll(l)
  \/ \E l \in Loops, c \in Conns : HalfClose(l, c)
  \/ ClientConnects \/ \E c \in Conns : ClientCloses(c)

\* The thread of a loop goes on: it sleeps only in poll, while no wakeup and
\* no event waits.
ThreadGoesOn(l) ==
  \/ ThreadStep(l) \/ LoopStep(l)
  \/ (Woken(l) \/ Ready(l) # {}) /\ Poll(l)

\* The operating system schedules every thread, and callbacks return. Nothing
\* is assumed of the owner, who may never enter the base loop, of clients, or
\* of the timeout.
Fairness == WF_vars(OwnerStep) /\ \A l \in Loops : WF_vars(ThreadGoesOn(l))

Spec == Init /\ [][Next]_vars
FairSpec == Spec /\ Fairness

-----------------------------------------------------------------------------
(* Properties *)

Ops == {"established", "destroyed", "remove"}
Functors == [op : Ops, conn : Conns]
States == {"none", "kConnecting", "kConnected", "kDisconnecting", "kDisconnected"}
Places == {"idle", "none", "created", "published", "ended"} \cup Looping
Calls == {"none", "spawn", "future", "connections", "threads", "wake", "join"}
Failures == {"none", "EventLoopThreadPool::start", "connectEstablished",
             "removeChannel", "handleClose", "removeConnectionInLoop",
             "Socket::accept", "TcpServer freed", "EventLoop freed",
             "Channel::remove"}

\* The state has the types of the members of TcpServer, its pool and its
\* connections; next_ is an index of loops_ (eventloop_thread_pool.cc:43).
TypeOK ==
  /\ pc \in [Loops -> Places]
  /\ quit \in [Loops -> BOOLEAN]
  /\ pending \in [Loops -> Seq(Functors)]
  /\ tmp \in [Loops -> Seq(Functors)]
  /\ ran \in [Loops -> Nat]
  /\ \A l \in Loops : ran[l] <= Len(tmp[l])
  /\ pool_started \in BOOLEAN
  /\ loops \in 0..NumThreads
  /\ next \in Nat /\ (IF loops = 0 THEN next = 0 ELSE next < loops)
  /\ call \in Calls
  /\ awaited \in Loops
  /\ failed \in Failures
  /\ server \in {"alive", "gone"}
  /\ started \in BOOLEAN
  /\ listening \in BOOLEAN
  /\ arrived \in 0..MaxConns
  /\ accepted \in 0..arrived
  /\ connections \subseteq 1..accepted
  /\ loop_of \in [Conns -> Loops]
  /\ state \in [Conns -> States]
  /\ registered \subseteq 1..accepted
  /\ closed \subseteq 1..arrived
  /\ active \in [Loops -> SUBSET (Conns \cup {Acceptor})]
  /\ ups \in [Conns -> Nat]
  /\ downs \in [Conns -> Nat]

\* Round robin (getNextLoop): connections accepted one after another, as many
\* as there are IO loops, go to different loops, wherever the index wraps.
FairRotation ==
  \A c, d \in 1..accepted :
    c < d /\ d - c < NumThreads => loop_of[c] # loop_of[d]

\* A functor is queued only in a loop that exists: start() waits for every
\* promise, and an IO loop ends only when no one is left who queues in it.
LoopsExist ==
  \A l \in Loops : pending[l] # <<>> => pc[l] \notin {"none", "created", "ended"}

\* Of a connection the user hears once that it is up and at most once, later,
\* that it is down, though handleClose in its loop, removal in the server's
\* and the destructor race to take it down.
CallbacksOnce == \A c \in Conns : downs[c] <= ups[c] /\ ups[c] <= 1

\* The server's destructor has begun.
Dying ==
  server = "gone" \/ call \in {"connections", "threads", "wake", "join"}

\* The assertions of start, connectEstablished, handleClose, of what erase
\* returns (tcp_server.cc:97) and of the poller hold. What does end the program
\* is a failing accept(); the use of what has been freed: the server by a
\* functor that runs after its destructor, an IO loop by the quit() that ends
\* it; and Channel::remove, whose assertion fails for a connection that is half
\* closed when the destructor takes it down (channel.cc:62).
AssertionsHold ==
  \/ failed \in {"none", "Socket::accept", "TcpServer freed", "EventLoop freed"}
  \/ /\ failed = "Channel::remove"
     /\ Dying
     /\ \E c \in registered : state[c] = "kDisconnecting"

\* When nothing refers to a connection any more it is closed, as its
\* destructor asserts, unless its loop was told to quit with functors pending.
ClosedUnlessLoopQuit ==
  \A c \in 1..accepted :
    ~Alive(c) => state[c] = "kDisconnected" \/ quit[loop_of[c]]

\* The assertion of ~TcpConnection (tcp_conncetion.cc:51).
DestroyedDisconnected ==
  \A c \in 1..accepted : ~Alive(c) => state[c] = "kDisconnected"

\* No poller that can still poll holds the channel of a freed connection.
NoDanglingChannel ==
  \A c \in registered : ~Alive(c) => pc[loop_of[c]] = "ended"

\* The join in ~EventLoopThread comes back if the thread was in loop() when
\* it was told to quit, wherever it was there, and does not end the program.
QuitEndsThread ==
  (call = "join" /\ quit[awaited] /\ pc[awaited] \in Looping)
    ~> call # "join" \/ failed # "none"

\* ~TcpServer comes back: every thread of the pool can be joined
\* (eventloop_thread.cc:20).
DestructorReturns == call = "connections" ~> server = "gone" \/ failed # "none"

\* When every client has come and gone, each is accepted in the end, and each
\* connection taken from the map and its poller and freed, while the base loop
\* runs and the server is not destroyed.
ServerDrains ==
  (listening /\ closed = Conns) ~>
    \/ accepted = MaxConns /\ connections = {} /\ registered = {}
         /\ \A c \in Conns : ~Alive(c)
    \/ pc[Base] = "idle" \/ Dying \/ failed # "none"

-----------------------------------------------------------------------------
(* The inductive invariant behind the safety properties *)

\* Of a loop with the functors p pending and r of the round t run: it has
\* still to run the functor.
Is(f, op, c) == f.op = op /\ f.conn = c
LeftIn(p, t, r, op, c) ==
  \/ \E i \in 1..Len(p) : Is(p[i], op, c)
  \/ \E i \in r + 1..Len(t) : Is(t[i], op, c)

\* The first of two functors may not be queued before the second.
Clash(f, g) ==
  /\ f.conn = g.conn
  /\ f.op = g.op \/ (f.op = "destroyed" /\ g.op = "established")
InOrderIn(p, t, r) ==
  /\ \A i, j \in 1..Len(p) : i < j => ~Clash(p[i], p[j])
  /\ \A i, j \in r + 1..Len(t) : i < j => ~Clash(t[i], t[j])
  /\ \A i \in r + 1..Len(t), j \in 1..Len(p) : ~Clash(t[i], p[j])

Left(l, op, c) == LeftIn(pending[l], tmp[l], ran[l], op, c)

\* No functor is queued twice, and connectDestroyed never before
\* connectEstablished.
OrderInv == \A l \in Loops : InOrderIn(pending[l], tmp[l], ran[l])

\* A functor is queued where it belongs, of a connection that exists.
QueueInv ==
  \A l \in Loops, op \in Ops, c \in Conns :
    Left(l, op, c) => c <= accepted /\ l = (IF op = "remove" THEN Base ELSE loop_of[c])

\* The base thread calls start() and the destructor outside dispatching.
BaseInv ==
  /\ pc[Base] \in {"idle"} \cup Looping
  /\ call # "none" => pc[Base] \in {"idle", "run"}

\* An IO thread exists when its loop is in loops_, or is being started.
BornInv ==
  /\ \A l \in IoThreads :
       /\ pc[l] # "idle"
       /\ l <= loops => pc[l] \notin {"none", "created"}
       /\ l > loops => pc[l] = "none" \/ (call = "future" /\ l = awaited)
  /\ call = "future" => pc[awaited] # "none"

\* It is told to quit, and ends, only when the pool is destroyed.
Stopping == server = "gone" \/ call \in {"threads", "wake", "join"}
EndInv ==
  /\ \A l \in IoThreads :
       /\ quit[l] \/ pc[l] = "ended" => Stopping
       /\ pc[l] = "ended" => quit[l]
  /\ server = "gone" => call = "none" /\ ~listening
  /\ Stopping => connections = {}

\* A loop has a list to run in a round, and active channels in dispatching.
IdleInv ==
  \A l \in Loops :
    /\ pc[l] # "run" => tmp[l] = <<>> /\ ran[l] = 0
    /\ pc[l] # "dispatch" => active[l] = {}

\* start() is under way once, before the first connection.
StartInv ==
  /\ pool_started => started
  /\ ~started => loops = 0 /\ ~listening /\ call \notin {"spawn", "future"}
  /\ call \in {"spawn", "future"} => ~listening
  /\ call = "future" => loops < NumThreads /\ awaited = loops + 1
  /\ listening \/ accepted > 0 \/ Acceptor \in active[Base]
       => started /\ loops = NumThreads /\ call \notin {"spawn", "future"}

\* What has been polled is still so when it is dispatched.
ActiveInv ==
  \A l \in Loops :
    /\ Acceptor \in active[l] =>
         l = Base /\ accepted < arrived /\ server = "alive"
    /\ \A c \in active[l] \cap Conns : loop_of[c] = l /\ Open(c)

\* Where the round robin stands: the last connections, counted backwards, are
\* in the loops before next_.
RotationInv ==
  /\ \A c \in 1..accepted : loop_of[c] <= loops
  /\ \A c \in 1..accepted :
       LET back == accepted - c IN
       back < NumThreads =>
         loop_of[c] = IF next > back THEN next - back ELSE next - back + NumThreads

\* How far a connection has come.
StateInv ==
  /\ \A c \in Conns :
       /\ state[c] \in {"none", "kConnecting"} => ups[c] = 0 /\ downs[c] = 0
       /\ Open(c) => ups[c] = 1 /\ downs[c] = 0
       /\ state[c] = "kDisconnected" => ups[c] = 1 /\ downs[c] = 1
       /\ c <= accepted <=> state[c] # "none"
       /\ c \in registered => Open(c) \/ state[c] = "kDisconnected"
       /\ state[c] = "kDisconnecting" => c \in registered

\* Who refers to a connection, and what is still to be done with it.
LifeOf(c) ==
  LET l == loop_of[c]
      Lost == pc[l] = "ended"
  IN
  /\ Left(l, "established", c) =>
       /\ l # Base
       /\ state[c] = "kConnecting"
       /\ c \in connections \/ Left(l, "destroyed", c)
  /\ Left(l, "destroyed", c) =>
       /\ c \notin connections
       /\ c \in registered \/ Left(l, "established", c)
  /\ Left(Base, "remove", c) =>
       /\ state[c] = "kDisconnected"
       /\ c \in connections \/ Dying
  /\ c \in connections => c \in registered \/ Left(l, "established", c)
  /\ c \in registered => c \in connections \/ Left(l, "destroyed", c) \/ Lost
  /\ c \in connections \/ state[c] = "kDisconnected" \/ Left(l, "destroyed", c) \/ Lost
  /\ c \in connections \/ state[c] = "kDisconnected" \/ Dying
LifeInv == \A c \in 1..accepted : LifeOf(c)

ServerInv ==
  /\ TypeOK /\ BaseInv /\ BornInv /\ EndInv /\ IdleInv /\ StartInv /\ ActiveInv
  /\ QueueInv /\ OrderInv
  /\ RotationInv /\ FairRotation /\ StateInv /\ LifeInv
  /\ LoopsExist /\ AssertionsHold

=============================================================================
