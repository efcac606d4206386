---------------------------- MODULE ShutdownProofs ----------------------------
(* Proofs about Shutdown, for any streams, channels and capacities: nothing sends*)
(* on what Stop has closed; Stop returns, or it waits on a full channel that     *)
(* nobody reads any more, and there for ever; when it has returned nothing is    *)
(* left running; and with nothing from outside its steps come to an end.  That   *)
(* Settled names the states where nothing can go on needs ENABLED, and stays with*)
(* TLC.                                                                          *)
EXTENDS Shutdown, FiniteSetTheorems, TLAPS

-------------------------------------------------------------------------------
(* The order of the steps of Stop.                                                *)

StageNames == {Stages[i] : i \in 1 .. 14}

LEMMA StagesAre ==
    StageNames = {"running", "channels", "incoming", "discovery", "identities", "token",
                  "emitter", "demultiplexer", "signal", "connections", "publisher",
                  "exit", "goroutines", "done"}
BY DEF StageNames, Stages

LEMMA Positions ==
    ASSUME NEW k \in 1 .. 14 PROVE Position(Stages[k]) = k
<1>1. DOMAIN Stages = 1 .. 14
  BY DEF Stages
<1>2. \A i, j \in 1 .. 14 : Stages[i] = Stages[j] => i = j
  BY DEF Stages
<1> QED
  BY <1>1, <1>2 DEF Position

\* Which steps come after which.
LEMMA Order ==
    ASSUME stage \in StageNames PROVE
    /\ StopFlag <=> stage # "running"
    /\ IncChanClosed <=> stage \notin {"running", "channels", "incoming"}
    /\ DiscoveryToDie <=> stage \notin {"running", "channels", "incoming", "discovery"}
    /\ AppClosed <=> stage \in {"signal", "connections", "publisher", "exit",
                                "goroutines", "done"}
    /\ CommStopping <=> stage \in {"connections", "publisher", "exit", "goroutines", "done"}
    /\ GenericClosed <=> stage \in {"exit", "goroutines", "done"}
    /\ ExitClosed <=> stage \in {"goroutines", "done"}
<1>1. PICK k \in 1 .. 14 : stage = Stages[k]
  BY DEF StageNames
<1>2. Position(stage) = k
  BY <1>1, Positions
<1>3. /\ Position("running") = 1 /\ Position("incoming") = 3 /\ Position("discovery") = 4
      /\ Position("demultiplexer") = 8 /\ Position("signal") = 9
  BY Positions DEF Stages
<1>4. Position("publisher") = 11 /\ Position("exit") = 12
  BY Positions DEF Stages
<1>5. /\ k > 1 <=> Stages[k] # "running"
      /\ k > 3 <=> Stages[k] \notin {"running", "channels", "incoming"}
      /\ k > 4 <=> Stages[k] \notin {"running", "channels", "incoming", "discovery"}
  BY DEF Stages
<1>6. /\ k > 8 <=> Stages[k] \in {"signal", "connections", "publisher", "exit",
                                  "goroutines", "done"}
      /\ k > 9 <=> Stages[k] \in {"connections", "publisher", "exit", "goroutines",
                                  "done"}
      /\ k > 11 <=> Stages[k] \in {"exit", "goroutines", "done"}
      /\ k > 12 <=> Stages[k] \in {"goroutines", "done"}
  BY DEF Stages
<1> QED
  BY <1>1, <1>2, <1>3, <1>4, <1>5, <1>6
  DEF StopFlag, IncChanClosed, DiscoveryToDie, AppClosed, CommStopping, GenericClosed,
      ExitClosed, Past

LEMMA OrderNext ==
    ASSUME stage' \in StageNames PROVE
    /\ AppClosed' <=> stage' \in {"signal", "connections", "publisher", "exit",
                                  "goroutines", "done"}
    /\ GenericClosed' <=> stage' \in {"exit", "goroutines", "done"}
<1>1. PICK k \in 1 .. 14 : stage' = Stages[k]
  BY DEF StageNames
<1>2. Position(stage') = k
  BY <1>1, Positions
<1>3. Position("demultiplexer") = 8 /\ Position("publisher") = 11
  BY Positions DEF Stages
<1>4. /\ k > 8 <=> Stages[k] \in {"signal", "connections", "publisher", "exit",
                                  "goroutines", "done"}
      /\ k > 11 <=> Stages[k] \in {"exit", "goroutines", "done"}
  BY DEF Stages
<1> QED
  BY <1>1, <1>2, <1>3, <1>4 DEF AppClosed, GenericClosed, Past

-------------------------------------------------------------------------------
(* The inductive invariant.                                                       *)

Acceptors == [pc : {"select", "forwarding", "delivering", "pushing", "done"},
              left : 0 .. MaxBurst]
Readers == {"select", "pushing", "ended"}

\* No channel holds more than its capacity.
Queues == queue \in [Place -> Nat] /\ \A q \in Place : queue[q] <= Cap[q]
AcceptorTyped ==
    /\ acceptor \in Acceptors
    /\ acceptor.pc \in {"delivering", "pushing"} => acceptor.left # 0
Typed == AcceptorTyped /\ reader \in [Stream -> Readers] /\ Queues
StopOrder == stage \in StageNames /\ (stage = "done" => forwarder = "done")
IInv == Typed /\ StopOrder /\ ClosedAfterUse

\* Nothing is stopped and nothing in flight at first.
LEMMA InitIInv == Init => IInv
<1> SUFFICES ASSUME Init PROVE IInv
  OBVIOUS
<1> USE DEF Init
<1>1. stage \in StageNames
  BY StagesAre
<1>2. StopOrder
  BY <1>1 DEF StopOrder
<1>3. ~AppClosed /\ ~GenericClosed /\ stage # "done"
  BY <1>1, Order
<1>4. ClosedAfterUse
  BY <1>3 DEF ClosedAfterUse
<1>5. AcceptorTyped
  BY ShutdownAssumption DEF AcceptorTyped, Acceptors
<1>6. reader \in [Stream -> Readers]
  BY DEF Readers
<1>7. \A q \in Place : Cap[q] \in Nat
  BY ShutdownAssumption DEF Place, Cap
<1>8. Queues
  BY <1>7 DEF Queues
<1> QED
  BY <1>2, <1>4, <1>5, <1>6, <1>8 DEF IInv, Typed

-------------------------------------------------------------------------------
(* Who changes what.                                                              *)

LEMMA QueueChanges ==
    ASSUME [Next]_vars PROVE
    \/ UNCHANGED queue
    \/ (\E s \in Stream : ReaderPushes(s)) \/ ForwarderTakes
    \/ ForwarderPushes \/ AcceptorTakes
    \/ AcceptorPushes \/ ReceiverTakes
    \/ ReceiverPushes \/ ApplicationReads
    \/ Report \/ DeadForwarderTakes
    \/ DeadForwarderPushes \/ DeadLoopTakes
BY DEF Next, Progress, StopStep, vars, unmoved, SendFails, ReadLock, ReaderEnds,
       ForwarderEnds, AcceptorEnds, HandOver, Recover, AppReadLock, ReceiverEnds,
       MessageLoopEnds, DeadForwarderEnds, DeadLoopEnds, SweepEnds, WorkerEnds,
       PurgeEnds, StopBegins, ChannelStops, ChannelsStopped, CloseIncoming,
       DiscoveryStops, IdMapperStops, ServiceToken, EmitterStops, DemultiplexerCloses,
       StopSignal, ConnectionsClose, PublisherCloses, ExitCloses, SubscriptionsClose

\* Each channel has one sender and one receiver (the first, the readers).
LEMMA Channels ==
    ASSUME Queues, [Next]_vars PROVE
    /\ Queues'
    /\ queue'["generic"] = queue["generic"] \/ ForwarderTakes
         \/ \E s \in Stream : ReaderPushes(s)
    /\ queue'["specific"] = queue["specific"] \/ ForwarderPushes \/ AcceptorTakes
    /\ queue'["app"] = queue["app"] \/ AcceptorPushes \/ ReceiverTakes
    /\ queue'["presumed"] = queue["presumed"] \/ DeadForwarderPushes \/ DeadLoopTakes
<1>0. \A q \in Place : Cap[q] \in Nat
  BY ShutdownAssumption DEF Place, Cap
<1>1. ASSUME NEW q \in Place, Put(q) \/ Take(q)
      PROVE  Queues' /\ \A r \in Place \ {q} : queue'[r] = queue[r]
  <2>1. CASE Put(q)
    BY <1>0, <2>1 DEF Queues, Put, Full
  <2>2. CASE Take(q)
    BY <1>0, <2>2 DEF Queues, Take
  <2> QED
    BY <1>1, <2>1, <2>2
<1>2. CASE UNCHANGED queue
  BY <1>2 DEF Queues
<1> USE DEF Place
<1>3. CASE (\E s \in Stream : ReaderPushes(s)) \/ ForwarderTakes
  <2>1. Put("generic") \/ Take("generic")
    BY <1>3 DEF ReaderPushes, ForwarderTakes
  <2> QED
    BY <1>1, <1>3, <2>1
<1>4. CASE ForwarderPushes \/ AcceptorTakes
  <2>1. Put("specific") \/ Take("specific")
    BY <1>4 DEF ForwarderPushes, AcceptorTakes
  <2> QED
    BY <1>1, <1>4, <2>1
<1>5. CASE AcceptorPushes \/ ReceiverTakes
  <2>1. Put("app") \/ Take("app")
    BY <1>5 DEF AcceptorPushes, ReceiverTakes
  <2> QED
    BY <1>1, <1>5, <2>1
<1>6. CASE ReceiverPushes \/ ApplicationReads
  <2>1. Put("out") \/ Take("out")
    BY <1>6 DEF ReceiverPushes, ApplicationReads
  <2> QED
    BY <1>1, <2>1
<1>7. CASE Report \/ DeadForwarderTakes
  <2>1. Put("dead") \/ Take("dead")
    BY <1>7 DEF Report, DeadForwarderTakes
  <2> QED
    BY <1>1, <2>1
<1>8. CASE DeadForwarderPushes \/ DeadLoopTakes
  <2>1. Put("presumed") \/ Take("presumed")
    BY <1>8 DEF DeadForwarderPushes, DeadLoopTakes
  <2> QED
    BY <1>1, <1>8, <2>1
<1> QED
  BY <1>2, <1>3, <1>4, <1>5, <1>6, <1>7, <1>8, QueueChanges

LEMMA StageChanges ==
    ASSUME [Next]_vars PROVE
    \/ UNCHANGED stage
    \/ StopBegins \/ ChannelsStopped \/ CloseIncoming \/ DiscoveryStops \/ IdMapperStops
    \/ ServiceToken \/ EmitterStops \/ DemultiplexerCloses \/ StopSignal
    \/ ConnectionsClose \/ PublisherCloses \/ ExitCloses \/ SubscriptionsClose
BY DEF Next, Progress, StopStep, vars, SendFails, ReadLock, ReaderPushes, ReaderEnds,
       ForwarderTakes, ForwarderPushes, ForwarderEnds, AcceptorTakes, AcceptorEnds,
       HandOver, Recover, AppReadLock, AcceptorPushes, ReceiverTakes, ReceiverPushes,
       ReceiverEnds, ApplicationReads, MessageLoopEnds, Report, DeadForwarderTakes,
       DeadForwarderPushes, DeadForwarderEnds, DeadLoopTakes, DeadLoopEnds, SweepEnds,
       WorkerEnds, PurgeEnds, ChannelStops

LEMMA AcceptorChanges ==
    ASSUME [Next]_vars PROVE
    \/ UNCHANGED acceptor
    \/ AcceptorTakes \/ AcceptorEnds \/ HandOver \/ Recover \/ AppReadLock \/ AcceptorPushes
BY DEF Next, Progress, StopStep, vars, pipeline, unmoved, SendFails, ReadLock, ReaderPushes,
       ReaderEnds, ForwarderTakes, ForwarderPushes, ForwarderEnds, ReceiverTakes,
       ReceiverPushes, ReceiverEnds, ApplicationReads, MessageLoopEnds, Report,
       DeadForwarderTakes, DeadForwarderPushes, DeadForwarderEnds, DeadLoopTakes,
       DeadLoopEnds, SweepEnds, WorkerEnds, PurgeEnds, StopBegins, ChannelStops,
       ChannelsStopped, CloseIncoming, DiscoveryStops, IdMapperStops, ServiceToken,
       EmitterStops, DemultiplexerCloses, StopSignal, ConnectionsClose, PublisherCloses,
       ExitCloses, SubscriptionsClose

LEMMA ForwarderChanges ==
    ASSUME [Next]_vars PROVE
    UNCHANGED forwarder \/ ForwarderTakes \/ ForwarderPushes \/ ForwarderEnds
BY DEF Next, Progress, StopStep, vars, pipeline, unmoved, SendFails, ReadLock, ReaderPushes,
       ReaderEnds, AcceptorTakes, AcceptorEnds, HandOver, Recover, AppReadLock,
       AcceptorPushes, ReceiverTakes, ReceiverPushes, ReceiverEnds, ApplicationReads,
       MessageLoopEnds, Report, DeadForwarderTakes, DeadForwarderPushes,
       DeadForwarderEnds, DeadLoopTakes, DeadLoopEnds, SweepEnds, WorkerEnds, PurgeEnds,
       StopBegins, ChannelStops, ChannelsStopped, CloseIncoming, DiscoveryStops,
       IdMapperStops, ServiceToken, EmitterStops, DemultiplexerCloses, StopSignal,
       ConnectionsClose, PublisherCloses, ExitCloses, SubscriptionsClose

LEMMA ReaderChanges ==
    ASSUME [Next]_vars PROVE
    UNCHANGED reader \/ \E s \in Stream : ReadLock(s) \/ ReaderPushes(s) \/ ReaderEnds(s)
BY DEF Next, Progress, StopStep, vars, pipeline, unmoved, SendFails, ForwarderTakes,
       ForwarderPushes, ForwarderEnds, AcceptorTakes, AcceptorEnds, HandOver, Recover,
       AppReadLock, AcceptorPushes, ReceiverTakes, ReceiverPushes, ReceiverEnds,
       ApplicationReads, MessageLoopEnds, Report, DeadForwarderTakes,
       DeadForwarderPushes, DeadForwarderEnds, DeadLoopTakes, DeadLoopEnds, SweepEnds,
       WorkerEnds, PurgeEnds, StopBegins, ChannelStops, ChannelsStopped, CloseIncoming,
       DiscoveryStops, IdMapperStops, ServiceToken, EmitterStops, DemultiplexerCloses,
       StopSignal, ConnectionsClose, PublisherCloses, ExitCloses, SubscriptionsClose

\* Where a step of Stop leads from.
LEMMA StageMoves ==
    ASSUME StopOrder, [Next]_vars PROVE
    /\ stage' \in StageNames
    /\ AppClosed' => AppClosed \/ (stage = "demultiplexer" /\ acceptor.pc # "pushing"
                                     /\ UNCHANGED acceptor)
    /\ GenericClosed' => GenericClosed \/ (stage = "publisher" /\ UNCHANGED reader
                                             /\ \A s \in Stream : reader[s] # "pushing")
    /\ stage' = "done" => forwarder = "done"
<1>1. CASE UNCHANGED stage
  <2>1. (AppClosed' <=> AppClosed) /\ (GenericClosed' <=> GenericClosed)
    BY <1>1 DEF AppClosed, GenericClosed, Past, Position
  <2> QED
    BY <1>1, <2>1 DEF StopOrder
<1>2. CASE /\ \/ StopBegins \/ ChannelsStopped \/ CloseIncoming \/ DiscoveryStops
              \/ IdMapperStops \/ ServiceToken \/ EmitterStops
  <2>1. stage' \in {"channels", "incoming", "discovery", "identities", "token", "emitter",
                    "demultiplexer"}
    BY <1>2 DEF StopBegins, ChannelsStopped, CloseIncoming, DiscoveryStops, IdMapperStops,
                ServiceToken, EmitterStops
  <2>2. stage' \in StageNames
    BY <2>1, StagesAre
  <2>3. ~AppClosed' /\ ~GenericClosed' /\ stage' # "done"
    BY <2>1, <2>2, OrderNext
  <2> QED
    BY <2>2, <2>3
<1>3. CASE DemultiplexerCloses
  <2>1. /\ stage = "demultiplexer" /\ stage' = "signal" /\ acceptor.pc # "pushing"
        /\ UNCHANGED acceptor
    BY <1>3 DEF DemultiplexerCloses, NoAppReader, unmoved, pipeline
  <2>2. stage' \in StageNames
    BY <2>1, StagesAre
  <2>3. ~GenericClosed'
    BY <2>1, <2>2, OrderNext
  <2> QED
    BY <2>1, <2>2, <2>3
<1>4. CASE StopSignal \/ ConnectionsClose
  <2>1. stage \in {"signal", "connections"} /\ stage' \in {"connections", "publisher"}
    BY <1>4 DEF StopSignal, ConnectionsClose
  <2>2. stage' \in StageNames
    BY <2>1, StagesAre
  <2>3. AppClosed /\ ~GenericClosed'
    BY <2>1, <2>2, Order, OrderNext DEF StopOrder
  <2> QED
    BY <2>1, <2>2, <2>3
<1>5. CASE PublisherCloses
  <2>1. /\ stage = "publisher" /\ stage' = "exit" /\ UNCHANGED reader
        /\ \A s \in Stream : reader[s] # "pushing"
    BY <1>5 DEF PublisherCloses, unmoved, pipeline
  <2>2. stage' \in StageNames
    BY <2>1, StagesAre
  <2>3. AppClosed
    BY <2>1, Order DEF StopOrder
  <2> QED
    BY <2>1, <2>2, <2>3
<1>6. CASE ExitCloses \/ SubscriptionsClose
  <2>1. /\ stage \in {"exit", "goroutines"} /\ stage' \in {"goroutines", "done"}
        /\ stage' = "done" => forwarder = "done"
    BY <1>6 DEF ExitCloses, SubscriptionsClose
  <2>2. stage' \in StageNames
    BY <2>1, StagesAre
  <2>3. AppClosed /\ GenericClosed
    BY <2>1, Order DEF StopOrder
  <2> QED
    BY <2>1, <2>2, <2>3
<1> QED
  BY <1>1, <1>2, <1>3, <1>4, <1>5, <1>6, StageChanges, Zenon

LEMMA AcceptorStep == ASSUME AcceptorTyped, [Next]_vars PROVE AcceptorTyped'
<1> USE ShutdownAssumption DEF AcceptorTyped, Acceptors
<1>1. CASE AcceptorTakes
  <2>1. acceptor' = acceptor \/ acceptor' \in [pc : {"select", "forwarding"}, left : {0}]
          \/ acceptor' \in [pc : {"delivering"}, left : 1 .. MaxBurst]
    BY <1>1 DEF AcceptorTakes
  <2> QED
    BY <2>1
<1>2. CASE AcceptorEnds \/ HandOver \/ Recover
  BY <1>2 DEF AcceptorEnds, HandOver, Recover
<1>3. CASE AppReadLock
  BY <1>3 DEF AppReadLock
<1>4. CASE AcceptorPushes
  <2>1. /\ acceptor' = [pc |-> IF acceptor.left = 1 THEN "select" ELSE "delivering",
                        left |-> acceptor.left - 1]
        /\ acceptor.left \in 1 .. MaxBurst
    BY <1>4 DEF AcceptorPushes, ItemsLeft
  <2> QED
    BY <2>1
<1>5. CASE UNCHANGED acceptor
  BY <1>5
<1> QED
  BY <1>1, <1>2, <1>3, <1>4, <1>5, AcceptorChanges

LEMMA StepIInv == IInv /\ [Next]_vars => IInv'
<1> SUFFICES ASSUME IInv, [Next]_vars PROVE IInv'
  OBVIOUS
<1> USE DEF IInv
<1>1. /\ stage' \in StageNames
      /\ AppClosed' => AppClosed \/ (stage = "demultiplexer" /\ acceptor.pc # "pushing"
                                       /\ UNCHANGED acceptor)
      /\ GenericClosed' => GenericClosed \/ (stage = "publisher" /\ UNCHANGED reader
                                               /\ \A s \in Stream : reader[s] # "pushing")
      /\ stage' = "done" => forwarder = "done"
  BY StageMoves
<1>2. Typed'
  <2>1. AcceptorTyped'
    BY AcceptorStep DEF Typed
  <2>2. reader' \in [Stream -> Readers]
    BY ReaderChanges DEF Typed, Readers, ReadLock, ReaderPushes, ReaderEnds
  <2> QED
    BY <2>1, <2>2, Channels DEF Typed
<1>3. AppClosed /\ acceptor.pc # "pushing" => acceptor'.pc # "pushing"
  <2> SUFFICES ASSUME AppClosed, acceptor.pc # "pushing" PROVE acceptor'.pc # "pushing"
    OBVIOUS
  <2>1. CASE AcceptorTakes
    BY <2>1 DEF AcceptorTakes
  <2>2. CASE AcceptorEnds \/ HandOver \/ Recover
    <3>1. PICK pc \in {"done", "select"} : acceptor' = [acceptor EXCEPT !.pc = pc]
      BY <2>2 DEF AcceptorEnds, HandOver, Recover
    <3> QED
      BY <3>1 DEF Typed, AcceptorTyped, Acceptors
  <2>3. CASE AppReadLock
    BY <2>3 DEF AppReadLock, Typed, AcceptorTyped, Acceptors
  <2>4. CASE AcceptorPushes
    BY <2>4 DEF AcceptorPushes
  <2>5. CASE UNCHANGED acceptor
    BY <2>5
  <2> QED
    BY <2>1, <2>2, <2>3, <2>4, <2>5, AcceptorChanges
<1>4. GenericClosed => \A s \in Stream : reader'[s] # "pushing"
  <2> SUFFICES ASSUME GenericClosed, NEW r \in Stream PROVE reader'[r] # "pushing"
    OBVIOUS
  <2>1. reader[r] # "pushing"
    BY DEF ClosedAfterUse
  <2>2. ASSUME NEW s \in Stream, ReadLock(s) \/ ReaderPushes(s) PROVE FALSE
    BY <2>2 DEF ReadLock, ReaderPushes, ClosedAfterUse
  <2>3. ASSUME NEW s \in Stream, ReaderEnds(s) PROVE reader'[r] # "pushing"
    BY <2>1, <2>3 DEF ReaderEnds, Typed
  <2> QED
    BY <2>1, <2>2, <2>3, ReaderChanges
<1>5. forwarder = "done" => forwarder' = "done"
  BY ForwarderChanges DEF ForwarderTakes, ForwarderPushes, ForwarderEnds
<1>6. StopOrder'
  BY <1>1, <1>5 DEF StopOrder
<1>7. ClosedAfterUse'
  BY <1>1, <1>3, <1>4, <1>5 DEF ClosedAfterUse
<1> QED
  BY <1>6, <1>7, <1>2

\* Stop closes neither the demultiplexer of the application nor the one of the
\* communication, nor ends, while somebody is about to send on what it closes.
THEOREM NothingSendsOnClosed == Spec => []ClosedAfterUse
<1>1. IInv => ClosedAfterUse
  BY DEF IInv
<1> QED
  BY <1>1, InitIInv, StepIInv, PTL DEF Spec

-------------------------------------------------------------------------------
(* Where Stop waits for ever.                                                     *)

LEMMA LoopsChange ==
    ASSUME [Next]_vars PROVE
    /\ UNCHANGED receiver \/ ReceiverTakes \/ ReceiverPushes \/ ReceiverEnds
    /\ UNCHANGED deadForwarder \/ DeadForwarderTakes \/ DeadForwarderPushes
         \/ DeadForwarderEnds
    /\ UNCHANGED deadLoop \/ DeadLoopTakes \/ DeadLoopEnds
BY DEF Next, Progress, StopStep, vars, pipeline, deaths, unmoved, SendFails, ReadLock,
       ReaderPushes, ReaderEnds, ForwarderTakes, ForwarderPushes, ForwarderEnds,
       AcceptorTakes, AcceptorEnds, HandOver, Recover, AppReadLock, AcceptorPushes,
       ReceiverTakes, ReceiverPushes, ReceiverEnds, ApplicationReads, MessageLoopEnds,
       Report, DeadForwarderTakes, DeadForwarderPushes, DeadForwarderEnds, DeadLoopTakes,
       DeadLoopEnds, SweepEnds, WorkerEnds, PurgeEnds, StopBegins, ChannelStops,
       ChannelsStopped, CloseIncoming, DiscoveryStops, IdMapperStops, ServiceToken,
       EmitterStops, DemultiplexerCloses, StopSignal, ConnectionsClose, PublisherCloses,
       ExitCloses, SubscriptionsClose

Stuck == AppFull \/ PresumedFull \/ GenericFull

LEMMA StuckStep == IInv /\ Stuck /\ [Next]_vars => Stuck'
<1> SUFFICES ASSUME IInv, Stuck, [Next]_vars PROVE Stuck'
  OBVIOUS
<1>0. Queues
  BY DEF IInv, Typed
<1>1. CASE AppFull
  <2> USE <1>1 DEF AppFull
  <2>1. UNCHANGED stage
    BY StageChanges
    DEF StopBegins, ChannelsStopped, CloseIncoming, DiscoveryStops, IdMapperStops,
        ServiceToken, EmitterStops, DemultiplexerCloses, NoAppReader, StopSignal,
        ConnectionsClose, PublisherCloses, ExitCloses, SubscriptionsClose
  <2>2. ~AcceptorPushes /\ ~ReceiverTakes
    BY DEF AcceptorPushes, Put, ReceiverTakes
  <2>3. UNCHANGED acceptor
    BY <2>2, AcceptorChanges
    DEF AcceptorTakes, AcceptorEnds, HandOver, Recover, AppReadLock
  <2>4. UNCHANGED receiver
    BY LoopsChange DEF ReceiverTakes, ReceiverPushes, ReceiverEnds
  <2>5. queue'["app"] = queue["app"]
    BY <1>0, <2>2, Channels
  <2> QED
    BY <2>1, <2>3, <2>4, <2>5 DEF Stuck, Full
<1>2. CASE PresumedFull
  <2> USE <1>2 DEF PresumedFull
  <2>1. UNCHANGED stage
    BY StageChanges
    DEF StopBegins, ChannelsStopped, CloseIncoming, DiscoveryStops, IdMapperStops,
        ServiceToken, EmitterStops, DemultiplexerCloses, StopSignal,
        ConnectionsClose, PublisherCloses, ExitCloses, SubscriptionsClose
  <2>2. ~DeadForwarderPushes /\ ~DeadLoopTakes
    BY DEF DeadForwarderPushes, Put, DeadLoopTakes
  <2>3. UNCHANGED deadForwarder /\ UNCHANGED deadLoop
    BY <2>2, LoopsChange DEF DeadForwarderTakes, DeadForwarderEnds, DeadLoopEnds
  <2>4. queue'["presumed"] = queue["presumed"]
    BY <1>0, <2>2, Channels
  <2> QED
    BY <2>1, <2>3, <2>4 DEF Stuck, Full
<1>3. CASE GenericFull
  <2> USE DEF GenericFull
  <2>1. PICK s \in Stream : reader[s] = "pushing"
    BY <1>3
  <2>2. UNCHANGED stage
    BY <1>3, StageChanges
    DEF StopBegins, ChannelsStopped, CloseIncoming, DiscoveryStops, IdMapperStops,
        ServiceToken, EmitterStops, DemultiplexerCloses, StopSignal,
        ConnectionsClose, PublisherCloses, ExitCloses, SubscriptionsClose
  <2>3. /\ ~ForwarderTakes /\ ~ForwarderPushes /\ ~AcceptorTakes
        /\ \A r \in Stream : ~ReaderPushes(r)
    BY <1>3 DEF ForwarderTakes, ForwarderPushes, AcceptorTakes, ReaderPushes, Put
  <2>4. UNCHANGED acceptor
    BY <1>3, <2>3, AcceptorChanges
    DEF AcceptorEnds, HandOver, Recover, AppReadLock, AcceptorPushes
  <2>5. UNCHANGED forwarder
    <3>1. ~ExitClosed
      BY <1>3, Order DEF IInv, StopOrder
    <3> QED
      BY <1>3, <2>3, <3>1, ForwarderChanges DEF ForwarderEnds
  <2>6. reader'[s] = "pushing"
    BY <2>1, <2>3, ReaderChanges DEF ReadLock, ReaderEnds, IInv, Typed
  <2>7. queue'["generic"] = queue["generic"] /\ queue'["specific"] = queue["specific"]
    BY <1>0, <2>3, Channels
  <2> QED
    BY <1>3, <2>2, <2>4, <2>5, <2>6, <2>7 DEF Stuck, Full
<1> QED
  BY <1>1, <1>2, <1>3 DEF Stuck

\* A Stop that meets one of the three full channels never returns: whatever else goes
\* on, nobody takes from that channel any more.
THEOREM StuckForEver == Spec => [](Stuck => []Stuck)
<1> QED
  BY InitIInv, StepIInv, StuckStep, PTL DEF Spec

-------------------------------------------------------------------------------
(* Where everything that can go on has gone on.                                   *)

\* What the tokens, once there, have ended or will end, and what Stop has waited for.
Loops == {"select", "pushing", "done"}
LoopsTyped ==
    /\ forwarder \in Loops /\ receiver \in Loops /\ deadForwarder \in Loops
    /\ messageLoop \in {"select", "done"} /\ deadLoop \in {"select", "done"}
    /\ reporting \in Nat
    /\ worker \subseteq GossipChannel \X {"publish", "request"}
    /\ stopped \subseteq GossipChannel

Running ==
    stage = "running" =>
        /\ token = {}
        /\ \A pc \in {forwarder, acceptor.pc, receiver, messageLoop, deadForwarder,
                      deadLoop} : pc # "done"
BeforeDiscovery == {"running", "channels", "incoming", "discovery"}
Tokens ==
    /\ stopped \subseteq token
    /\ stage \notin {"running", "channels"} => stopped = GossipChannel
    /\ stage \notin BeforeDiscovery => "discovery" \in token
    /\ stage \notin BeforeDiscovery \cup {"identities", "token"} => "service" \in token
AfterSignal == {"connections", "publisher", "exit", "goroutines", "done"}
Waited ==
    /\ stage \in AfterSignal => acceptor.pc = "done" /\ deadForwarder = "done"
    /\ forwarder = "done" => stage \in {"exit", "goroutines", "done"}
WInv == IInv /\ LoopsTyped /\ Running /\ Tokens /\ Waited

LEMMA InitWInv == Init => WInv
<1> SUFFICES ASSUME Init PROVE WInv
  OBVIOUS
<1>1. LoopsTyped /\ Running /\ Tokens /\ Waited
  BY DEF Init, LoopsTyped, Loops, Running, Tokens, BeforeDiscovery, Waited, AfterSignal
<1> QED
  BY <1>1, InitIInv DEF WInv

\* Nobody takes a token away, and only Stop puts one in.
LEMMA TokenChanges ==
    ASSUME [Next]_vars PROVE
    \/ UNCHANGED <<token, stopped>>
    \/ DiscoveryStops \/ ServiceToken \/ \E c \in GossipChannel : ChannelStops(c)
BY DEF Next, Progress, StopStep, vars, pipeline, deaths, periodic, unmoved, TakeToken,
       PutBack, SendFails, ReadLock,
       ReaderPushes, ReaderEnds, ForwarderTakes, ForwarderPushes, ForwarderEnds,
       AcceptorTakes, AcceptorEnds, HandOver, Recover, AppReadLock, AcceptorPushes,
       ReceiverTakes, ReceiverPushes, ReceiverEnds, ApplicationReads, MessageLoopEnds,
       Report, DeadForwarderTakes, DeadForwarderPushes, DeadForwarderEnds, DeadLoopTakes,
       DeadLoopEnds, SweepEnds, WorkerEnds, PurgeEnds, StopBegins, ChannelsStopped,
       CloseIncoming, IdMapperStops, EmitterStops, DemultiplexerCloses, StopSignal, ConnectionsClose, PublisherCloses,
       ExitCloses, SubscriptionsClose

LEMMA OthersChange ==
    ASSUME [Next]_vars PROVE
    /\ UNCHANGED messageLoop \/ MessageLoopEnds
    /\ UNCHANGED reporting \/ SendFails \/ Report
    /\ UNCHANGED worker \/ \E w \in worker : WorkerEnds(w)
BY DEF Next, Progress, StopStep, vars, pipeline, deaths, periodic, unmoved, ReadLock,
       SendFails, MessageLoopEnds, Report, WorkerEnds,
       ReaderPushes, ReaderEnds, ForwarderTakes, ForwarderPushes, ForwarderEnds,
       AcceptorTakes, AcceptorEnds, HandOver, Recover, AppReadLock, AcceptorPushes,
       ReceiverTakes, ReceiverPushes, ReceiverEnds, ApplicationReads,
       DeadForwarderTakes, DeadForwarderPushes, DeadForwarderEnds, DeadLoopTakes,
       DeadLoopEnds, SweepEnds, PurgeEnds, StopBegins, ChannelStops,
       ChannelsStopped, CloseIncoming, DiscoveryStops, IdMapperStops, ServiceToken,
       EmitterStops, DemultiplexerCloses, StopSignal, ConnectionsClose, PublisherCloses,
       ExitCloses, SubscriptionsClose

LEMMA LoopsStep == ASSUME LoopsTyped, [Next]_vars PROVE LoopsTyped'
<1> USE DEF LoopsTyped, Loops
<1>1. forwarder' \in Loops
  BY ForwarderChanges DEF ForwarderTakes, ForwarderPushes, ForwarderEnds
<1>2. receiver' \in Loops
  BY LoopsChange DEF ReceiverTakes, ReceiverPushes, ReceiverEnds
<1>3. deadForwarder' \in Loops
  BY LoopsChange DEF DeadForwarderTakes, DeadForwarderPushes, DeadForwarderEnds
<1>4. deadLoop' \in {"select", "done"}
  BY LoopsChange DEF DeadLoopTakes, DeadLoopEnds, AfterPeer
<1>5. messageLoop' \in {"select", "done"}
  BY OthersChange DEF MessageLoopEnds
<1>6. reporting' \in Nat
  BY OthersChange DEF SendFails, Report
<1>7. worker' \subseteq GossipChannel \X {"publish", "request"}
  BY OthersChange DEF WorkerEnds
<1>8. stopped' \subseteq GossipChannel
  BY TokenChanges DEF DiscoveryStops, ServiceToken, ChannelStops
<1> QED
  BY <1>1, <1>2, <1>3, <1>4, <1>5, <1>6, <1>7, <1>8

\* The stages follow one another, and each of these what it waits for.
Follows ==
    \/ stage' = stage
    \/ stage = "running" /\ stage' = "channels" /\ UNCHANGED token /\ UNCHANGED stopped
    \/ stage = "channels" /\ stopped = GossipChannel /\ stage' = "incoming"
         /\ UNCHANGED <<token, stopped>>
    \/ stage = "incoming" /\ stage' = "discovery"
    \/ stage = "discovery" /\ stage' = "identities" /\ "discovery" \in token'
    \/ stage = "identities" /\ stage' = "token"
    \/ stage = "token" /\ stage' = "emitter" /\ "service" \in token'
    \/ stage = "emitter" /\ stage' = "demultiplexer"
    \/ stage = "demultiplexer" /\ stage' = "signal"
    \/ stage = "signal" /\ stage' = "connections"
         /\ acceptor.pc = "done" /\ deadForwarder = "done"
    \/ stage = "connections" /\ stage' = "publisher"
    \/ stage = "publisher" /\ stage' = "exit"
    \/ stage = "exit" /\ stage' = "goroutines"
    \/ stage = "goroutines" /\ stage' = "done"

LEMMA StagesFollow == ASSUME [Next]_vars PROVE Follows
BY StageChanges
DEF Follows, StopBegins, ChannelsStopped, CloseIncoming, DiscoveryStops, IdMapperStops,
    ServiceToken, EmitterStops, DemultiplexerCloses, StopSignal, ConnectionsClose,
    PublisherCloses, ExitCloses, SubscriptionsClose

LEMMA TokensStep == ASSUME Tokens, LoopsTyped, [Next]_vars PROVE Tokens'
<1>1. token \subseteq token' /\ stopped \subseteq stopped'
  BY TokenChanges DEF DiscoveryStops, ServiceToken, ChannelStops, unmoved
<1>2. stopped' \subseteq token'
  <2>1. ASSUME NEW c \in GossipChannel, ChannelStops(c) PROVE stopped' \subseteq token'
    BY <2>1 DEF ChannelStops, ChannelToken, Tokens
  <2> QED
    BY <2>1, <1>1, TokenChanges DEF DiscoveryStops, ServiceToken, Tokens
<1>3. stopped' \subseteq GossipChannel
  BY LoopsStep DEF LoopsTyped
<1>4. stage' \notin {"running", "channels"} => stopped' = GossipChannel
  BY <1>1, <1>3, StagesFollow DEF Follows, Tokens
<1>5. stage' \notin BeforeDiscovery => "discovery" \in token'
  BY <1>1, StagesFollow DEF Follows, Tokens, BeforeDiscovery
<1>6. stage' \notin BeforeDiscovery \cup {"identities", "token"} => "service" \in token'
  BY <1>1, StagesFollow DEF Follows, Tokens, BeforeDiscovery
<1> QED
  BY <1>2, <1>4, <1>5, <1>6 DEF Tokens

\* Before Stop has begun nothing ends.
LEMMA RunningStep == ASSUME WInv, [Next]_vars PROVE Running'
<1> SUFFICES ASSUME stage' = "running"
             PROVE  /\ token' = {}
                    /\ forwarder' # "done" /\ acceptor'.pc # "done" /\ receiver' # "done"
                    /\ messageLoop' # "done" /\ deadForwarder' # "done"
                    /\ deadLoop' # "done"
  BY DEF Running
<1>1. stage = "running"
  BY StagesFollow DEF Follows
<1>2. /\ token = {}
      /\ forwarder # "done" /\ acceptor.pc # "done" /\ receiver # "done"
      /\ messageLoop # "done" /\ deadForwarder # "done" /\ deadLoop # "done"
  BY <1>1 DEF WInv, Running
<1>3. ~DiscoveryToDie /\ ~GenericClosed /\ ~ExitClosed
  BY <1>1, Order DEF WInv, IInv, StopOrder
<1>4. \A t : ~TakeToken(t)
  BY <1>2 DEF TakeToken
<1>5. token' = {}
  BY <1>1, <1>2, TokenChanges DEF DiscoveryStops, ServiceToken, ChannelStops
<1>6. forwarder' # "done"
  BY <1>2, <1>3, ForwarderChanges DEF ForwarderTakes, ForwarderPushes, ForwarderEnds
<1>7. acceptor'.pc # "done"
  <2>1. CASE AcceptorTakes
    BY <1>2, <2>1 DEF AcceptorTakes
  <2>2. CASE HandOver \/ Recover \/ AppReadLock
    BY <2>2 DEF HandOver, Recover, AppReadLock, WInv, IInv, Typed, AcceptorTyped,
                Acceptors
  <2>3. CASE AcceptorPushes
    BY <2>3 DEF AcceptorPushes
  <2> QED
    BY <1>2, <1>4, <2>1, <2>2, <2>3, AcceptorChanges DEF AcceptorEnds
<1>8. receiver' # "done"
  <2>1. ~AppClosed
    BY <1>1, Order DEF WInv, IInv, StopOrder
  <2> QED
    BY <1>2, <1>4, <2>1, LoopsChange DEF ReceiverTakes, ReceiverPushes, ReceiverEnds
<1>9. messageLoop' # "done"
  BY <1>2, <1>3, <1>4, OthersChange DEF MessageLoopEnds
<1>10. deadForwarder' # "done" /\ deadLoop' # "done"
  BY <1>2, <1>3, <1>4, LoopsChange
  DEF DeadForwarderTakes, DeadForwarderPushes, DeadForwarderEnds, DeadLoopTakes,
      DeadLoopEnds, AfterPeer
<1> QED
  BY <1>5, <1>6, <1>7, <1>8, <1>9, <1>10

\* Who is done stays so, and the forwarder is not done too soon.
LEMMA WaitedStep == ASSUME WInv, [Next]_vars PROVE Waited'
<1> USE DEF AfterSignal
<1>1. acceptor.pc = "done" => acceptor'.pc = "done"
  BY AcceptorChanges
  DEF AcceptorTakes, AcceptorEnds, HandOver, Recover, AppReadLock, AcceptorPushes
<1>2. deadForwarder = "done" => deadForwarder' = "done"
  BY LoopsChange DEF DeadForwarderTakes, DeadForwarderPushes, DeadForwarderEnds
<1>3. stage' \in AfterSignal => acceptor'.pc = "done" /\ deadForwarder' = "done"
  BY <1>1, <1>2, StagesFollow DEF Follows, WInv, Waited
<1>4. stage \in {"exit", "goroutines", "done"} => stage' \in {"exit", "goroutines", "done"}
  BY StagesFollow DEF Follows
<1>5. forwarder' = "done" /\ forwarder # "done" => stage \in {"exit", "goroutines", "done"}
  <2>1. GenericClosed \/ ExitClosed => stage \in {"exit", "goroutines", "done"}
    BY Order DEF WInv, IInv, StopOrder
  <2> QED
    BY <2>1, ForwarderChanges DEF ForwarderTakes, ForwarderPushes, ForwarderEnds
<1> QED
  BY <1>3, <1>4, <1>5 DEF WInv, Waited

LEMMA StepWInv == WInv /\ [Next]_vars => WInv'
BY StepIInv, LoopsStep, RunningStep, TokensStep, WaitedStep DEF WInv

LEMMA Invariance == Spec => []WInv
BY InitWInv, StepWInv, PTL DEF Spec

\* Every channel has room for one message.
LEMMA RoomForOne == \A q \in Place : Cap[q] \in Nat /\ Cap[q] > 0
BY ShutdownAssumption DEF Place, Cap

\* Nobody is left waiting to send on a channel whose receiver goes on.
LEMMA NotFullWhenEmpty == ASSUME NEW q \in Place, Full(q) PROVE queue[q] # 0
BY RoomForOne DEF Full

LEMMA Settling ==
    ASSUME WInv, Settled PROVE
    /\ receiver # "pushing"
    /\ acceptor.pc = "pushing" => receiver = "done"
    /\ deadForwarder = "pushing" => deadLoop = "done"
    /\ forwarder = "select" => \A s \in Stream : reader[s] # "pushing"
<1> USE DEF Place
<1>1. receiver # "pushing"
  BY NotFullWhenEmpty DEF Settled, ReceiverWaits
<1>2. acceptor.pc = "pushing" => receiver = "done"
  BY <1>1, NotFullWhenEmpty DEF Settled, AcceptorWaits, ReceiverWaits
<1>3. deadForwarder = "pushing" => deadLoop = "done"
  BY NotFullWhenEmpty DEF Settled, DeathsWait, DiscoveryWaits, WInv, LoopsTyped
<1>4. forwarder = "select" => \A s \in Stream : reader[s] # "pushing"
  BY NotFullWhenEmpty DEF Settled, ForwarderWaits, StreamsWait
<1> QED
  BY <1>1, <1>2, <1>3, <1>4

\* GossipService.Stop has returned wherever nothing goes on, but for the three states
\* that are never left: there is no fourth place where it can wait for ever.
THEOREM StopAlwaysReturns == Spec => []StopReturns
<1>1. ASSUME WInv, Settled, StopFlag PROVE stage = "done" \/ Stuck
  <2> USE <1>1
  <2>1. stage \in StageNames
    BY DEF WInv, IInv, StopOrder
  <2>2. stage \in {"demultiplexer", "signal", "publisher", "goroutines", "done"}
    <3>1. stage # "channels"
      BY DEF Settled, StopWaits, WInv, LoopsTyped
    <3> QED
      BY <2>1, <3>1, Order DEF Settled, StopWaits
  <2>3. CASE stage = "demultiplexer"
    BY <2>3, Settling DEF Settled, StopWaits, AcceptorWaits, Stuck, AppFull
  <2>4. CASE stage = "signal"
    <3>1. "service" \in token
      BY <2>4 DEF WInv, Tokens, BeforeDiscovery
    <3>2. IncChanClosed /\ AppClosed
      BY <2>1, <2>4, Order
    <3>3. acceptor.pc = "done"
      BY <2>4, <3>1, <3>2 DEF Settled, AcceptorWaits, WInv, IInv, ClosedAfterUse
    <3>4. deadForwarder = "pushing" /\ Full("presumed")
      BY <2>4, <3>1, <3>3 DEF Settled, StopWaits, DeathsWait
    <3> QED
      BY <2>4, <3>4, Settling DEF Stuck, PresumedFull
  <2>5. CASE stage = "publisher"
    <3>1. PICK s \in Stream : reader[s] = "pushing"
      BY <2>5 DEF Settled, StopWaits
    <3>2. Full("generic")
      BY <3>1 DEF Settled, StreamsWait
    <3>3. forwarder = "pushing" /\ Full("specific")
      BY <2>5, <3>1, Settling DEF Settled, ForwarderWaits, WInv, Waited
    <3>4. acceptor.pc = "done"
      BY <2>5 DEF WInv, Waited, AfterSignal
    <3> QED
      BY <2>5, <3>1, <3>2, <3>3, <3>4 DEF Stuck, GenericFull
  <2>6. CASE stage = "goroutines"
    <3>1. ExitClosed /\ GenericClosed
      BY <2>1, <2>6, Order
    <3> QED
      BY <2>6, <3>1 DEF Settled, StopWaits, ForwarderWaits
  <2> QED
    BY <2>2, <2>3, <2>4, <2>5, <2>6
<1>2. WInv => StopReturns
  BY <1>1 DEF StopReturns, Stuck
<1> QED
  BY <1>2, Invariance, PTL

\* While the service runs, whatever arrived or failed reaches the end of its way.
THEOREM NothingEverStalls == Spec => []NothingStalls
<1>1. ASSUME WInv, Settled, ~StopFlag
      PROVE  /\ \A q \in Place : queue[q] = 0
             /\ acceptor.pc = "select" /\ reporting = 0
  <2> USE <1>1
  <2>1. stage = "running"
    BY Order DEF WInv, IInv, StopOrder
  <2>2. /\ forwarder # "done" /\ acceptor.pc # "done" /\ receiver # "done"
        /\ messageLoop # "done" /\ deadForwarder # "done" /\ deadLoop # "done"
    BY <2>1 DEF WInv, Running
  <2>3. acceptor.pc = "select" /\ queue["specific"] = 0
    BY <2>1, <2>2, Settling DEF Settled, AcceptorWaits
  <2>4. receiver = "select" /\ queue["app"] = 0
    BY <2>2, Settling DEF Settled, ReceiverWaits
  <2>5. deadForwarder = "select" /\ queue["dead"] = 0
    BY <2>2, Settling DEF Settled, DeathsWait
  <2>6. queue["presumed"] = 0
    BY <2>2 DEF Settled, DiscoveryWaits, WInv, LoopsTyped
  <2>7. queue["generic"] = 0
    BY <2>2, <2>3, NotFullWhenEmpty DEF Settled, ForwarderWaits, Place
  <2>8. reporting = 0
    BY <2>5, NotFullWhenEmpty DEF Settled, DeathsWait, Place
  <2> QED
    BY <2>3, <2>4, <2>5, <2>6, <2>7, <2>8 DEF Settled, Place
<1>2. WInv => NothingStalls
  BY <1>1 DEF NothingStalls
<1> QED
  BY <1>2, Invariance, PTL

\* When Stop has returned and nothing goes on, every goroutine has ended; a failed send
\* may be left, before the full channel that nobody reads any more.
THEOREM NothingEverLeaks == Spec => []NothingLeaks
<1>1. ASSUME WInv, Settled, stage = "done" PROVE Ended
  <2> USE <1>1
  <2>1. /\ "service" \in token /\ "discovery" \in token
        /\ \A c \in GossipChannel : c \in token
    BY DEF WInv, Tokens, BeforeDiscovery
  <2>2. CommStopping /\ GenericClosed /\ DiscoveryToDie
    BY Order DEF WInv, IInv, StopOrder
  <2>3. \A s \in Stream : reader[s] = "ended"
    BY <2>2 DEF Settled, StreamsWait, WInv, IInv, ClosedAfterUse
  <2>4. forwarder = "done" /\ acceptor.pc = "done" /\ deadForwarder = "done"
    BY DEF WInv, IInv, StopOrder, Waited, AfterSignal
  <2>5. receiver = "done"
    BY <2>1, Settling DEF Settled, ReceiverWaits
  <2>6. messageLoop = "done" /\ deadLoop = "done"
    BY <2>1 DEF Settled, DiscoveryWaits, WInv, LoopsTyped
  <2>7. worker = {}
    BY <2>1 DEF Settled, WInv, LoopsTyped
  <2>8. reporting = 0 \/ Full("dead")
    BY DEF Settled, DeathsWait
  <2> QED
    BY <2>3, <2>4, <2>5, <2>6, <2>7, <2>8 DEF Ended
<1>2. WInv => NothingLeaks
  BY <1>1 DEF NothingLeaks
<1> QED
  BY <1>2, Invariance, PTL

-------------------------------------------------------------------------------
(* Why the steps come to an end.                                                  *)

\* What is swept and purged.
PeriodicTyped == sweeping \subseteq GossipChannel /\ purging \in BOOLEAN

LEMMA PeriodicStep == ASSUME PeriodicTyped, [Next]_vars PROVE PeriodicTyped'
<1>1. UNCHANGED <<sweeping, purging>> \/ PurgeEnds \/ \E c \in GossipChannel : SweepEnds(c)
  BY DEF Next, Progress, StopStep, vars, pipeline, deaths, periodic, unmoved, SendFails,
     ReadLock, ReaderPushes, ReaderEnds, ForwarderTakes, ForwarderPushes, ForwarderEnds,
     AcceptorTakes, AcceptorEnds, HandOver, Recover, AppReadLock, AcceptorPushes,
     ReceiverTakes, ReceiverPushes, ReceiverEnds, ApplicationReads, MessageLoopEnds,
     Report, DeadForwarderTakes, DeadForwarderPushes, DeadForwarderEnds, DeadLoopTakes,
     DeadLoopEnds, WorkerEnds, StopBegins, ChannelStops, ChannelsStopped, CloseIncoming,
     DiscoveryStops, IdMapperStops, ServiceToken, EmitterStops, DemultiplexerCloses,
     StopSignal, ConnectionsClose, PublisherCloses, ExitCloses, SubscriptionsClose
<1> QED
  BY <1>1 DEF PeriodicTyped, PurgeEnds, SweepEnds

\* What is counted is finite.
LEMMA Counted ==
    ASSUME WInv, PeriodicTyped PROVE
    /\ \A pc : IsFiniteSet(In(pc)) /\ Cardinality(In(pc)) \in Nat
    /\ IsFiniteSet(worker) /\ Cardinality(worker) \in Nat
    /\ IsFiniteSet(sweeping) /\ Cardinality(sweeping) \in Nat
    /\ IsFiniteSet(GossipChannel \ stopped) /\ Cardinality(GossipChannel \ stopped) \in Nat
<1>1. ASSUME NEW pc PROVE IsFiniteSet(In(pc))
  BY FS_Subset, ShutdownAssumption DEF In
<1>2. IsFiniteSet(worker)
  <2>1. IsFiniteSet({"publish", "request"})
    <3>1. IsFiniteSet({"publish"})
      BY FS_Singleton, Zenon
    <3>2. {"publish", "request"} = {"publish"} \cup {"request"}
      OBVIOUS
    <3> QED
      BY <3>1, <3>2, FS_AddElement
  <2>2. IsFiniteSet(GossipChannel \X {"publish", "request"})
    BY <2>1, FS_Product, ShutdownAssumption
  <2> QED
    BY <2>2, FS_Subset DEF WInv, LoopsTyped
<1>3. IsFiniteSet(sweeping)
  BY FS_Subset, ShutdownAssumption DEF PeriodicTyped
<1>4. IsFiniteSet(GossipChannel \ stopped)
  BY FS_Difference, ShutdownAssumption
<1> QED
  BY <1>1, <1>2, <1>3, <1>4, FS_CardinalityType

LEMMA HoldsFew ==
    /\ Holds["done"] = 0 /\ Holds["ended"] = 0 /\ Holds["select"] = 1 /\ Holds["pushing"] = 3
    /\ \A l \in Loops : Holds[l] \in 0 .. 3
BY DEF Holds, Loops

LEMMA Numbers ==
    ASSUME WInv, PeriodicTyped PROVE
    /\ Arriving \in Nat /\ Delivering \in Nat /\ Reported \in Nat /\ Standing \in Nat
<1>1. \A q \in Place : queue[q] \in Nat
  BY DEF WInv, IInv, Typed, Queues
<1>2. Arriving \in Nat
  BY <1>1, Counted, HoldsFew DEF Arriving, WInv, LoopsTyped, Place
<1>3. Delivering \in Nat
  BY <1>1, HoldsFew, ShutdownAssumption
  DEF Delivering, WInv, LoopsTyped, Place, IInv, Typed, AcceptorTyped, Acceptors
<1>4. Reported \in Nat
  BY <1>1, HoldsFew DEF Reported, WInv, LoopsTyped, Place, Loops
<1>5. Standing \in Nat
  <2>1. Position(stage) \in 1 .. 14
    BY Positions DEF WInv, IInv, StopOrder, StageNames
  <2>2. Holds[messageLoop] \in 0 .. 3
    BY HoldsFew DEF WInv, LoopsTyped, Loops
  <2> QED
    BY <2>1, <2>2, Counted DEF Standing
<1> QED
  BY <1>2, <1>3, <1>4, <1>5

\* What leaves a part of the work as it is.
LEMMA ArrivingSame ==
    ASSUME UNCHANGED <<reader, forwarder>>, queue'["generic"] = queue["generic"],
           queue'["specific"] = queue["specific"]
    PROVE  Arriving' = Arriving
BY DEF Arriving, In, Holds

LEMMA DeliveringSame ==
    ASSUME UNCHANGED <<acceptor, receiver>>, queue'["app"] = queue["app"],
           queue'["out"] = queue["out"]
    PROVE  Delivering' = Delivering
BY DEF Delivering, Holds

LEMMA ReportedSame ==
    ASSUME UNCHANGED deaths, queue'["dead"] = queue["dead"],
           queue'["presumed"] = queue["presumed"]
    PROVE  Reported' = Reported
BY DEF Reported, Holds, deaths

LEMMA StandingSame ==
    ASSUME UNCHANGED <<periodic, messageLoop, stopped, stage>> PROVE Standing' = Standing
BY DEF Standing, Holds, periodic, Position, Stages

LEMMA Moving ==
    ASSUME Queues, NEW q \in Place PROVE
    /\ Put(q) => queue'[q] = queue[q] + 1 /\ \A r \in Place \ {q} : queue'[r] = queue[r]
    /\ Take(q) => queue'[q] = queue[q] - 1 /\ \A r \in Place \ {q} : queue'[r] = queue[r]
BY DEF Queues, Put, Take

\* The steps of the messages that arrive, ...
LEMMA ArrivingSteps ==
    ASSUME WInv, PeriodicTyped,
           \/ \E s \in Stream : ReaderPushes(s) \/ ReaderEnds(s)
           \/ ForwarderTakes \/ ForwarderPushes \/ ForwarderEnds \/ AcceptorTakes
    PROVE  /\ Arriving' \in Int /\ Arriving' < Arriving
           /\ Reported' = Reported /\ Standing' = Standing
<1> DEFINE Fewer == Arriving' \in Int /\ Arriving' < Arriving
    pushing == Cardinality(In("pushing"))
    select == Cardinality(In("select"))
<1> USE HoldsFew DEF Place
<1>0. Queues /\ reader \in [Stream -> Readers] /\ forwarder \in Loops
  BY DEF WInv, IInv, Typed, LoopsTyped
<1>1. /\ \A q \in Place : queue[q] \in Nat
      /\ pushing \in Nat /\ select \in Nat
      /\ IsFiniteSet(In("pushing")) /\ IsFiniteSet(In("select"))
  BY <1>0, Counted DEF Queues
<1>2. /\ Arriving = 5 * pushing + select + 3 * queue["generic"] + Holds[forwarder]
                      + queue["specific"]
      /\ Arriving' = 5 * pushing' + select' + 3 * queue'["generic"] + Holds[forwarder']
                       + queue'["specific"]
  BY DEF Arriving, In, Holds
<1>3. ASSUME NEW s \in Stream, ReaderPushes(s) PROVE Fewer
  <2>1. reader[s] = "pushing" /\ reader' = [reader EXCEPT ![s] = "select"]
    BY <1>3 DEF ReaderPushes
  <2>2. In("pushing")' = In("pushing") \ {s} /\ s \in In("pushing")
    BY <1>0, <2>1 DEF In
  <2>3. In("select")' = In("select") \cup {s} /\ s \notin In("select")
    BY <1>0, <2>1 DEF In
  <2>4. pushing' = pushing - 1 /\ select' = select + 1
    BY <1>1, <2>2, <2>3, FS_RemoveElement, FS_AddElement
  <2>5. queue'["generic"] = queue["generic"] + 1 /\ queue'["specific"] = queue["specific"]
    BY <1>0, <1>3, Moving DEF ReaderPushes
  <2>6. forwarder' = forwarder
    BY <1>3 DEF ReaderPushes
  <2> HIDE DEF pushing, select
  <2> QED
    BY <1>0, <1>1, <1>2, <2>4, <2>5, <2>6
<1>4. ASSUME NEW s \in Stream, ReaderEnds(s) PROVE Fewer
  <2>1. /\ reader[s] = "select" /\ reader' = [reader EXCEPT ![s] = "ended"]
        /\ forwarder' = forwarder /\ queue' = queue
    BY <1>4 DEF ReaderEnds
  <2>2. In("pushing")' = In("pushing")
    BY <1>0, <2>1 DEF In
  <2>3. In("select")' = In("select") \ {s} /\ s \in In("select")
    BY <1>0, <2>1 DEF In
  <2>4. pushing' = pushing /\ select' = select - 1
    BY <1>1, <2>2, <2>3, FS_RemoveElement
  <2> HIDE DEF pushing, select
  <2> QED
    BY <1>0, <1>1, <1>2, <2>1, <2>4
<1>5. ASSUME UNCHANGED reader PROVE pushing' = pushing /\ select' = select
  BY <1>5 DEF In
<1> HIDE DEF pushing, select
<1>6. ASSUME ForwarderTakes PROVE Fewer
  <2>1. queue'["generic"] = queue["generic"] - 1 /\ queue'["specific"] = queue["specific"]
    BY <1>0, <1>6, Moving DEF ForwarderTakes
  <2>2. forwarder = "select" /\ forwarder' = "pushing" /\ UNCHANGED reader
    BY <1>6 DEF ForwarderTakes
  <2> QED
    BY <1>1, <1>2, <1>5, <2>1, <2>2
<1>7. ASSUME ForwarderPushes PROVE Fewer
  <2>1. queue'["generic"] = queue["generic"] /\ queue'["specific"] = queue["specific"] + 1
    BY <1>0, <1>7, Moving DEF ForwarderPushes
  <2>2. forwarder = "pushing" /\ forwarder' = "select" /\ UNCHANGED reader
    BY <1>7 DEF ForwarderPushes
  <2> QED
    BY <1>1, <1>2, <1>5, <2>1, <2>2
<1>8. ASSUME ForwarderEnds PROVE Fewer
  <2>1. forwarder # "done" /\ forwarder' = "done" /\ UNCHANGED <<reader, queue>>
    BY <1>8 DEF ForwarderEnds
  <2>2. Holds[forwarder] \in {1, 3}
    BY <1>0, <2>1 DEF Loops
  <2> QED
    BY <1>1, <1>2, <1>5, <2>1, <2>2
<1>9. ASSUME AcceptorTakes PROVE Fewer
  <2>1. queue'["generic"] = queue["generic"] /\ queue'["specific"] = queue["specific"] - 1
    BY <1>0, <1>9, Moving DEF AcceptorTakes
  <2>2. UNCHANGED <<reader, forwarder>>
    BY <1>9 DEF AcceptorTakes
  <2> QED
    BY <1>0, <1>1, <1>2, <1>5, <2>1, <2>2
<1>10. Fewer
  BY <1>3, <1>4, <1>6, <1>7, <1>8, <1>9
<1>11. Reported' = Reported
  <2>1. queue'["dead"] = queue["dead"] /\ queue'["presumed"] = queue["presumed"]
    BY <1>0, Moving
    DEF ReaderPushes, ReaderEnds, ForwarderTakes, ForwarderPushes, ForwarderEnds, AcceptorTakes
  <2> QED
    BY <2>1, ReportedSame
    DEF ReaderPushes, ReaderEnds, ForwarderTakes, ForwarderPushes, ForwarderEnds, AcceptorTakes
<1>12. Standing' = Standing
  BY StandingSame
  DEF ReaderPushes, ReaderEnds, ForwarderTakes, ForwarderPushes, ForwarderEnds, AcceptorTakes
<1> QED
  BY <1>10, <1>11, <1>12

\* ... of the items for the application, ...
LEMMA DeliveringSteps ==
    ASSUME WInv, PeriodicTyped,
           \/ AcceptorEnds \/ HandOver \/ Recover \/ AppReadLock \/ AcceptorPushes
           \/ ReceiverTakes \/ ReceiverPushes \/ ReceiverEnds \/ ApplicationReads
    PROVE  /\ Delivering' \in Int /\ Delivering' < Delivering
           /\ Arriving' = Arriving /\ Reported' = Reported /\ Standing' = Standing
<1> DEFINE Fewer == Delivering' \in Int /\ Delivering' < Delivering
    Left(a) == [done |-> 0, select |-> 1, forwarding |-> 2, delivering |-> 6 * a.left + 1,
                pushing |-> 6 * a.left][a.pc]
<1> USE HoldsFew DEF Place
<1>0. /\ Queues /\ receiver \in Loops /\ acceptor \in Acceptors
      /\ acceptor.pc \in {"delivering", "pushing"} => acceptor.left # 0
  BY DEF WInv, IInv, Typed, AcceptorTyped, LoopsTyped
<1>1. (\A q \in Place : queue[q] \in Nat) /\ acceptor.left \in 0 .. MaxBurst /\ MaxBurst \in Nat
  BY <1>0, ShutdownAssumption DEF Queues, Acceptors
<1>2. /\ Delivering = Left(acceptor) + 3 * queue["app"] + Holds[receiver] + queue["out"]
      /\ Delivering' = Left(acceptor') + 3 * queue'["app"] + Holds[receiver'] + queue'["out"]
  BY DEF Delivering, Holds
<1>3. /\ acceptor.pc = "done" => Left(acceptor) = 0
      /\ acceptor.pc = "select" => Left(acceptor) = 1
      /\ acceptor.pc = "forwarding" => Left(acceptor) = 2
      /\ acceptor.pc = "delivering" => Left(acceptor) = 6 * acceptor.left + 1
      /\ acceptor.pc = "pushing" => Left(acceptor) = 6 * acceptor.left
  OBVIOUS
<1>4. /\ acceptor'.pc = "done" => Left(acceptor') = 0
      /\ acceptor'.pc = "select" => Left(acceptor') = 1
      /\ acceptor'.pc = "delivering" => Left(acceptor') = 6 * acceptor'.left + 1
      /\ acceptor'.pc = "pushing" => Left(acceptor') = 6 * acceptor'.left
  OBVIOUS
<1>5. Left(acceptor) \in Nat
  BY <1>0, <1>1, <1>3 DEF Acceptors
<1> HIDE DEF Left
<1>6. ASSUME AcceptorEnds \/ HandOver \/ Recover PROVE Fewer
  <2>1. /\ \/ acceptor.pc = "select" /\ acceptor'.pc = "done"
           \/ acceptor.pc = "forwarding" /\ acceptor'.pc = "select"
        /\ UNCHANGED <<receiver, queue>>
    BY <1>0, <1>6 DEF AcceptorEnds, HandOver, Recover, Acceptors
  <2> QED
    BY <1>0, <1>1, <1>2, <1>3, <1>4, <2>1
<1>7. ASSUME AppReadLock PROVE Fewer
  <2>1. /\ acceptor.pc = "delivering" /\ UNCHANGED <<receiver, queue>>
        /\ \/ acceptor'.pc = "select"
           \/ (acceptor'.pc = "pushing" /\ acceptor'.left = acceptor.left)
    BY <1>0, <1>7 DEF AppReadLock, Acceptors
  <2> QED
    BY <1>0, <1>1, <1>2, <1>3, <1>4, <2>1
<1>8. ASSUME AcceptorPushes PROVE Fewer
  <2>1. /\ acceptor.pc = "pushing" /\ UNCHANGED receiver
        /\ acceptor'.pc = IF acceptor.left = 1 THEN "select" ELSE "delivering"
        /\ acceptor'.left = acceptor.left - 1
    BY <1>8 DEF AcceptorPushes, ItemsLeft
  <2>2. queue'["app"] = queue["app"] + 1 /\ queue'["out"] = queue["out"]
    BY <1>0, <1>8, Moving DEF AcceptorPushes
  <2> QED
    BY <1>0, <1>1, <1>2, <1>3, <1>4, <2>1, <2>2
<1>9. ASSUME ReceiverTakes PROVE Fewer
  <2>1. queue'["app"] = queue["app"] - 1 /\ queue'["out"] = queue["out"]
    BY <1>0, <1>9, Moving DEF ReceiverTakes
  <2> QED
    BY <1>1, <1>2, <1>5, <1>9, <2>1 DEF ReceiverTakes
<1>10. ASSUME ReceiverPushes PROVE Fewer
  <2>1. queue'["app"] = queue["app"] /\ queue'["out"] = queue["out"] + 1
    BY <1>0, <1>10, Moving DEF ReceiverPushes
  <2> QED
    BY <1>1, <1>2, <1>5, <1>10, <2>1 DEF ReceiverPushes
<1>11. ASSUME ReceiverEnds PROVE Fewer
  BY <1>1, <1>2, <1>5, <1>11 DEF ReceiverEnds
<1>12. ASSUME ApplicationReads PROVE Fewer
  <2>1. queue'["app"] = queue["app"] /\ queue'["out"] = queue["out"] - 1
    BY <1>0, <1>12, Moving DEF ApplicationReads
  <2>2. UNCHANGED <<acceptor, receiver>>
    BY <1>12 DEF ApplicationReads, pipeline
  <2> QED
    BY <1>0, <1>1, <1>2, <1>5, <2>1, <2>2
<1>13. /\ queue'["dead"] = queue["dead"] /\ queue'["presumed"] = queue["presumed"]
       /\ queue'["generic"] = queue["generic"] /\ queue'["specific"] = queue["specific"]
  BY <1>0, Moving
  DEF AcceptorEnds, HandOver, Recover, AppReadLock, AcceptorPushes, ReceiverTakes,
      ReceiverPushes, ReceiverEnds, ApplicationReads
<1>14. UNCHANGED <<reader, forwarder, deaths, periodic, messageLoop, stopped, stage>>
  BY DEF AcceptorEnds, HandOver, Recover, AppReadLock, AcceptorPushes, ReceiverTakes,
      ReceiverPushes, ReceiverEnds, ApplicationReads, pipeline
<1> QED
  BY <1>6, <1>7, <1>8, <1>9, <1>10, <1>11, <1>12, <1>13, <1>14,
     ArrivingSame, ReportedSame, StandingSame

\* ... of the failures that are reported, ...
LEMMA ReportedSteps ==
    ASSUME WInv, PeriodicTyped,
           \/ Report \/ DeadForwarderTakes \/ DeadForwarderPushes \/ DeadForwarderEnds
           \/ DeadLoopTakes \/ DeadLoopEnds
    PROVE  /\ Reported' \in Int /\ Reported' < Reported
           /\ Arriving' = Arriving /\ Delivering' = Delivering /\ Standing' = Standing
<1> DEFINE Fewer == Reported' \in Int /\ Reported' < Reported
<1> USE HoldsFew DEF Place
<1>0. /\ Queues /\ deadForwarder \in Loops /\ deadLoop \in {"select", "done"}
      /\ reporting \in Nat /\ \A q \in Place : queue[q] \in Nat
  BY DEF WInv, IInv, Typed, LoopsTyped, Queues
<1>1. /\ Reported = 4 * reporting + 3 * queue["dead"] + Holds[deadForwarder]
                      + queue["presumed"] + Holds[deadLoop]
      /\ Reported' = 4 * reporting' + 3 * queue'["dead"] + Holds[deadForwarder']
                       + queue'["presumed"] + Holds[deadLoop']
      /\ Holds[deadForwarder] \in Nat /\ Holds[deadLoop] \in {0, 1}
  BY <1>0 DEF Reported, Holds, Loops
<1>2. ASSUME Report PROVE Fewer
  <2>1. queue'["dead"] = queue["dead"] + 1 /\ queue'["presumed"] = queue["presumed"]
    BY <1>0, <1>2, Moving DEF Report
  <2> QED
    BY <1>0, <1>1, <1>2, <2>1 DEF Report
<1>3. ASSUME DeadForwarderTakes PROVE Fewer
  <2>1. queue'["dead"] = queue["dead"] - 1 /\ queue'["presumed"] = queue["presumed"]
    BY <1>0, <1>3, Moving DEF DeadForwarderTakes
  <2> QED
    BY <1>0, <1>1, <1>3, <2>1 DEF DeadForwarderTakes
<1>4. ASSUME DeadForwarderPushes PROVE Fewer
  <2>1. queue'["dead"] = queue["dead"] /\ queue'["presumed"] = queue["presumed"] + 1
    BY <1>0, <1>4, Moving DEF DeadForwarderPushes
  <2> QED
    BY <1>0, <1>1, <1>4, <2>1 DEF DeadForwarderPushes
<1>5. ASSUME DeadForwarderEnds \/ DeadLoopEnds PROVE Fewer
  BY <1>0, <1>1, <1>5 DEF DeadForwarderEnds, DeadLoopEnds
<1>6. ASSUME DeadLoopTakes PROVE Fewer
  <2>1. queue'["dead"] = queue["dead"] /\ queue'["presumed"] = queue["presumed"] - 1
    BY <1>0, <1>6, Moving DEF DeadLoopTakes
  <2>2. Holds[deadLoop] = 1 /\ Holds[deadLoop'] \in {0, 1}
    BY <1>6 DEF DeadLoopTakes, AfterPeer
  <2>3. UNCHANGED <<reporting, deadForwarder>>
    BY <1>6 DEF DeadLoopTakes
  <2> QED
    BY <1>0, <1>1, <2>1, <2>2, <2>3
<1>7. /\ queue'["app"] = queue["app"] /\ queue'["out"] = queue["out"]
      /\ queue'["generic"] = queue["generic"] /\ queue'["specific"] = queue["specific"]
  BY <1>0, Moving
  DEF Report, DeadForwarderTakes, DeadForwarderPushes, DeadForwarderEnds, DeadLoopTakes,
      DeadLoopEnds
<1>8. UNCHANGED <<pipeline, periodic, messageLoop, stopped, stage>>
  BY DEF Report, DeadForwarderTakes, DeadForwarderPushes, DeadForwarderEnds, DeadLoopTakes,
      DeadLoopEnds
<1>9. UNCHANGED <<reader, forwarder, acceptor, receiver>>
  BY <1>8 DEF pipeline
<1> QED
  BY <1>2, <1>3, <1>4, <1>5, <1>6, <1>7, <1>8, <1>9,
     ArrivingSame, DeliveringSame, StandingSame

\* ... and of those that are to end, and of Stop.
LEMMA StandingSteps ==
    ASSUME WInv, PeriodicTyped,
           \/ StopStep \/ MessageLoopEnds \/ PurgeEnds
           \/ (\E c \in GossipChannel : SweepEnds(c)) \/ \E w \in worker : WorkerEnds(w)
    PROVE  /\ Standing' \in Int /\ Standing' < Standing
           /\ Arriving' = Arriving /\ Delivering' = Delivering /\ Reported' = Reported
<1> DEFINE Fewer == Standing' \in Int /\ Standing' < Standing
    working == Cardinality(worker)
    swept == Cardinality(sweeping)
    open == Cardinality(GossipChannel \ stopped)
    Bit(b) == IF b THEN 1 ELSE 0
<1>1. /\ working \in Nat /\ swept \in Nat /\ open \in Nat
      /\ IsFiniteSet(worker) /\ IsFiniteSet(sweeping) /\ IsFiniteSet(GossipChannel \ stopped)
  BY Counted
<1>2. Position(stage) \in Int /\ Holds[messageLoop] \in Nat /\ Bit(purging) \in Nat
  BY HoldsFew, Positions
  DEF WInv, IInv, StopOrder, StageNames, LoopsTyped, Loops
<1>3. /\ Standing = working + swept + Bit(purging) + Holds[messageLoop] + open
                      + 14 - Position(stage)
      /\ Standing' = Cardinality(worker') + Cardinality(sweeping') + Bit(purging')
                       + Holds[messageLoop'] + Cardinality(GossipChannel \ stopped')
                       + 14 - Position(stage')
  BY DEF Standing, Holds, Position, Stages
<1> HIDE DEF Bit
<1>4. ASSUME NEW i \in 1 .. 14, NEW j \in 1 .. 14, stage = Stages[i], stage' = Stages[j],
             j > i, UNCHANGED <<worker, sweeping, purging, messageLoop, stopped>>
      PROVE  Fewer
  <2>1. Position(stage) = i /\ Position(stage') = j
    BY <1>4, Positions
  <2> QED
    BY <1>1, <1>2, <1>3, <1>4, <2>1
<1>5. ASSUME StopStep, \A c \in GossipChannel : ~ChannelStops(c) PROVE Fewer
  <2>1. UNCHANGED <<worker, sweeping, purging, messageLoop, stopped>>
    BY <1>5
    DEF StopStep, ChannelsStopped, CloseIncoming, DiscoveryStops, IdMapperStops, ServiceToken,
        EmitterStops, DemultiplexerCloses, StopSignal, ConnectionsClose, PublisherCloses,
        ExitCloses, SubscriptionsClose, unmoved, periodic
  <2>2. \E i, j \in 1 .. 14 : stage = Stages[i] /\ stage' = Stages[j] /\ j > i
    BY <1>5
    DEF StopStep, ChannelsStopped, CloseIncoming, DiscoveryStops, IdMapperStops, ServiceToken,
        EmitterStops, DemultiplexerCloses, StopSignal, ConnectionsClose, PublisherCloses,
        ExitCloses, SubscriptionsClose, Stages
  <2> QED
    BY <1>4, <2>1, <2>2
<1>6. ASSUME NEW c \in GossipChannel, ChannelStops(c) PROVE Fewer
  <2>1. /\ c \in GossipChannel \ stopped
        /\ GossipChannel \ stopped' = (GossipChannel \ stopped) \ {c}
        /\ UNCHANGED <<worker, sweeping, purging, messageLoop, stage>>
    BY <1>6 DEF ChannelStops, unmoved, periodic
  <2>2. Cardinality(GossipChannel \ stopped') = open - 1
    BY <1>1, <2>1, FS_RemoveElement
  <2> HIDE DEF open
  <2> QED
    BY <1>1, <1>2, <1>3, <2>1, <2>2
<1>7. ASSUME MessageLoopEnds PROVE Fewer
  <2>1. /\ messageLoop = "select" /\ messageLoop' = "done"
        /\ UNCHANGED <<worker, sweeping, purging, stopped, stage>>
    BY <1>7 DEF MessageLoopEnds, periodic
  <2> QED
    BY <1>1, <1>2, <1>3, <2>1, HoldsFew
<1>8. ASSUME PurgeEnds PROVE Fewer
  <2>1. /\ purging = TRUE /\ purging' = FALSE
        /\ UNCHANGED <<worker, sweeping, messageLoop, stopped, stage>>
    BY <1>8 DEF PurgeEnds, PeriodicTyped
  <2>2. Bit(purging) = 1 /\ Bit(purging') = 0
    BY <2>1 DEF Bit
  <2> QED
    BY <1>1, <1>2, <1>3, <2>1, <2>2
<1>9. ASSUME NEW c \in GossipChannel, SweepEnds(c) PROVE Fewer
  <2>1. /\ c \in sweeping /\ sweeping' = sweeping \ {c}
        /\ UNCHANGED <<worker, purging, messageLoop, stopped, stage>>
    BY <1>9 DEF SweepEnds
  <2>2. Cardinality(sweeping') = swept - 1
    BY <1>1, <2>1, FS_RemoveElement
  <2> HIDE DEF swept
  <2> QED
    BY <1>1, <1>2, <1>3, <2>1, <2>2
<1>10. ASSUME NEW w \in worker, WorkerEnds(w) PROVE Fewer
  <2>1. /\ worker' = worker \ {w}
        /\ UNCHANGED <<sweeping, purging, messageLoop, stopped, stage>>
    BY <1>10 DEF WorkerEnds
  <2>2. Cardinality(worker') = working - 1
    BY <1>1, <2>1, FS_RemoveElement
  <2> HIDE DEF working
  <2> QED
    BY <1>1, <1>2, <1>3, <2>1, <2>2
<1>11. UNCHANGED <<queue, pipeline, deaths>>
  BY DEF StopStep, ChannelStops, ChannelsStopped, CloseIncoming, DiscoveryStops,
        IdMapperStops, ServiceToken, EmitterStops, DemultiplexerCloses, StopSignal,
        ConnectionsClose, PublisherCloses, ExitCloses, SubscriptionsClose, unmoved,
        MessageLoopEnds, PurgeEnds, SweepEnds, WorkerEnds
<1>12. UNCHANGED <<queue, reader, forwarder, acceptor, receiver, deaths>>
  BY <1>11 DEF pipeline
<1>13. Fewer
  BY <1>5, <1>6, <1>7, <1>8, <1>9, <1>10
<1> QED
  BY <1>12, <1>13, ArrivingSame, DeliveringSame, ReportedSame

\* What goes on without anything from outside comes to an end: each step leaves less to
\* do, in the channels and for the goroutines that Stop ends.  So Stop returns or waits
\* on a full channel, and nothing keeps it busy for ever.
THEOREM EveryStepAlwaysUsesUp == Spec => EveryStepUsesUp
<1>1. Init => WInv /\ PeriodicTyped
  BY InitWInv DEF Init, PeriodicTyped
<1>2. WInv /\ PeriodicTyped /\ [Next]_vars => (WInv /\ PeriodicTyped)'
  BY StepWInv, PeriodicStep
<1>3. ASSUME WInv, PeriodicTyped, Progress PROVE LessToDo
  <2> DEFINE
    Arrives == \/ \E s \in Stream : ReaderPushes(s) \/ ReaderEnds(s)
               \/ ForwarderTakes \/ ForwarderPushes \/ ForwarderEnds \/ AcceptorTakes
    Delivers == \/ AcceptorEnds \/ HandOver \/ Recover \/ AppReadLock \/ AcceptorPushes
                \/ ReceiverTakes \/ ReceiverPushes \/ ReceiverEnds \/ ApplicationReads
    Reports == \/ Report \/ DeadForwarderTakes \/ DeadForwarderPushes \/ DeadForwarderEnds
               \/ DeadLoopTakes \/ DeadLoopEnds
    Stands == \/ StopStep \/ MessageLoopEnds \/ PurgeEnds
              \/ (\E c \in GossipChannel : SweepEnds(c))
              \/ \E w \in worker : WorkerEnds(w)
  <2>1. Arrives \/ Delivers \/ Reports \/ Stands
    BY <1>3 DEF Progress
  <2>2. Arriving \in Nat /\ Delivering \in Nat /\ Reported \in Nat /\ Standing \in Nat
    BY <1>3, Numbers
  <2>3. Arrives => /\ Arriving' \in Int /\ Arriving' < Arriving
                   /\ Reported' = Reported /\ Standing' = Standing
    BY <1>3, ArrivingSteps, Zenon
  <2>4. Delivers => /\ Delivering' \in Int /\ Delivering' < Delivering
                    /\ Arriving' = Arriving /\ Reported' = Reported /\ Standing' = Standing
    BY <1>3, DeliveringSteps, Zenon
  <2>5. Reports => /\ Reported' \in Int /\ Reported' < Reported
                   /\ Arriving' = Arriving /\ Delivering' = Delivering /\ Standing' = Standing
    BY <1>3, ReportedSteps, Zenon
  <2>6. Stands => /\ Standing' \in Int /\ Standing' < Standing
                  /\ Arriving' = Arriving /\ Delivering' = Delivering /\ Reported' = Reported
    BY <1>3, StandingSteps, Zenon
  <2> HIDE DEF Arrives, Delivers, Reports, Stands
  <2> QED
    BY <2>1, <2>2, <2>3, <2>4, <2>5, <2>6 DEF LessToDo
<1> QED
  BY <1>1, <1>2, <1>3, PTL DEF Spec, EveryStepUsesUp
===============================================================================
