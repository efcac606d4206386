------------------------------- MODULE Shutdown ------------------------------
(* Stopping a peer: GossipService.Stop in src/gossip/gossip.go against the        *)
(* goroutines that pass messages on and the bounded channels between them.        *)
(*                                                                                *)
(*   streams -> generic -> forwarder -> specific -> acceptor -> discovery         *)
(*                                              acceptor -> app -> receiver -> out*)
(*   failed sends -> deadEndpoints -> presumed-dead forwarder -> PresumedDead     *)
(*                                                            -> discovery        *)
(*                                                                                *)
(* The first and the app channel belong to demultiplexers, which send under their *)
(* read lock and are closed under their write lock.  Channels hold counts.  A     *)
(* token in a channel of capacity one is taken and put back by each goroutine it  *)
(* ends; only Stop puts one in, so the putting back never waits.                  *)
EXTENDS Naturals, FiniteSets

CONSTANTS Stream,       \* connections whose messages arrive
          GossipChannel,
          GenericCap, SpecificCap, AppCap, OutCap, DeadCap, PresumedCap,
          MaxBurst,     \* bound: items one message hands to the application
          MaxEvents     \* bound: messages that arrive and sends that fail

ASSUME ShutdownAssumption ==
    /\ {GenericCap, SpecificCap, AppCap, OutCap, DeadCap, PresumedCap, MaxBurst}
           \subseteq Nat \ {0}
    /\ MaxEvents \in Nat
    /\ IsFiniteSet(GossipChannel) /\ IsFiniteSet(Stream)

VARIABLES
    stage,         \* where Stop is
    queue,         \* the messages in each channel
    reader,        \* Stream -> where its handler is
    forwarder,     \* the goroutine of Communicate.Receive
    acceptor,      \* acceptMessages: where it is, and the items it still hands on
    receiver,      \* the goroutine of GossipService.Receive
    messageLoop,   \* discovery's handleMessages
    deadForwarder, \* handlePresumedDead
    deadLoop,      \* discovery's handlePresumedDeadPeers
    reporting,     \* how many failed sends report their peer in disconnect
    worker,        \* the channels' periodic goroutines that run
    sweeping,      \* the channels whose cache is being swept
    purging,       \* whether the identity mapper purges
    events,        \* how many messages came and sends failed
    stopped,       \* the channels whose Stop has begun
    token          \* the channels of capacity one that hold their token

pipeline == <<reader, forwarder, acceptor, receiver, events>>
deaths   == <<deadForwarder, deadLoop, reporting>>
periodic == <<worker, sweeping, purging>>
vars == <<stage, queue, pipeline, messageLoop, deaths, periodic, stopped, token>>

Place == {"generic", "specific", "app", "out", "dead", "presumed"}
Cap == [generic |-> GenericCap, specific |-> SpecificCap, app |-> AppCap,
        out |-> OutCap, dead |-> DeadCap, presumed |-> PresumedCap]
Full(q) == queue[q] = Cap[q]
Put(q)  == ~Full(q) /\ queue' = [queue EXCEPT ![q] = @ + 1]
Take(q) == queue[q] > 0 /\ queue' = [queue EXCEPT ![q] = @ - 1]

\* The steps of Stop, in their order: what each waits for before the next.
Stages == <<"running", "channels", "incoming", "discovery", "identities", "token",
            "emitter", "demultiplexer", "signal", "connections", "publisher",
            "exit", "goroutines", "done">>
Position(s) == CHOOSE i \in DOMAIN Stages : Stages[i] = s
Past(s) == Position(stage) > Position(s)

StopFlag        == Past("running")
IncChanClosed   == Past("incoming")
DiscoveryToDie  == Past("discovery")
AppClosed       == Past("demultiplexer")
CommStopping    == Past("signal")
GenericClosed   == Past("publisher")
ExitClosed      == Past("exit")

Init ==
    /\ stage = "running"
    /\ queue = [q \in Place |-> 0]
    /\ reader = [s \in Stream |-> "select"]
    /\ forwarder = "select"
    /\ acceptor = [pc |-> "select", left |-> 0]
    /\ receiver = "select" /\ messageLoop = "select"
    /\ deadForwarder = "select" /\ deadLoop = "select"
    /\ reporting = 0 /\ events = 0
    /\ worker = GossipChannel \X {"publish", "request"}
    /\ sweeping \in SUBSET GossipChannel /\ purging \in BOOLEAN
    /\ stopped = {} /\ token = {}

\* A goroutine takes the token it waits for, and puts it back for the next.
\* A faulty form: it keeps it.
Without(t) == token \ {t}
PutBack(t) == token

TakeToken(t) == t \in token /\ token' = PutBack(t)

-------------------------------------------------------------------------------
(* From the streams to acceptMessages.                                          *)

Event == events < MaxEvents /\ events' = events + 1

\* DeMultiplex takes the read lock, which a waiting Close keeps from it.
ReadLock(s) ==
    /\ reader[s] = "select" /\ stage # "publisher" /\ ~GenericClosed
    /\ Event
    /\ reader' = [reader EXCEPT ![s] = "pushing"]
    /\ UNCHANGED <<stage, queue, forwarder, acceptor, receiver, messageLoop, deaths,
                   periodic, stopped, token>>

ReaderPushes(s) ==
    /\ reader[s] = "pushing" /\ Put("generic")
    /\ reader' = [reader EXCEPT ![s] = "select"]
    /\ UNCHANGED <<events, stage, forwarder, acceptor, receiver, messageLoop, deaths,
                   periodic, stopped, token>>

\* serviceConnection returns: Stop has closed the connection.
ReaderEnds(s) ==
    /\ reader[s] = "select" /\ CommStopping
    /\ reader' = [reader EXCEPT ![s] = "ended"]
    /\ UNCHANGED <<events, stage, queue, forwarder, acceptor, receiver, messageLoop, deaths,
                   periodic, stopped, token>>

ForwarderTakes ==
    /\ forwarder = "select" /\ Take("generic")
    /\ forwarder' = "pushing"
    /\ UNCHANGED <<events, stage, reader, acceptor, receiver, messageLoop, deaths, periodic,
                   stopped, token>>

ForwarderPushes ==
    /\ forwarder = "pushing" /\ Put("specific")
    /\ forwarder' = "select"
    /\ UNCHANGED <<events, stage, reader, acceptor, receiver, messageLoop, deaths, periodic,
                   stopped, token>>

\* On the closed exitChan, and on the nil of the closed and drained channel.
ForwarderEnds ==
    /\ forwarder # "done"
    /\ ExitClosed \/ (forwarder = "select" /\ GenericClosed /\ queue["generic"] = 0)
    /\ forwarder' = "done"
    /\ UNCHANGED <<events, stage, queue, reader, acceptor, receiver, messageLoop, deaths,
                   periodic, stopped, token>>

\* handleMessage: once the flag is set the message is dropped.  Else it is for
\* discovery, or hands items to the application, or is done with at once.
AcceptorTakes ==
    /\ acceptor.pc = "select" /\ Take("specific")
    /\ IF StopFlag
       THEN acceptor' = acceptor
       ELSE acceptor' \in [pc : {"select", "forwarding"}, left : {0}]
                            \cup [pc : {"delivering"}, left : 1 .. MaxBurst]
    /\ UNCHANGED <<events, stage, reader, forwarder, receiver, messageLoop, deaths, periodic,
                   stopped, token>>

AcceptorEnds ==
    /\ acceptor.pc = "select" /\ TakeToken("service")
    /\ acceptor' = [acceptor EXCEPT !.pc = "done"]
    /\ UNCHANGED <<events, stage, queue, reader, forwarder, receiver, messageLoop, deaths,
                   periodic, stopped>>

-------------------------------------------------------------------------------
(* From acceptMessages to discovery and to the application.                     *)

\* The rendezvous on IncChan; the loop then asks whether it is to die.
HandOver ==
    /\ acceptor.pc = "forwarding" /\ messageLoop = "select" /\ ~IncChanClosed
    /\ acceptor' = [acceptor EXCEPT !.pc = "select"]
    /\ UNCHANGED <<events, stage, queue, reader, forwarder, receiver, messageLoop, deaths,
                   periodic, stopped, token>>

\* forwardDiscoveryMsg recovers from the send on the closed channel.
Recover ==
    /\ acceptor.pc = "forwarding" /\ IncChanClosed
    /\ acceptor' = [acceptor EXCEPT !.pc = "select"]
    /\ UNCHANGED <<events, stage, queue, reader, forwarder, receiver, messageLoop, deaths,
                   periodic, stopped, token>>

\* On the token, or when it finds the flag set after a nil of the closed IncChan.
MessageLoopEnds ==
    /\ messageLoop = "select"
    /\ TakeToken("discovery") \/ (DiscoveryToDie /\ UNCHANGED token)
    /\ messageLoop' = "done"
    /\ UNCHANGED <<stage, queue, pipeline, deaths, periodic, stopped>>

\* DeMultiplex: the items are pushed one by one, each under the read lock.
AppReadLock ==
    /\ acceptor.pc = "delivering" /\ stage # "demultiplexer"
    /\ IF AppClosed
       THEN acceptor' = [pc |-> "select", left |-> 0]
       ELSE acceptor' = [acceptor EXCEPT !.pc = "pushing"]
    /\ UNCHANGED <<events, stage, queue, reader, forwarder, receiver, messageLoop, deaths,
                   periodic, stopped, token>>

\* A faulty form: it hands on the same item again.
SameItem == acceptor.left
ItemsLeft == acceptor.left - 1

AcceptorPushes ==
    /\ acceptor.pc = "pushing" /\ Put("app")
    /\ acceptor' = [pc |-> IF acceptor.left = 1 THEN "select" ELSE "delivering",
                    left |-> ItemsLeft]
    /\ UNCHANGED <<events, stage, reader, forwarder, receiver, messageLoop, deaths, periodic,
                   stopped, token>>

ReceiverTakes ==
    /\ receiver = "select" /\ Take("app")
    /\ receiver' = "pushing"
    /\ UNCHANGED <<events, stage, reader, forwarder, acceptor, messageLoop, deaths, periodic,
                   stopped, token>>

ReceiverPushes ==
    /\ receiver = "pushing" /\ Put("out")
    /\ receiver' = "select"
    /\ UNCHANGED <<events, stage, reader, forwarder, acceptor, messageLoop, deaths, periodic,
                   stopped, token>>

ReceiverEnds ==
    /\ receiver = "select"
    /\ \/ TakeToken("service")
       \/ AppClosed /\ queue["app"] = 0 /\ UNCHANGED token
    /\ receiver' = "done"
    /\ UNCHANGED <<events, stage, queue, reader, forwarder, acceptor, messageLoop, deaths,
                   periodic, stopped>>

\* The application reads what Receive returned.
ApplicationReads ==
    /\ Take("out")
    /\ UNCHANGED <<stage, pipeline, messageLoop, deaths, periodic, stopped, token>>

-------------------------------------------------------------------------------
(* Peers presumed dead, from failed sends to discovery.                         *)

\* disconnect: asks whether the service stops, and then sends.
SendFails ==
    /\ ~CommStopping /\ Event
    /\ reporting' = reporting + 1
    /\ UNCHANGED <<stage, queue, reader, forwarder, acceptor, receiver, messageLoop, deadForwarder, deadLoop,
                   periodic, stopped, token>>

Report ==
    /\ reporting > 0 /\ Put("dead")
    /\ reporting' = reporting - 1
    /\ UNCHANGED <<stage, pipeline, messageLoop, deadForwarder, deadLoop,
                   periodic, stopped, token>>

DeadForwarderTakes ==
    /\ deadForwarder = "select" /\ Take("dead")
    /\ deadForwarder' = "pushing"
    /\ UNCHANGED <<stage, pipeline, messageLoop, deadLoop, reporting, periodic, stopped,
                   token>>

DeadForwarderPushes ==
    /\ deadForwarder = "pushing" /\ Put("presumed")
    /\ deadForwarder' = "select"
    /\ UNCHANGED <<stage, pipeline, messageLoop, deadLoop, reporting, periodic, stopped,
                   token>>

DeadForwarderEnds ==
    /\ deadForwarder = "select" /\ TakeToken("service")
    /\ deadForwarder' = "done"
    /\ UNCHANGED <<stage, queue, pipeline, messageLoop, deadLoop, reporting, periodic,
                   stopped>>

\* handlePresumedDeadPeers looks at the flag after each peer it has handled.
\* A faulty form: it handles one.
Returns == "done"
AfterPeer == IF DiscoveryToDie THEN "done" ELSE "select"

DeadLoopTakes ==
    /\ deadLoop = "select" /\ Take("presumed")
    /\ deadLoop' = AfterPeer
    /\ UNCHANGED <<stage, pipeline, messageLoop, deadForwarder, reporting, periodic,
                   stopped, token>>

DeadLoopEnds ==
    /\ deadLoop = "select" /\ TakeToken("discovery")
    /\ deadLoop' = "done"
    /\ UNCHANGED <<stage, queue, pipeline, messageLoop, deadForwarder, reporting,
                   periodic, stopped>>

-------------------------------------------------------------------------------
(* The goroutines that Stop meets at an unbuffered channel, or ends by a token.   *)
(* Which of them work when it comes is the choice of Init.                       *)

SweepEnds(c) ==
    /\ c \in sweeping
    /\ sweeping' = sweeping \ {c}
    /\ UNCHANGED <<stage, queue, pipeline, messageLoop, deaths, worker, purging,
                   stopped, token>>

\* periodicalInvocation
WorkerEnds(w) ==
    /\ w \in worker /\ TakeToken(w[1])
    /\ worker' = worker \ {w}
    /\ UNCHANGED <<stage, queue, pipeline, messageLoop, deaths, sweeping, purging,
                   stopped>>

\* periodicalPurgeUnusedIds
PurgeEnds ==
    /\ purging
    /\ purging' = FALSE
    /\ UNCHANGED <<stage, queue, pipeline, messageLoop, deaths, worker, sweeping,
                   stopped, token>>

-------------------------------------------------------------------------------
(* GossipService.Stop                                                           *)

unmoved == <<pipeline, messageLoop, deaths, periodic>>

StopBegins ==
    /\ stage = "running" /\ stage' = "channels"
    /\ UNCHANGED <<queue, unmoved, stopped, token>>

\* GossipChannel.Stop: the token, and the rendezvous with the sweeper.
\* A faulty form: the rendezvous alone.
NoToken(c) == {}
ChannelToken(c) == {c}

ChannelStops(c) ==
    /\ stage = "channels" /\ c \notin stopped /\ c \notin sweeping
    /\ stopped' = stopped \cup {c}
    /\ token' = token \cup ChannelToken(c)
    /\ UNCHANGED <<stage, queue, unmoved>>

ChannelsStopped ==
    /\ stage = "channels" /\ stopped = GossipChannel /\ stage' = "incoming"
    /\ UNCHANGED <<queue, unmoved, stopped, token>>

CloseIncoming ==
    /\ stage = "incoming" /\ stage' = "discovery"
    /\ UNCHANGED <<queue, unmoved, stopped, token>>

DiscoveryStops ==
    /\ stage = "discovery" /\ stage' = "identities"
    /\ token' = token \cup {"discovery"}
    /\ UNCHANGED <<queue, unmoved, stopped>>

\* IdMapper.Stop: the rendezvous with the purging goroutine.
IdMapperStops ==
    /\ stage = "identities" /\ ~purging /\ stage' = "token"
    /\ UNCHANGED <<queue, unmoved, stopped, token>>

ServiceToken ==
    /\ stage = "token" /\ stage' = "emitter"
    /\ token' = token \cup {"service"}
    /\ UNCHANGED <<queue, unmoved, stopped>>

EmitterStops ==
    /\ stage = "emitter" /\ stage' = "demultiplexer"
    /\ UNCHANGED <<queue, unmoved, stopped, token>>

\* Close waits for the write lock, here for the acceptor's read lock to go.
\* A faulty form: it does not take the lock.
Unlocked == TRUE
NoAppReader == acceptor.pc # "pushing"

DemultiplexerCloses ==
    /\ stage = "demultiplexer" /\ NoAppReader /\ stage' = "signal"
    /\ UNCHANGED <<queue, unmoved, stopped, token>>

\* StopSignal.Wait
StopSignal ==
    /\ stage = "signal" /\ acceptor.pc = "done" /\ deadForwarder = "done"
    /\ stage' = "connections"
    /\ UNCHANGED <<queue, unmoved, stopped, token>>

\* Communicate.Stop: the connections are closed, ...
ConnectionsClose ==
    /\ stage = "connections" /\ stage' = "publisher"
    /\ UNCHANGED <<queue, unmoved, stopped, token>>

\* ... then the demultiplexer, which waits for its readers, then exitChan, ...
PublisherCloses ==
    /\ stage = "publisher" /\ \A s \in Stream : reader[s] # "pushing"
    /\ stage' = "exit"
    /\ UNCHANGED <<queue, unmoved, stopped, token>>

ExitCloses ==
    /\ stage = "exit" /\ stage' = "goroutines"
    /\ UNCHANGED <<queue, unmoved, stopped, token>>

\* ... then stopWG.Wait, and the subscriptions.
SubscriptionsClose ==
    /\ stage = "goroutines" /\ forwarder = "done" /\ stage' = "done"
    /\ UNCHANGED <<queue, unmoved, stopped, token>>

-------------------------------------------------------------------------------
StopStep ==
    \/ (\E c \in GossipChannel : ChannelStops(c)) \/ ChannelsStopped
    \/ CloseIncoming \/ DiscoveryStops \/ IdMapperStops \/ ServiceToken
    \/ EmitterStops \/ DemultiplexerCloses \/ StopSignal \/ ConnectionsClose
    \/ PublisherCloses \/ ExitCloses \/ SubscriptionsClose

\* What goes on without a message or a failure from outside.
Progress ==
    \/ StopStep
    \/ \E s \in Stream : ReaderPushes(s) \/ ReaderEnds(s)
    \/ ForwarderTakes \/ ForwarderPushes \/ ForwarderEnds
    \/ AcceptorTakes \/ AcceptorEnds \/ HandOver \/ Recover \/ AppReadLock
    \/ AcceptorPushes
    \/ ReceiverTakes \/ ReceiverPushes \/ ReceiverEnds \/ ApplicationReads
    \/ MessageLoopEnds
    \/ Report \/ DeadForwarderTakes \/ DeadForwarderPushes \/ DeadForwarderEnds
    \/ DeadLoopTakes \/ DeadLoopEnds
    \/ \E c \in GossipChannel : SweepEnds(c)
    \/ \E w \in worker : WorkerEnds(w)
    \/ PurgeEnds

Next == StopBegins \/ Progress \/ SendFails \/ \E s \in Stream : ReadLock(s)

Spec == Init /\ [][Next]_vars

-------------------------------------------------------------------------------
(* Properties                                                                   *)

\* Stop closes a channel only when nobody is about to send on it, save for the
\* send of forwardDiscoveryMsg, which recovers: nothing panics while it stops.
ClosedAfterUse ==
    /\ AppClosed => acceptor.pc # "pushing"
    /\ GenericClosed => \A s \in Stream : reader[s] # "pushing"
    /\ stage = "done" => forwarder # "pushing"

\* The three ways in which Stop waits for ever.
\* A message still hands items to the application whose channel is full, and its
\* receiver took the token: Close waits for the read lock of acceptMessages.
AppFull ==
    /\ stage = "demultiplexer" /\ acceptor.pc = "pushing"
    /\ Full("app") /\ receiver = "done"
\* handlePresumedDead sends to the full channel of the discovery that stopped.
PresumedFull ==
    /\ stage = "signal" /\ deadForwarder = "pushing"
    /\ Full("presumed") /\ deadLoop = "done"
\* The messages of a stream fill every channel up to the acceptor that ended; the
\* forwarder would leave on exitChan, which is closed only after the demultiplexer.
GenericFull ==
    /\ stage = "publisher" /\ \E s \in Stream : reader[s] = "pushing"
    /\ Full("generic") /\ forwarder = "pushing" /\ Full("specific")
    /\ acceptor.pc = "done"

\* Where the goroutines and Stop wait.
StreamsWait ==
    \A s \in Stream : \/ reader[s] = "select" /\ ~CommStopping
                      \/ reader[s] = "pushing" /\ Full("generic")
                      \/ reader[s] = "ended"
ForwarderWaits ==
    \/ forwarder = "select" /\ queue["generic"] = 0 /\ ~GenericClosed
    \/ forwarder = "pushing" /\ Full("specific") /\ ~ExitClosed
    \/ forwarder = "done"
AcceptorWaits ==
    \/ acceptor.pc = "select" /\ queue["specific"] = 0 /\ "service" \notin token
    \/ acceptor.pc = "forwarding" /\ messageLoop = "done" /\ ~IncChanClosed
    \/ acceptor.pc = "delivering" /\ stage = "demultiplexer"
    \/ acceptor.pc = "pushing" /\ Full("app")
    \/ acceptor.pc = "done"
ReceiverWaits ==
    \/ receiver = "select" /\ queue["app"] = 0 /\ "service" \notin token /\ ~AppClosed
    \/ receiver = "pushing" /\ Full("out")
    \/ receiver = "done"
DiscoveryWaits ==
    /\ messageLoop = "select" => "discovery" \notin token /\ ~DiscoveryToDie
    /\ deadLoop = "select" => queue["presumed"] = 0 /\ "discovery" \notin token
DeathsWait ==
    /\ reporting = 0 \/ Full("dead")
    /\ \/ deadForwarder = "select" /\ queue["dead"] = 0 /\ "service" \notin token
       \/ deadForwarder = "pushing" /\ Full("presumed")
       \/ deadForwarder = "done"
StopWaits ==
    \/ stage \in {"running", "done"}
    \/ /\ stage = "channels" /\ stopped # GossipChannel
       /\ GossipChannel \ stopped \subseteq sweeping
    \/ stage = "identities" /\ purging
    \/ stage = "demultiplexer" /\ acceptor.pc = "pushing"
    \/ stage = "signal" /\ ~(acceptor.pc = "done" /\ deadForwarder = "done")
    \/ stage = "publisher" /\ \E s \in Stream : reader[s] = "pushing"
    \/ stage = "goroutines" /\ forwarder # "done"

\* A run in which every goroutine that can go on does ends in a state where each
\* waits, ...
Settled ==
    /\ StreamsWait /\ ForwarderWaits /\ AcceptorWaits /\ ReceiverWaits
    /\ queue["out"] = 0
    /\ DiscoveryWaits /\ DeathsWait /\ StopWaits
    /\ sweeping = {} /\ ~purging /\ \A w \in worker : w[1] \notin token

\* ... and these are all the states where none can go on.
SettledIsFinal == Settled <=> ~ENABLED Progress

\* GossipService.Stop returns, unless one of the three channels is full at the
\* wrong moment, and then it never does.
StopReturns ==
    Settled /\ StopFlag => stage = "done" \/ AppFull \/ PresumedFull \/ GenericFull

\* A service that was not stopped loses no message and no failure on the way:
\* what its goroutines wait for is more of them.
NothingStalls ==
    Settled /\ ~StopFlag =>
        /\ \A q \in Place : queue[q] = 0
        /\ acceptor.pc = "select" /\ reporting = 0

Ended ==
    /\ \A s \in Stream : reader[s] = "ended"
    /\ {forwarder, acceptor.pc, receiver, messageLoop, deadForwarder, deadLoop}
           = {"done"}
    /\ worker = {}
    /\ reporting = 0 \/ Full("dead")

\* After Stop has returned every goroutine ends; only a failed send may wait for
\* ever, on deadEndpoints, which nobody reads any more.
NothingLeaks == Settled /\ stage = "done" => Ended

\* What is left to do: for each message in a channel or held by a goroutine the steps
\* until it is gone, and one for each goroutine that is still to end.
Holds == [done |-> 0, ended |-> 0, select |-> 1, pushing |-> 3]
In(pc) == {s \in Stream : reader[s] = pc}
Arriving ==
    5 * Cardinality(In("pushing")) + Cardinality(In("select")) + 3 * queue["generic"]
        + Holds[forwarder] + queue["specific"]
Delivering ==
    [done |-> 0, select |-> 1, forwarding |-> 2, delivering |-> 6 * acceptor.left + 1,
     pushing |-> 6 * acceptor.left][acceptor.pc]
        + 3 * queue["app"] + Holds[receiver] + queue["out"]
Reported ==
    4 * reporting + 3 * queue["dead"] + Holds[deadForwarder] + queue["presumed"]
        + Holds[deadLoop]
Standing ==
    Cardinality(worker) + Cardinality(sweeping) + (IF purging THEN 1 ELSE 0)
        + Holds[messageLoop] + Cardinality(GossipChannel \ stopped) + 14
        - Position(stage)

LessToDo ==
    /\ {Arriving, Delivering, Reported, Standing} \subseteq Nat
    /\ Arriving' <= Arriving /\ Reported' <= Reported /\ Standing' <= Standing
    /\ Arriving' < Arriving \/ Delivering' <= Delivering
    /\ \/ Arriving' < Arriving \/ Delivering' < Delivering
       \/ Reported' < Reported \/ Standing' < Standing

\* No goroutine and no step of Stop goes on for ever: with nothing from outside each
\* step leaves less to do, except that a message that acceptMessages takes may become
\* several items for the application.
EveryStepUsesUp == [][LessToDo \/ ~Progress]_vars
===============================================================================
