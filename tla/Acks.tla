--------------------------------- MODULE Acks ---------------------------------
(* Waiting for answers: PubSub and Set in src/gossip/common.go, and the two that   *)
(* wait with them: discovery's Connect and sendUntilAcked, which ask again until   *)
(* they are answered, and SendByCriteria with Communicate.SendWithAck, which asks  *)
(* several peers once and counts.                                                  *)
(*                                                                                 *)
(* A topic belongs to one call and one peer (its name has a random nonce).  Time   *)
(* is left out: a timer fires, and a wait times out, whenever it likes; but, with  *)
(* PromptTimers, a timer of five seconds before its caller's sleep is over.        *)
(* Requests and answers may be lost (never delivered), answers come late and in    *)
(* any order.                                                                      *)
EXTENDS Naturals, Sequences, FiniteSets

CONSTANTS Caller,        \* the calls of Connect
          Peer,          \* the peers of SendByCriteria
          MaxAttempts,   \* MaxConnectionAttempts
          BuffSize,      \* subscriptionBuffSize
          PromptTimers   \* whether a timer fires before its caller asks again

ASSUME AcksAssumption ==
    /\ Caller \cap Peer = {} /\ IsFiniteSet(Peer)
    /\ MaxAttempts \in Nat \ {0} /\ BuffSize \in Nat \ {0}
    /\ PromptTimers \in BOOLEAN

Topic == Caller \cup Peer
Attempt == 1 .. MaxAttempts
Answer == {"ok", "error"}

VARIABLES
    subscriptions, \* Topic -> the subscription that made its Set; 0: no Set
    items,         \* Topic -> the Sets made for it -> their subscriptions
    timer,         \* Topic -> the timers of its subscriptions
    buffer,        \* Topic -> the channels of its subscriptions
    waiter,        \* Topic -> the goroutine that waits
    asked, replies, \* Topic -> requests and answers in flight
    sending,       \* the call of SendByCriteria
    acks,          \* its channel of results, as counts
    acknowledged,  \* history: the peers that accepted the message
    dying, stopping, \* whether discovery and the communication stop
    panicked       \* whether a timer met a missing Set

pubsub == <<subscriptions, items, timer, buffer>>
flags  == <<dying, stopping>>
vars == <<pubsub, waiter, asked, replies, sending, acks, acknowledged, flags,
          panicked>>

NoCounts == [k \in Answer |-> 0]
Waiting == [pc |-> "idle", attempt |-> 0, set |-> 0, got |-> "none"]

Init ==
    /\ subscriptions = [t \in Topic |-> 0]
    /\ items = [t \in Topic |-> [a \in Attempt |-> {}]]
    /\ timer = [t \in Topic |-> [a \in Attempt |-> "none"]]
    /\ buffer = [t \in Topic |-> [a \in Attempt |-> <<>>]]
    /\ waiter = [t \in Topic |-> Waiting]
    /\ asked = [t \in Topic |-> 0]
    /\ replies = [t \in Topic |-> NoCounts]
    /\ sending = [pc |-> "start", to |-> {}, minAck |-> 0, successes |-> 0,
                  results |-> 0, outcome |-> "none"]
    /\ acks = NoCounts
    /\ acknowledged = {}
    /\ dying = FALSE /\ stopping = FALSE
    /\ panicked = FALSE

Goes(t, pc) == waiter' = [waiter EXCEPT ![t].pc = pc]

-------------------------------------------------------------------------------
(* PubSub                                                                       *)

\* A faulty form: attempts are not counted.
SameAttempt(t) == IF waiter[t].attempt = 0 THEN 1 ELSE waiter[t].attempt
NextAttempt(t) == waiter[t].attempt + 1

\* Subscribe: finds or makes the topic's Set under the lock, ...
FindSet(t) ==
    LET a == NextAttempt(t)
        s == IF subscriptions[t] = 0 THEN a ELSE subscriptions[t]
    IN  /\ subscriptions' = [subscriptions EXCEPT ![t] = s]
        /\ waiter' = [waiter EXCEPT ![t] = [@ EXCEPT !.pc = "adding", !.attempt = a,
                                                     !.set = s]]
        /\ UNCHANGED <<items, timer, buffer, asked, replies, sending, acks,
                       acknowledged, flags, panicked>>

\* ... adds to it after the unlock, and starts the timer.
\* A faulty form: to the Set of another subscription.
AnotherSet(t) == [items EXCEPT ![t][MaxAttempts] = @ \cup {waiter[t].attempt}]
Added(t) == [items EXCEPT ![t][waiter[t].set] = @ \cup {waiter[t].attempt}]

AddToSet(t) ==
    /\ waiter[t].pc = "adding"
    /\ items' = Added(t)
    /\ timer' = [timer EXCEPT ![t][waiter[t].attempt] = "armed"]
    /\ Goes(t, "sending")
    /\ UNCHANGED <<subscriptions, buffer, asked, replies, sending, acks,
                   acknowledged, flags, panicked>>

\* The timer: a topic whose Set is empty is deleted.  A missing Set is a nil
\* pointer, and the process ends.
\* A faulty form: the topic stays.
Stays(t, left) == subscriptions
Deleted(t, left) ==
    IF left = {} THEN [subscriptions EXCEPT ![t] = 0] ELSE subscriptions

Expire(t, a) ==
    /\ timer[t][a] = "armed" /\ ~panicked
    /\ timer' = [timer EXCEPT ![t][a] = "fired"]
    /\ LET s == subscriptions[t] IN
       IF s = 0
       THEN /\ panicked' = TRUE
            /\ UNCHANGED <<subscriptions, items>>
       ELSE /\ items' = [items EXCEPT ![t][s] = @ \ {a}]
            /\ subscriptions' = Deleted(t, items[t][s] \ {a})
            /\ UNCHANGED panicked
    /\ UNCHANGED <<buffer, waiter, asked, replies, sending, acks, acknowledged,
                   flags>>

\* Publish: to every subscription of the topic whose buffer has room.  The lock is
\* held, and one goroutine publishes to a topic, so the sends do not wait.
\* A faulty form: it does not look at the room.
Pushed(t, k) ==
    [a \in Attempt |->
        IF subscriptions[t] # 0 /\ a \in items[t][subscriptions[t]]
        THEN Append(buffer[t][a], k) ELSE buffer[t][a]]
Published(t, k) ==
    [a \in Attempt |->
        IF subscriptions[t] # 0 /\ a \in items[t][subscriptions[t]]
             /\ Len(buffer[t][a]) < BuffSize
        THEN Append(buffer[t][a], k) ELSE buffer[t][a]]

\* An answer arrives: interceptAcks, and the responses in handleMsgFromComm.
Publish(t, k) ==
    /\ replies[t][k] > 0
    /\ replies' = [replies EXCEPT ![t][k] = @ - 1]
    /\ buffer' = [buffer EXCEPT ![t] = Published(t, k)]
    /\ UNCHANGED <<subscriptions, items, timer, waiter, asked, sending, acks,
                   acknowledged, flags, panicked>>

\* The other side gets a request and answers: a peer accepts or refuses.
Reply(t, k) ==
    /\ asked[t] > 0 /\ (t \in Caller => k = "ok")
    /\ asked' = [asked EXCEPT ![t] = @ - 1]
    /\ replies' = [replies EXCEPT ![t][k] = @ + 1]
    /\ acknowledged' = IF t \in Peer /\ k = "ok" THEN acknowledged \cup {t}
                       ELSE acknowledged
    /\ UNCHANGED <<pubsub, waiter, sending, acks, flags, panicked>>

\* Listen: an item, or its own timer; with both ready either is taken.
Hear(t) ==
    LET a == waiter[t].attempt IN
    /\ waiter[t].pc = "listening" /\ buffer[t][a] # <<>>
    /\ waiter' = [waiter EXCEPT ![t] =
           [@ EXCEPT !.pc = IF t \in Peer THEN "finished" ELSE "done",
                     !.got = Head(buffer[t][a])]]
    /\ buffer' = [buffer EXCEPT ![t][a] = Tail(@)]
    /\ UNCHANGED <<subscriptions, items, timer, asked, replies, sending, acks,
                   acknowledged, flags, panicked>>

\* A faulty form: it waits for an item only.
ItemOnly(t) == FALSE
TimeOut(t) ==
    /\ waiter[t].pc = "listening"
    /\ waiter' = [waiter EXCEPT ![t] =
           IF t \in Peer THEN [@ EXCEPT !.pc = "finished", !.got = "error"]
                         ELSE [@ EXCEPT !.pc = "sleeping", !.got = "none"]]
    /\ UNCHANGED <<pubsub, asked, replies, sending, acks, acknowledged, flags,
                   panicked>>

-------------------------------------------------------------------------------
(* Connect and sendUntilAcked                                                   *)

Gone(t) == Goes(t, "done")
KeepAll == UNCHANGED <<pubsub, asked, replies, sending, acks, acknowledged, flags,
                       panicked>>

\* Connect: the handshake that tells the peer's id, until it succeeds or has failed
\* too often; what fails leaves nothing behind.
Handshake(t) ==
    /\ waiter[t].pc = "idle"
    /\ Gone(t) \/ (~dying /\ Goes(t, "lookup"))
    /\ KeepAll

\* sendUntilAcked: the loop's condition, and the subscription ...
Ask(t) ==
    /\ waiter[t].pc = "lookup" /\ waiter[t].attempt < MaxAttempts /\ ~dying
    /\ FindSet(t)

GiveUp(t) ==
    /\ waiter[t].pc = "lookup" /\ (waiter[t].attempt = MaxAttempts \/ dying)
    /\ Gone(t) /\ KeepAll

\* ... before the request is sent.
Send(t) ==
    /\ waiter[t].pc = "sending" /\ t \in Caller
    /\ asked' = [asked EXCEPT ![t] = IF dying THEN @ ELSE @ + 1]
    /\ Goes(t, "listening")
    /\ UNCHANGED <<pubsub, replies, sending, acks, acknowledged, flags, panicked>>

\* The sleep of reconnectInterval.
Wake(t) ==
    /\ waiter[t].pc = "sleeping"
    /\ PromptTimers => \A a \in Attempt : timer[t][a] # "armed"
    /\ Goes(t, "lookup") /\ KeepAll

-------------------------------------------------------------------------------
(* SendByCriteria and SendWithAck                                               *)

\* A faulty form: refused messages count.
AnyResult(s) == s.results
AckCount(s) == s.successes

Outcome(s) == IF AckCount(s) < s.minAck THEN "error" ELSE "ok"
Returns(s) == sending' = [s EXCEPT !.pc = "done", !.outcome = Outcome(s)]

\* The peers are chosen; too few of them is an error; for none nothing is sent,
\* and while the communication stops every result is an error.
SendByCriteria(to, minAck) ==
    LET s == [sending EXCEPT !.to = to, !.minAck = minAck] IN
    /\ sending.pc = "start"
    /\ IF Cardinality(to) < minAck \/ to = {} \/ stopping
       THEN Returns(s)
       ELSE sending' = [s EXCEPT !.pc = "subscribing"]
    /\ UNCHANGED <<pubsub, waiter, asked, replies, acks, acknowledged, flags,
                   panicked>>

\* SendWithAck subscribes for one peer after the other, ...
SubscribeFor(p) ==
    /\ sending.pc = "subscribing" /\ p \in sending.to /\ waiter[p].pc = "idle"
    /\ \A q \in sending.to : waiter[q].pc # "adding"
    /\ FindSet(p)

\* ... then starts a goroutine for each, and collects.
StartSending ==
    /\ sending.pc = "subscribing"
    /\ \A p \in sending.to : waiter[p].pc = "sending"
    /\ sending' = [sending EXCEPT !.pc = "collecting"]
    /\ UNCHANGED <<pubsub, waiter, asked, replies, acks, acknowledged, flags,
                   panicked>>

SendTo(p) ==
    /\ sending.pc \in {"collecting", "done"} /\ p \in Peer
    /\ waiter[p].pc = "sending"
    /\ asked' = [asked EXCEPT ![p] = IF stopping THEN @ ELSE @ + 1]
    /\ Goes(p, "listening")
    /\ UNCHANGED <<pubsub, replies, sending, acks, acknowledged, flags, panicked>>

\* The channel of results has room for every peer's.
\* A faulty form: for those that are waited for.
RoomForMin(s) == s.minAck
Room(s) == Cardinality(s.to)

HandIn(p) ==
    /\ waiter[p].pc = "finished" /\ acks["ok"] + acks["error"] < Room(sending)
    /\ acks' = [acks EXCEPT ![waiter[p].got] = @ + 1]
    /\ Goes(p, "done")
    /\ UNCHANGED <<pubsub, asked, replies, sending, acknowledged, flags, panicked>>

\* ackSendOperation.send: until there are just minAck successes, or all results.
Collect(k) ==
    LET s == [sending EXCEPT !.results = @ + 1,
                             !.successes = IF k = "ok" THEN @ + 1 ELSE @] IN
    /\ sending.pc = "collecting" /\ acks[k] > 0
    /\ acks' = [acks EXCEPT ![k] = @ - 1]
    /\ IF s.successes = s.minAck \/ s.results = Cardinality(s.to)
       THEN Returns(s) ELSE sending' = s
    /\ UNCHANGED <<pubsub, waiter, asked, replies, acknowledged, flags, panicked>>

-------------------------------------------------------------------------------
DiscoveryStops ==
    /\ ~dying /\ dying' = TRUE
    /\ UNCHANGED <<pubsub, waiter, asked, replies, sending, acks, acknowledged,
                   stopping, panicked>>

CommStops ==
    /\ dying /\ ~stopping /\ stopping' = TRUE
    /\ UNCHANGED <<pubsub, waiter, asked, replies, sending, acks, acknowledged,
                   dying, panicked>>

\* What goes on without anything from outside: the goroutines and the timers.
Progress ==
    \/ \E t \in Caller :
          Handshake(t) \/ Ask(t) \/ GiveUp(t) \/ Send(t) \/ Wake(t)
    \/ \E t \in Topic : AddToSet(t) \/ Hear(t) \/ TimeOut(t)
    \/ \E t \in Topic, a \in Attempt : Expire(t, a)
    \/ \E p \in Peer : SubscribeFor(p) \/ SendTo(p) \/ HandIn(p)
    \/ StartSending
    \/ \E k \in Answer : Collect(k)

Next ==
    \/ Progress
    \/ \E to \in SUBSET Peer, n \in 0 .. Cardinality(Peer) : SendByCriteria(to, n)
    \/ \E t \in Topic, k \in Answer : Publish(t, k) \/ Reply(t, k)
    \/ DiscoveryStops \/ CommStops

Spec == Init /\ [][Next]_vars

-------------------------------------------------------------------------------
(* Properties                                                                   *)

\* The state of PubSub, of the goroutines that wait on it and of SendWithAck; no
\* buffer holds more than subscriptionBuffSize.
TypeOK ==
    /\ subscriptions \in [Topic -> 0 .. MaxAttempts]
    /\ items \in [Topic -> [Attempt -> SUBSET Attempt]]
    /\ timer \in [Topic -> [Attempt -> {"none", "armed", "fired"}]]
    /\ \A t \in Topic, a \in Attempt :
          buffer[t][a] \in UNION {[1 .. n -> Answer] : n \in 0 .. BuffSize}
    /\ \A t \in Topic :
          /\ waiter[t].pc \in {"idle", "lookup", "adding", "sending", "listening",
                               "sleeping", "finished", "done"}
          /\ waiter[t].attempt \in 0 .. MaxAttempts
          /\ waiter[t].set \in 0 .. MaxAttempts
          /\ waiter[t].got \in Answer \cup {"none"}
    /\ sending.to \subseteq Peer /\ acknowledged \subseteq Peer
    /\ sending.outcome \in {"none", "ok", "error"}

\* Whoever waits can be heard: from the moment Subscribe returned until its timer
\* fires, a subscription is in the Set that Publish finds.  So no timer meets a
\* missing Set either.  Both need timers that fire before their caller subscribes
\* again: Subscribe adds to a Set that a late timer may have deleted meanwhile.
Reachable ==
    /\ ~panicked
    /\ \A t \in Topic, a \in Attempt :
          timer[t][a] = "armed" =>
              subscriptions[t] # 0 /\ a \in items[t][subscriptions[t]]

\* SendByCriteria succeeds only when MinAck different peers accepted the message.
AckedByEnough ==
    sending.outcome = "ok" => Cardinality(acknowledged \cap sending.to) >= sending.minAck

\* Where the calls, their goroutines and the timers wait; a caller that sleeps does so
\* until its timer has fired.
CallerWaits(t) ==
    \/ waiter[t].pc \in {"finished", "done"}
    \/ /\ waiter[t].pc = "sleeping" /\ PromptTimers
       /\ \E a \in Attempt : timer[t][a] = "armed"
PeerWaits(p) ==
    \/ waiter[p].pc \in {"lookup", "sleeping", "done"}
    \/ waiter[p].pc = "idle" /\ ~(sending.pc = "subscribing" /\ p \in sending.to)
    \/ waiter[p].pc = "sending" /\ sending.pc \notin {"collecting", "done"}
    \/ waiter[p].pc = "finished" /\ acks["ok"] + acks["error"] >= Room(sending)
SendingWaits ==
    \/ sending.pc \in {"start", "done"}
    \/ sending.pc = "subscribing" /\ \E p \in sending.to : waiter[p].pc # "sending"
    \/ sending.pc = "collecting" /\ \A k \in Answer : acks[k] = 0
TimersWait == panicked \/ \A t \in Topic, a \in Attempt : timer[t][a] # "armed"

\* Every attempt is used up: a run in which goroutines and timers go on, whether
\* or not an answer comes, ends in a state where all wait, ...
Settled ==
    /\ \A t \in Caller : CallerWaits(t)
    /\ \A p \in Peer : PeerWaits(p)
    /\ SendingWaits /\ TimersWait

\* ... and these are all the states where none can go on.
SettledIsFinal == Settled <=> ~ENABLED Progress

\* Every call of Connect, sendUntilAcked and SendWithAck ends, with every goroutine
\* it started, whether or not anybody answers.
CallsEnd ==
    Settled => /\ sending.pc \in {"start", "done"}
               /\ \A t \in Caller : waiter[t].pc = "done"
               /\ \A p \in Peer : waiter[p].pc \in {"idle", "done"}

\* No topic stays behind: the subscriptions of all the calls are removed.
TopicsGo == Settled => \A t \in Topic : subscriptions[t] = 0

\* How far a goroutine, a timer and the call have come.
Phase == [idle |-> 0, adding |-> 1, sending |-> 2, listening |-> 3, sleeping |-> 4,
          finished |-> 4, lookup |-> 5, done |-> 6]
Way(t) == 7 * waiter[t].attempt + Phase[waiter[t].pc]
TimerWay(t, a) == [none |-> 0, armed |-> 1, fired |-> 2][timer[t][a]]
CallWay ==
    [start |-> 0, subscribing |-> 1, collecting |-> 2, done |-> 3][sending.pc]
        + sending.results

Within ==
    /\ \A t \in Topic : Way(t) <= 7 * MaxAttempts + 6
    /\ CallWay <= 3 + Cardinality(Peer)
NoneBack ==
    /\ \A t \in Topic : Way(t)' >= Way(t)
    /\ \A t \in Topic, a \in Attempt : TimerWay(t, a)' >= TimerWay(t, a)
    /\ CallWay' >= CallWay
SomeOn ==
    \/ \E t \in Topic : Way(t)' > Way(t)
    \/ \E t \in Topic, a \in Attempt : TimerWay(t, a)' > TimerWay(t, a)
    \/ CallWay' > CallWay

\* What the goroutines and the timers do takes one of them, or the call, further, and
\* nothing takes any of them back: attempts are counted, a timer fires once, and a
\* peer's result is collected once.  So their steps come to an end, and all of them wait.
NothingGoesBack == [][Within /\ NoneBack /\ (SomeOn \/ ~Progress)]_vars
===============================================================================
