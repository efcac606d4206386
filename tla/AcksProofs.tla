------------------------------ MODULE AcksProofs ------------------------------
(* Proofs about Acks, for any calls, peers, attempts and sizes of buffers.        *)
(*                                                                                *)
(* That SendByCriteria is right when it succeeds is a matter of counting: every   *)
(* success it has counted or has in its channel was handed in by a peer of its    *)
(* own, and a peer hands in "ok" only when it was heard to accept the message.    *)
(* That every subscription can be heard rests on the timers, of which at most one  *)
(* is armed for a topic.                                                          *)
EXTENDS Acks, FiniteSetTheorems, SequenceTheorems, TLAPS

-------------------------------------------------------------------------------
(* The inductive invariant.                                                       *)

Buffers == {b \in Seq(Answer) : Len(b) <= BuffSize}
WaiterPC == {"idle", "lookup", "adding", "sending", "listening", "sleeping", "finished",
             "done"}
Waiters == [pc : WaiterPC, attempt : 0 .. MaxAttempts, set : 0 .. MaxAttempts,
            got : Answer \cup {"none"}]
Sendings == [pc : {"start", "subscribing", "collecting", "done"}, to : SUBSET Peer,
             minAck : Nat, successes : Nat, results : Nat,
             outcome : {"none", "ok", "error"}]

Sets == [Attempt -> SUBSET Attempt]
Timers == [Attempt -> {"none", "armed", "fired"}]
Channels == [Attempt -> Buffers]
PubSubTyped ==
    /\ subscriptions \in [Topic -> 0 .. MaxAttempts]
    /\ items \in [Topic -> Sets] /\ timer \in [Topic -> Timers]
    /\ buffer \in [Topic -> Channels]
CountsTyped ==
    /\ asked \in [Topic -> Nat] /\ replies \in [Topic -> [Answer -> Nat]]
    /\ acks \in [Answer -> Nat] /\ acknowledged \subseteq Peer
SendingTyped == sending \in Sendings

\* Whoever waits has a subscription; only a peer's goroutine hands in a result.
WaiterFits(t) ==
    /\ waiter[t].pc = "idle" => waiter[t].attempt = 0
    /\ waiter[t].pc \in {"adding", "sending", "listening"} => waiter[t].attempt \in Attempt
    /\ waiter[t].pc = "adding" => waiter[t].set \in Attempt
    /\ waiter[t].pc = "finished" => t \in Peer /\ waiter[t].got \in Answer
WaitersTyped ==
    /\ waiter \in [Topic -> Waiters]
    /\ \A t \in Topic : WaiterFits(t)

\* A peer that has not accepted the message is not heard to have.
Silent(b) == \A i \in 1 .. Len(b) : b[i] # "ok"
OnlyAccepted ==
    \A p \in Peer \ acknowledged :
        /\ replies[p]["ok"] = 0
        /\ \A a \in Attempt : Silent(buffer[p][a])
        /\ waiter[p].got # "ok"

\* The peers of the call, and those that handed in a success.
OnlyChosen ==
    \A p \in Peer : waiter[p].pc # "idle" => sending.pc # "start" /\ p \in sending.to
HandedIn == {p \in Peer : waiter[p].pc = "done" /\ waiter[p].got = "ok"}
Counted == sending.successes + acks["ok"] = Cardinality(HandedIn)

Decided ==
    /\ sending.pc # "done" => sending.outcome = "none"
    /\ sending.outcome = "ok" => sending.successes >= sending.minAck

IInv ==
    /\ PubSubTyped /\ CountsTyped /\ SendingTyped /\ WaitersTyped
    /\ OnlyAccepted /\ OnlyChosen /\ Counted /\ Decided

\* With prompt timers: of a topic's timers only the last is armed, and none while its
\* caller is between two subscriptions.
Prompt(t) ==
    /\ waiter[t].pc \in {"idle", "lookup", "adding"} =>
          \A a \in Attempt : timer[t][a] # "armed"
    /\ waiter[t].pc = "adding" => subscriptions[t] = waiter[t].set
    /\ \A a \in Attempt :
          timer[t][a] = "armed" =>
              /\ a = waiter[t].attempt
              /\ subscriptions[t] # 0 /\ a \in items[t][subscriptions[t]]
PromptInv == ~panicked /\ \A t \in Topic : Prompt(t)

\* Nothing is asked, published or handed in at first.
LEMMA InitIInv == Init => IInv /\ PromptInv
<1> SUFFICES ASSUME Init PROVE IInv /\ PromptInv
  OBVIOUS
<1> USE AcksAssumption DEF Init, Waiting, NoCounts, Attempt, Answer
<1>1. <<>> \in Buffers
  BY DEF Buffers
<1>2. PubSubTyped /\ CountsTyped
  BY <1>1 DEF PubSubTyped, CountsTyped, Sets, Timers, Channels
<1>3. SendingTyped
  BY DEF SendingTyped, Sendings
<1>4. WaitersTyped
  BY DEF WaitersTyped, Waiters, WaiterPC, WaiterFits
<1>5. OnlyAccepted /\ OnlyChosen /\ Decided
  BY DEF OnlyAccepted, OnlyChosen, Decided, Silent, Topic
<1>6. HandedIn = {}
  BY DEF HandedIn, Topic
<1>7. Counted
  BY <1>6, FS_EmptySet DEF Counted
<1>8. PromptInv
  BY DEF PromptInv, Prompt
<1> QED
  BY <1>2, <1>3, <1>4, <1>5, <1>7, <1>8 DEF IInv

-------------------------------------------------------------------------------
(* Buffers.                                                                       *)

LEMMA Pushing ==
    ASSUME NEW b \in Buffers, NEW k \in Answer, Len(b) < BuffSize PROVE
    /\ Append(b, k) \in Buffers
    /\ k # "ok" /\ Silent(b) => Silent(Append(b, k))
BY AcksAssumption, AppendProperties DEF Buffers, Silent

LEMMA Taking ==
    ASSUME NEW b \in Buffers, b # <<>> PROVE
    /\ Tail(b) \in Buffers /\ Head(b) \in Answer
    /\ Silent(b) => Silent(Tail(b)) /\ Head(b) # "ok"
<1>1. b \in Seq(Answer) /\ Len(b) <= BuffSize
  BY DEF Buffers
<1>2. /\ Head(b) \in Answer /\ Tail(b) \in Seq(Answer)
      /\ Len(b) \in Nat \ {0} /\ Len(Tail(b)) = Len(b) - 1
      /\ \A i \in 1 .. Len(Tail(b)) : Tail(b)[i] = b[i + 1]
  BY <1>1, HeadTailProperties, EmptySeq, LenProperties
<1>3. Head(b) = b[1]
  BY <1>1
<1>4. Tail(b) \in Buffers
  BY <1>1, <1>2, AcksAssumption DEF Buffers
<1> QED
  BY <1>2, <1>3, <1>4 DEF Silent

-------------------------------------------------------------------------------
(* Who changes what.                                                              *)

LEMMA PubSubChanges ==
    ASSUME [Next]_vars PROVE
    \/ UNCHANGED pubsub
    \/ \E t \in Topic : \/ Ask(t) \/ SubscribeFor(t) \/ AddToSet(t) \/ Hear(t)
                        \/ \E a \in Attempt : Expire(t, a)
                        \/ \E k \in Answer : Publish(t, k)
BY DEF Next, Progress, vars, pubsub, KeepAll, Handshake, GiveUp, Send, Wake, TimeOut,
       SendTo, HandIn, StartSending, Collect, SendByCriteria, Reply, DiscoveryStops,
       CommStops, Topic

LEMMA CountsChange ==
    ASSUME [Next]_vars PROVE
    \/ UNCHANGED <<asked, replies, acks, acknowledged>>
    \/ \E t \in Topic : \/ t \in Caller /\ Send(t)
                        \/ t \in Peer /\ (SendTo(t) \/ HandIn(t))
                        \/ \E k \in Answer : Publish(t, k) \/ Reply(t, k)
    \/ \E k \in Answer : Collect(k)
BY DEF Next, Progress, vars, KeepAll, Handshake, Ask, FindSet, GiveUp, Wake, AddToSet,
       Hear, TimeOut, Expire, SubscribeFor, StartSending, SendByCriteria,
       DiscoveryStops, CommStops, Topic

LEMMA SendingChanges ==
    ASSUME [Next]_vars PROVE
    \/ UNCHANGED sending
    \/ StartSending \/ \E k \in Answer : Collect(k)
    \/ \E to \in SUBSET Peer, n \in 0 .. Cardinality(Peer) : SendByCriteria(to, n)
BY DEF Next, Progress, vars, KeepAll, Handshake, Ask, FindSet, GiveUp, Send, Wake,
       AddToSet, Hear, TimeOut, Expire, SubscribeFor, SendTo, HandIn, Publish, Reply,
       DiscoveryStops, CommStops, Topic

LEMMA WaiterChanges ==
    ASSUME [Next]_vars PROVE
    \/ UNCHANGED waiter
    \/ \E t \in Caller : Handshake(t) \/ Ask(t) \/ GiveUp(t) \/ Send(t) \/ Wake(t)
    \/ \E t \in Topic : AddToSet(t) \/ Hear(t) \/ TimeOut(t)
    \/ \E p \in Peer : SubscribeFor(p) \/ SendTo(p) \/ HandIn(p)
BY DEF Next, Progress, vars, KeepAll, Expire, StartSending, Collect, SendByCriteria,
       Publish, Reply, DiscoveryStops, CommStops

\* Subscribe finds the topic's Set or makes it.
Subscribes(t) ==
    \E a \in Attempt, s \in Attempt :
        /\ a = waiter[t].attempt + 1
        /\ s = IF subscriptions[t] = 0 THEN a ELSE subscriptions[t]
        /\ subscriptions' = [subscriptions EXCEPT ![t] = s]
        /\ waiter' = [waiter EXCEPT ![t] =
                         [waiter[t] EXCEPT !.pc = "adding", !.attempt = a, !.set = s]]
        /\ UNCHANGED <<items, timer, buffer>>

LEMMA Subscribing ==
    ASSUME PubSubTyped, WaitersTyped, NEW t \in Topic, Ask(t) \/ SubscribeFor(t)
    PROVE  Subscribes(t)
<1> DEFINE a == waiter[t].attempt + 1
           s == IF subscriptions[t] = 0 THEN a ELSE subscriptions[t]
<1>1. FindSet(t)
  BY DEF Ask, SubscribeFor
<1>2. waiter[t].attempt \in 0 .. MaxAttempts /\ waiter[t].attempt < MaxAttempts
  BY AcksAssumption DEF WaitersTyped, Waiters, WaiterFits, Ask, SubscribeFor
<1>3. a \in Attempt /\ s \in Attempt
  BY <1>2, AcksAssumption DEF PubSubTyped, Attempt
<1> QED
  BY <1>1, <1>3 DEF FindSet, NextAttempt, Subscribes

\* A waiter moves on: the rest stay where they are.
Moves(t, pc) ==
    /\ waiter' \in [Topic -> Waiters]
    /\ \A u \in Topic \ {t} : waiter'[u] = waiter[u]
    /\ waiter'[t].pc = pc

LEMMA Becoming ==
    ASSUME WaitersTyped, NEW t \in Topic, NEW w \in Waiters,
           waiter' = [waiter EXCEPT ![t] = w]
    PROVE  Moves(t, w.pc) /\ waiter'[t] = w
BY DEF Moves, WaitersTyped

LEMMA Going ==
    ASSUME WaitersTyped, NEW t \in Topic, NEW pc \in WaiterPC, Goes(t, pc)
    PROVE  /\ Moves(t, pc)
           /\ waiter'[t].attempt = waiter[t].attempt /\ waiter'[t].set = waiter[t].set
           /\ waiter'[t].got = waiter[t].got
<1> DEFINE w == [waiter[t] EXCEPT !.pc = pc]
<1>1. waiter[t] \in Waiters
  BY DEF WaitersTyped
<1>2. /\ w \in Waiters /\ w.pc = pc /\ w.attempt = waiter[t].attempt
      /\ w.set = waiter[t].set /\ w.got = waiter[t].got
  BY <1>1 DEF Waiters
<1>3. waiter' = [waiter EXCEPT ![t] = w]
  BY DEF Goes
<1> HIDE DEF w
<1>4. Moves(t, w.pc) /\ waiter'[t] = w
  BY <1>2, <1>3, Becoming, Zenon
<1> QED
  BY <1>2, <1>4

LEMMA SubscriberMoves ==
    ASSUME PubSubTyped, WaitersTyped, NEW t \in Topic, Subscribes(t)
    PROVE  /\ Moves(t, "adding") /\ waiter'[t].attempt \in Attempt
           /\ waiter'[t].attempt = waiter[t].attempt + 1
           /\ waiter'[t].set \in Attempt /\ waiter'[t].set = subscriptions'[t]
           /\ waiter'[t].got = waiter[t].got
<1>1. PICK a \in Attempt, s \in Attempt :
         /\ a = waiter[t].attempt + 1
         /\ subscriptions' = [subscriptions EXCEPT ![t] = s]
         /\ waiter' = [waiter EXCEPT ![t] =
                         [waiter[t] EXCEPT !.pc = "adding", !.attempt = a, !.set = s]]
  BY DEF Subscribes
<1> DEFINE w == [waiter[t] EXCEPT !.pc = "adding", !.attempt = a, !.set = s]
<1>2. waiter[t] \in Waiters
  BY DEF WaitersTyped
<1>3. /\ w \in Waiters /\ w.pc = "adding" /\ w.attempt = a
      /\ w.set = s /\ w.got = waiter[t].got
  <2>1. "adding" \in WaiterPC /\ a \in 0 .. MaxAttempts /\ s \in 0 .. MaxAttempts
    BY AcksAssumption DEF WaiterPC, Attempt
  <2> QED
    BY <1>2, <2>1 DEF Waiters
<1> HIDE DEF w
<1>4. Moves(t, w.pc) /\ waiter'[t] = w
  BY <1>1, <1>3, Becoming, Zenon DEF w
<1>5. waiter'[t].set = subscriptions'[t]
  BY <1>1, <1>3, <1>4 DEF PubSubTyped
<1> QED
  BY <1>1, <1>3, <1>4, <1>5

\* What a waiter hears is in its buffer; an error stands for nothing heard.
LEMMA HearerMoves ==
    ASSUME PubSubTyped, WaitersTyped, NEW t \in Topic, Hear(t)
    PROVE  LET b == buffer[t][waiter[t].attempt] IN
           /\ Moves(t, IF t \in Peer THEN "finished" ELSE "done")
           /\ waiter[t].attempt \in Attempt /\ b \in Buffers /\ b # <<>>
           /\ waiter'[t].attempt = waiter[t].attempt /\ waiter'[t].got = Head(b)
           /\ buffer' = [buffer EXCEPT ![t][waiter[t].attempt] = Tail(b)]
<1> DEFINE b == buffer[t][waiter[t].attempt]
           pc == IF t \in Peer THEN "finished" ELSE "done"
           w == [waiter[t] EXCEPT !.pc = pc, !.got = Head(b)]
<1>1. waiter[t] \in Waiters /\ waiter[t].attempt \in Attempt
  BY DEF WaitersTyped, WaiterFits, Hear
<1>2. b \in Buffers /\ b # <<>>
  BY <1>1 DEF PubSubTyped, Channels, Hear
<1>3. Head(b) \in Answer
  BY <1>2, Taking, Zenon
<1>4. pc \in WaiterPC
  BY DEF WaiterPC
<1>5. /\ waiter' = [waiter EXCEPT ![t] = w]
      /\ buffer' = [buffer EXCEPT ![t][waiter[t].attempt] = Tail(b)]
  BY DEF Hear
<1> HIDE DEF b, pc
<1>6. w \in Waiters /\ w.pc = pc /\ w.attempt = waiter[t].attempt /\ w.got = Head(b)
  BY <1>1, <1>3, <1>4 DEF Waiters
<1> HIDE DEF w
<1>7. Moves(t, w.pc) /\ waiter'[t] = w
  BY <1>5, <1>6, Becoming, Zenon
<1> QED
  BY <1>1, <1>2, <1>5, <1>6, <1>7 DEF b, pc

LEMMA TimeOutMoves ==
    ASSUME WaitersTyped, NEW t \in Topic, TimeOut(t)
    PROVE  /\ Moves(t, IF t \in Peer THEN "finished" ELSE "sleeping")
           /\ waiter'[t].got = IF t \in Peer THEN "error" ELSE "none"
           /\ waiter'[t].attempt = waiter[t].attempt
<1> DEFINE pc == IF t \in Peer THEN "finished" ELSE "sleeping"
           got == IF t \in Peer THEN "error" ELSE "none"
           w == [waiter[t] EXCEPT !.pc = pc, !.got = got]
<1>1. waiter[t] \in Waiters
  BY DEF WaitersTyped
<1>2. pc \in WaiterPC /\ got \in Answer \cup {"none"}
  BY DEF WaiterPC, Answer
<1>3. waiter' = [waiter EXCEPT ![t] = w]
  BY DEF TimeOut
<1> HIDE DEF pc, got
<1>4. w \in Waiters /\ w.pc = pc /\ w.attempt = waiter[t].attempt /\ w.got = got
  BY <1>1, <1>2 DEF Waiters
<1> HIDE DEF w
<1>5. Moves(t, w.pc) /\ waiter'[t] = w
  BY <1>3, <1>4, Becoming, Zenon
<1> QED
  BY <1>4, <1>5 DEF pc, got

-------------------------------------------------------------------------------
(* What each step keeps.                                                          *)

\* The state of PubSub.
LEMMA PubSubStep ==
    ASSUME PubSubTyped, WaitersTyped, [Next]_vars PROVE PubSubTyped'
<1>1. CASE UNCHANGED pubsub
  BY <1>1 DEF pubsub, PubSubTyped
<1>2. ASSUME NEW t \in Topic, Ask(t) \/ SubscribeFor(t) PROVE PubSubTyped'
  <2>1. Subscribes(t)
    BY <1>2, Subscribing, Zenon
  <2> QED
    BY <2>1, AcksAssumption DEF Subscribes, PubSubTyped, Attempt
<1>3. ASSUME NEW t \in Topic, AddToSet(t) PROVE PubSubTyped'
  <2> DEFINE a == waiter[t].attempt
             s == waiter[t].set
  <2>1. a \in Attempt /\ s \in Attempt
    BY <1>3 DEF AddToSet, WaitersTyped, WaiterFits
  <2>2. /\ items' = [items EXCEPT ![t] = [items[t] EXCEPT ![s] = items[t][s] \cup {a}]]
        /\ timer' = [timer EXCEPT ![t] = [timer[t] EXCEPT ![a] = "armed"]]
    BY <1>3 DEF AddToSet, Added
  <2> HIDE DEF a, s
  <2>3. /\ [items[t] EXCEPT ![s] = items[t][s] \cup {a}] \in Sets
        /\ [timer[t] EXCEPT ![a] = "armed"] \in Timers
    BY <2>1 DEF PubSubTyped, Sets, Timers
  <2>4. UNCHANGED <<subscriptions, buffer>>
    BY <1>3 DEF AddToSet
  <2> QED
    BY <2>2, <2>3, <2>4 DEF PubSubTyped
<1>4. ASSUME NEW t \in Topic, Hear(t) PROVE PubSubTyped'
  <2> DEFINE a == waiter[t].attempt
             b == buffer[t][a]
  <2>1. a \in Attempt /\ b \in Buffers /\ b # <<>>
    BY <1>4, HearerMoves, Zenon
  <2>2. buffer' = [buffer EXCEPT ![t] = [buffer[t] EXCEPT ![a] = Tail(b)]]
    BY <1>4 DEF Hear
  <2>3. Tail(b) \in Buffers
    BY <2>1, Taking, Zenon
  <2> HIDE DEF a, b
  <2>4. [buffer[t] EXCEPT ![a] = Tail(b)] \in Channels
    BY <2>1, <2>3 DEF PubSubTyped, Channels
  <2>5. UNCHANGED <<subscriptions, items, timer>>
    BY <1>4 DEF Hear
  <2> QED
    BY <2>2, <2>4, <2>5 DEF PubSubTyped
<1>5. ASSUME NEW t \in Topic, NEW a \in Attempt, Expire(t, a) PROVE PubSubTyped'
  <2>1. timer' = [timer EXCEPT ![t] = [timer[t] EXCEPT ![a] = "fired"]] /\ buffer' = buffer
    BY <1>5 DEF Expire
  <2>2. [timer[t] EXCEPT ![a] = "fired"] \in Timers
    BY DEF PubSubTyped, Timers
  <2>3. subscriptions' \in [Topic -> 0 .. MaxAttempts]
    BY <1>5, AcksAssumption DEF Expire, Deleted, PubSubTyped
  <2>4. items' \in [Topic -> Sets]
    <3>1. CASE subscriptions[t] = 0
      BY <1>5, <3>1 DEF Expire, PubSubTyped
    <3>2. CASE subscriptions[t] # 0
      <4> DEFINE s == subscriptions[t]
                 new == [items[t] EXCEPT ![s] = items[t][s] \ {a}]
      <4>1. items' = [items EXCEPT ![t] = new] /\ s \in Attempt
        BY <1>5, <3>2, AcksAssumption DEF Expire, PubSubTyped, Attempt
      <4>2. new \in Sets
        BY <4>1 DEF PubSubTyped, Sets
      <4> QED
        BY <4>1, <4>2 DEF PubSubTyped
    <3> QED
      BY <3>1, <3>2
  <2> QED
    BY <2>1, <2>2, <2>3, <2>4 DEF PubSubTyped
<1>6. ASSUME NEW t \in Topic, NEW k \in Answer, Publish(t, k) PROVE PubSubTyped'
  <2>1. Published(t, k) \in Channels
    <3>1. \A b \in Buffers : Len(b) < BuffSize => Append(b, k) \in Buffers
      BY Pushing
    <3>2. \A a \in Attempt : buffer[t][a] \in Buffers
      BY DEF PubSubTyped, Channels
    <3> QED
      BY <3>1, <3>2 DEF Published, Channels
  <2> QED
    BY <1>6, <2>1 DEF Publish, PubSubTyped
<1> QED
  BY <1>1, <1>2, <1>3, <1>4, <1>5, <1>6, PubSubChanges, Zenon

\* Requests, answers and results are counted.
LEMMA CountsStep ==
    ASSUME CountsTyped, WaitersTyped, [Next]_vars PROVE CountsTyped'
<1> USE DEF CountsTyped, Answer
<1>1. CASE UNCHANGED <<asked, replies, acks, acknowledged>>
  BY <1>1
<1>2. ASSUME NEW t \in Topic, t \in Caller, Send(t) PROVE CountsTyped'
  BY <1>2 DEF Send
<1>3. ASSUME NEW t \in Topic, t \in Peer, SendTo(t) PROVE CountsTyped'
  BY <1>3 DEF SendTo
<1>4. ASSUME NEW t \in Topic, t \in Peer, HandIn(t) PROVE CountsTyped'
  <2>1. waiter[t].got \in Answer
    BY <1>4 DEF HandIn, WaitersTyped, WaiterFits
  <2> QED
    BY <1>4, <2>1 DEF HandIn
<1>5. ASSUME NEW t \in Topic, NEW k \in Answer, Publish(t, k) PROVE CountsTyped'
  BY <1>5 DEF Publish
<1>6. ASSUME NEW t \in Topic, NEW k \in Answer, Reply(t, k) PROVE CountsTyped'
  BY <1>6 DEF Reply
<1>7. ASSUME NEW k \in Answer, Collect(k) PROVE CountsTyped'
  BY <1>7 DEF Collect
<1> QED
  BY <1>1, <1>2, <1>3, <1>4, <1>5, <1>6, <1>7, CountsChange, Zenon

\* The outcome is decided by what was counted.
LEMMA Returning ==
    ASSUME NEW s \in Sendings, Returns(s)
    PROVE  /\ SendingTyped' /\ Decided' /\ sending'.pc = "done"
           /\ sending'.to = s.to /\ sending'.successes = s.successes
           /\ sending'.results = s.results
<1>1. Outcome(s) \in {"ok", "error"} /\ (Outcome(s) = "ok" => s.successes >= s.minAck)
  BY DEF Outcome, AckCount, Sendings
<1>2. sending' = [s EXCEPT !.pc = "done", !.outcome = Outcome(s)]
  BY DEF Returns
<1> HIDE DEF Outcome
<1>3. sending' \in Sendings
  BY <1>1, <1>2 DEF Sendings
<1>4. /\ sending'.outcome = Outcome(s) /\ sending'.pc = "done" /\ sending'.to = s.to
      /\ sending'.successes = s.successes /\ sending'.minAck = s.minAck
      /\ sending'.results = s.results
  BY <1>2 DEF Sendings
<1> QED
  BY <1>1, <1>3, <1>4 DEF SendingTyped, Decided

\* What the call knows when it has got a result, and when it has chosen its peers.
WithResult(k) ==
    [sending EXCEPT !.results = sending.results + 1,
                    !.successes = IF k = "ok" THEN sending.successes + 1
                                  ELSE sending.successes]

LEMMA Collecting ==
    ASSUME SendingTyped, Decided, NEW k \in Answer, Collect(k)
    PROVE  /\ \/ Returns(WithResult(k))
              \/ /\ sending' = WithResult(k)
                 /\ WithResult(k).results # Cardinality(sending.to)
           /\ WithResult(k).results = sending.results + 1
           /\ WithResult(k) \in Sendings /\ WithResult(k).outcome = "none"
           /\ WithResult(k).to = sending.to /\ WithResult(k).pc = "collecting"
           /\ WithResult(k).successes = IF k = "ok" THEN sending.successes + 1
                                        ELSE sending.successes
<1>1. sending \in Sendings /\ sending.pc = "collecting" /\ sending.outcome = "none"
  BY DEF Collect, SendingTyped, Decided
<1>2. \/ Returns(WithResult(k))
      \/ sending' = WithResult(k) /\ WithResult(k).results # Cardinality(WithResult(k).to)
  BY DEF Collect, WithResult
<1>3. /\ sending.results + 1 \in Nat
      /\ (IF k = "ok" THEN sending.successes + 1 ELSE sending.successes) \in Nat
  BY <1>1 DEF Sendings
<1>4. WithResult(k) \in Sendings
  BY <1>1, <1>3 DEF WithResult, Sendings
<1> QED
  BY <1>1, <1>2, <1>4 DEF WithResult, Sendings

WithPeers(to, n) == [sending EXCEPT !.to = to, !.minAck = n]

LEMMA Choosing ==
    ASSUME SendingTyped, Decided, NEW to \in SUBSET Peer,
           NEW n \in 0 .. Cardinality(Peer), SendByCriteria(to, n)
    PROVE  /\ sending.pc = "start"
           /\ \/ Returns(WithPeers(to, n))
              \/ sending' = [WithPeers(to, n) EXCEPT !.pc = "subscribing"] /\ to # {}
           /\ WithPeers(to, n).results = sending.results
           /\ WithPeers(to, n) \in Sendings /\ WithPeers(to, n).outcome = "none"
           /\ WithPeers(to, n).to = to
           /\ WithPeers(to, n).successes = sending.successes
<1>1. sending \in Sendings /\ sending.pc = "start" /\ sending.outcome = "none"
  BY DEF SendByCriteria, SendingTyped, Decided
<1>2. n \in Nat
  BY AcksAssumption, FS_CardinalityType
<1>3. \/ Returns(WithPeers(to, n))
      \/ sending' = [WithPeers(to, n) EXCEPT !.pc = "subscribing"] /\ to # {}
  BY DEF SendByCriteria, WithPeers
<1>4. WithPeers(to, n) \in Sendings
  BY <1>1, <1>2 DEF WithPeers, Sendings
<1> QED
  BY <1>1, <1>3, <1>4 DEF WithPeers, Sendings

\* The call of SendByCriteria.
LEMMA SendingStep ==
    ASSUME SendingTyped, Decided, [Next]_vars PROVE SendingTyped' /\ Decided'
<1> USE DEF SendingTyped, Decided
<1>1. CASE UNCHANGED sending
  BY <1>1
<1>2. CASE StartSending
  BY <1>2 DEF StartSending, Sendings
<1>3. ASSUME NEW k \in Answer, Collect(k) PROVE SendingTyped' /\ Decided'
  <2> DEFINE s == WithResult(k)
  <2>1. /\ Returns(s) \/ sending' = s
        /\ s \in Sendings /\ s.outcome = "none"
    BY <1>3, Collecting, Zenon
  <2> HIDE DEF s
  <2>2. CASE sending' = s
    BY <2>1, <2>2
  <2>3. CASE Returns(s)
    BY <2>1, <2>3, Returning, Zenon
  <2> QED
    BY <2>1, <2>2, <2>3
<1>4. ASSUME NEW to \in SUBSET Peer, NEW n \in 0 .. Cardinality(Peer),
             SendByCriteria(to, n)
      PROVE  SendingTyped' /\ Decided'
  <2> DEFINE s == WithPeers(to, n)
  <2>1. /\ Returns(s) \/ sending' = [s EXCEPT !.pc = "subscribing"]
        /\ s \in Sendings /\ s.outcome = "none"
    BY <1>4, Choosing, Zenon
  <2> HIDE DEF s
  <2>2. CASE sending' = [s EXCEPT !.pc = "subscribing"]
    BY <2>1, <2>2 DEF Sendings
  <2>3. CASE Returns(s)
    BY <2>1, <2>3, Returning, Zenon
  <2> QED
    BY <2>1, <2>2, <2>3
<1> QED
  BY <1>1, <1>2, <1>3, <1>4, SendingChanges, Zenon

\* The goroutines that wait.
LEMMA WaitersStep ==
    ASSUME PubSubTyped, WaitersTyped, [Next]_vars PROVE WaitersTyped'
<1>1. ASSUME NEW t \in Topic, NEW pc, Moves(t, pc), WaiterFits(t)' PROVE WaitersTyped'
  BY <1>1 DEF WaitersTyped, WaiterFits, Moves
<1>2. CASE UNCHANGED waiter
  BY <1>2 DEF WaitersTyped, WaiterFits
<1>3. ASSUME NEW t \in Topic, NEW pc \in {"lookup", "done"}, Goes(t, pc) PROVE WaitersTyped'
  <2>1. Moves(t, pc)
    BY <1>3, Going DEF WaiterPC
  <2> QED
    BY <1>1, <2>1 DEF Moves, WaiterFits
<1>4. ASSUME NEW t \in Topic, NEW pc \in {"sending", "listening"}, Goes(t, pc),
             waiter[t].attempt \in Attempt
      PROVE  WaitersTyped'
  <2>1. Moves(t, pc) /\ waiter'[t].attempt = waiter[t].attempt
    BY <1>4, Going DEF WaiterPC
  <2> QED
    BY <1>1, <1>4, <2>1 DEF Moves, WaiterFits
<1>5. ASSUME NEW t \in Caller, Handshake(t) \/ GiveUp(t) \/ Wake(t) PROVE WaitersTyped'
  <2>1. t \in Topic /\ (Goes(t, "done") \/ Goes(t, "lookup"))
    BY <1>5 DEF Handshake, GiveUp, Wake, Gone, Topic
  <2> QED
    BY <1>3, <2>1
<1>6. ASSUME NEW t \in Topic, Ask(t) \/ SubscribeFor(t) PROVE WaitersTyped'
  <2>1. Moves(t, "adding") /\ waiter'[t].attempt \in Attempt /\ waiter'[t].set \in Attempt
    BY <1>6, Subscribing, SubscriberMoves, Zenon
  <2> QED
    BY <1>1, <2>1 DEF Moves, WaiterFits
<1>7. ASSUME NEW t \in Topic, AddToSet(t) PROVE WaitersTyped'
  BY <1>4, <1>7 DEF AddToSet, WaitersTyped, WaiterFits
<1>8. ASSUME NEW t \in Topic, (t \in Caller /\ Send(t)) \/ SendTo(t) PROVE WaitersTyped'
  BY <1>4, <1>8 DEF Send, SendTo, WaitersTyped, WaiterFits
<1>9. ASSUME NEW t \in Topic, HandIn(t) PROVE WaitersTyped'
  BY <1>3, <1>9 DEF HandIn
<1>10. ASSUME NEW t \in Topic, Hear(t) PROVE WaitersTyped'
  <2> DEFINE b == buffer[t][waiter[t].attempt]
  <2>1. /\ Moves(t, IF t \in Peer THEN "finished" ELSE "done")
        /\ b \in Buffers /\ b # <<>> /\ waiter'[t].got = Head(b)
    BY <1>10, HearerMoves, Zenon
  <2>2. waiter'[t].got \in Answer
    BY <2>1, Taking, Zenon
  <2>3. WaiterFits(t)'
    BY <2>1, <2>2 DEF Moves, WaiterFits
  <2> QED
    BY <1>1, <2>1, <2>3
<1>11. ASSUME NEW t \in Topic, TimeOut(t) PROVE WaitersTyped'
  <2>1. /\ Moves(t, IF t \in Peer THEN "finished" ELSE "sleeping")
        /\ waiter'[t].got = IF t \in Peer THEN "error" ELSE "none"
    BY <1>11, TimeOutMoves, Zenon
  <2>2. WaiterFits(t)'
    BY <2>1 DEF Moves, WaiterFits, Answer
  <2> QED
    BY <1>1, <2>1, <2>2
<1> QED
  BY <1>2, <1>5, <1>6, <1>7, <1>8, <1>9, <1>10, <1>11, WaiterChanges, Zenon DEF Topic

\* What a step does to the goroutine that waits for a peer.
PeerGoes(p, from, to) == waiter[p].pc = from /\ waiter'[p].pc = to
PeerStep(p) ==
    \/ waiter'[p] = waiter[p]
    \/ PeerGoes(p, "idle", "adding") /\ SubscribeFor(p)
    \/ PeerGoes(p, "adding", "sending") /\ AddToSet(p)
    \/ PeerGoes(p, "sending", "listening") /\ SendTo(p)
    \/ PeerGoes(p, "listening", "finished") /\ (Hear(p) \/ TimeOut(p))
    \/ PeerGoes(p, "finished", "done") /\ HandIn(p)

LEMMA PeerSteps ==
    ASSUME PubSubTyped, WaitersTyped, [Next]_vars, NEW p \in Peer PROVE PeerStep(p)
<1> USE DEF PeerGoes
<1>1. ASSUME NEW t \in Topic, NEW pc, Moves(t, pc), t # p PROVE waiter'[p] = waiter[p]
  BY <1>1 DEF Moves, Topic
<1>2. p \in Topic /\ \A t \in Caller : t \in Topic /\ t # p
  BY AcksAssumption DEF Topic
<1>3. ASSUME UNCHANGED waiter PROVE PeerStep(p)
  BY <1>3 DEF PeerStep
<1>4. ASSUME NEW t \in Caller, Handshake(t) \/ GiveUp(t) \/ Wake(t) PROVE PeerStep(p)
  <2>1. Moves(t, "done") \/ Moves(t, "lookup")
    BY <1>2, <1>4, Going DEF Handshake, GiveUp, Wake, Gone, WaiterPC
  <2> QED
    BY <1>1, <1>2, <2>1 DEF PeerStep
<1>5. ASSUME NEW t \in Caller, Ask(t) PROVE PeerStep(p)
  <2>1. Moves(t, "adding")
    BY <1>2, <1>5, Subscribing, SubscriberMoves, Zenon
  <2> QED
    BY <1>1, <1>2, <2>1 DEF PeerStep
<1>6. ASSUME NEW t \in Caller, Send(t) PROVE PeerStep(p)
  <2>1. Moves(t, "listening")
    BY <1>2, <1>6, Going DEF Send, WaiterPC
  <2> QED
    BY <1>1, <1>2, <2>1 DEF PeerStep
<1>7. ASSUME NEW t \in Topic, AddToSet(t) PROVE PeerStep(p)
  <2>1. Moves(t, "sending") /\ waiter[t].pc = "adding"
    BY <1>7, Going DEF AddToSet, WaiterPC
  <2> QED
    BY <1>1, <1>7, <2>1 DEF Moves, PeerStep
<1>8. ASSUME NEW t \in Topic, Hear(t) PROVE PeerStep(p)
  <2>1. Moves(t, IF t \in Peer THEN "finished" ELSE "done")
    BY <1>8, HearerMoves, Zenon
  <2>2. waiter[t].pc = "listening"
    BY <1>8 DEF Hear
  <2> QED
    BY <1>1, <1>8, <2>1, <2>2 DEF Moves, PeerStep
<1>9. ASSUME NEW t \in Topic, TimeOut(t) PROVE PeerStep(p)
  <2>1. Moves(t, IF t \in Peer THEN "finished" ELSE "sleeping")
    BY <1>9, TimeOutMoves, Zenon
  <2>2. waiter[t].pc = "listening"
    BY <1>9 DEF TimeOut
  <2> QED
    BY <1>1, <1>9, <2>1, <2>2 DEF Moves, PeerStep
<1>10. ASSUME NEW q \in Peer, SubscribeFor(q) PROVE PeerStep(p)
  <2>1. q \in Topic /\ Moves(q, "adding")
    BY <1>10, Subscribing, SubscriberMoves, Zenon DEF Topic
  <2>2. waiter[q].pc = "idle"
    BY <1>10 DEF SubscribeFor
  <2> QED
    BY <1>1, <1>10, <2>1, <2>2 DEF Moves, PeerStep
<1>11. ASSUME NEW q \in Peer, SendTo(q) PROVE PeerStep(p)
  <2>1. q \in Topic /\ Moves(q, "listening") /\ waiter[q].pc = "sending"
    BY <1>11, Going DEF SendTo, WaiterPC, Topic
  <2> QED
    BY <1>1, <1>11, <2>1 DEF Moves, PeerStep
<1>12. ASSUME NEW q \in Peer, HandIn(q) PROVE PeerStep(p)
  <2>1. q \in Topic /\ Moves(q, "done") /\ waiter[q].pc = "finished"
    BY <1>12, Going DEF HandIn, WaiterPC, Topic
  <2> QED
    BY <1>1, <1>12, <2>1 DEF Moves, PeerStep
<1> QED
  BY <1>3, <1>4, <1>5, <1>6, <1>7, <1>8, <1>9, <1>10, <1>11, <1>12, WaiterChanges, Zenon

\* Only the peers that were chosen are asked.
LEMMA ChosenStep ==
    ASSUME PubSubTyped, WaitersTyped, SendingTyped, Decided, OnlyChosen, [Next]_vars
    PROVE  OnlyChosen'
<1>1. ASSUME NEW p \in Peer, waiter'[p].pc # "idle"
      PROVE  sending.pc # "start" /\ p \in sending.to
  <2>1. \/ waiter[p].pc # "idle"
        \/ SubscribeFor(p)
    BY <1>1, PeerSteps DEF PeerStep, PeerGoes
  <2> QED
    BY <2>1 DEF OnlyChosen, SubscribeFor
<1>2. sending.pc # "start" => sending'.pc # "start" /\ sending'.to = sending.to
  <2>1. CASE UNCHANGED sending
    BY <2>1
  <2>2. CASE StartSending
    BY <2>2 DEF StartSending, SendingTyped, Sendings
  <2>3. ASSUME NEW k \in Answer, Collect(k)
        PROVE  sending'.pc # "start" /\ sending'.to = sending.to
    <3>1. /\ Returns(WithResult(k)) \/ sending' = WithResult(k)
          /\ WithResult(k) \in Sendings /\ WithResult(k).to = sending.to
          /\ WithResult(k).pc = "collecting"
      BY <2>3, Collecting, Zenon
    <3>2. CASE sending' = WithResult(k)
      BY <3>1, <3>2
    <3>3. CASE Returns(WithResult(k))
      <4>1. sending'.pc = "done" /\ sending'.to = WithResult(k).to
        BY <3>1, <3>3, Returning, Zenon
      <4> QED
        BY <3>1, <4>1
    <3> QED
      BY <3>1, <3>2, <3>3
  <2>4. ASSUME NEW to \in SUBSET Peer, NEW n \in 0 .. Cardinality(Peer),
               SendByCriteria(to, n)
        PROVE  sending.pc = "start"
    BY <2>4 DEF SendByCriteria
  <2> QED
    BY <2>1, <2>2, <2>3, <2>4, SendingChanges, Zenon
<1> QED
  BY <1>1, <1>2 DEF OnlyChosen

\* Accepting comes before answering, and that before hearing.
LEMMA AcceptedStep ==
    ASSUME PubSubTyped, CountsTyped, WaitersTyped, OnlyAccepted, [Next]_vars
    PROVE  OnlyAccepted'
<1>1. /\ acknowledged \subseteq acknowledged'
      /\ \A p \in Peer \ acknowledged' : replies'[p]["ok"] = 0
  <2> DEFINE Fits == /\ acknowledged \subseteq acknowledged'
                     /\ \A p \in Peer \ acknowledged' : replies'[p]["ok"] = 0
  <2>1. ASSUME UNCHANGED <<replies, acknowledged>> PROVE Fits
    BY <2>1 DEF OnlyAccepted
  <2>2. ASSUME NEW t \in Topic, NEW k \in Answer, Publish(t, k) PROVE Fits
    BY <2>2 DEF Publish, OnlyAccepted, CountsTyped, Answer, Topic
  <2>3. ASSUME NEW t \in Topic, NEW k \in Answer, Reply(t, k) PROVE Fits
    BY <2>3 DEF Reply, OnlyAccepted, CountsTyped, Answer, Topic
  <2>4. ASSUME NEW t \in Topic, \/ t \in Caller /\ Send(t)
                                \/ t \in Peer /\ (SendTo(t) \/ HandIn(t))
        PROVE  UNCHANGED <<replies, acknowledged>>
    BY <2>4 DEF Send, SendTo, HandIn
  <2>5. ASSUME NEW k \in Answer, Collect(k) PROVE UNCHANGED <<replies, acknowledged>>
    BY <2>5 DEF Collect
  <2> HIDE DEF Fits
  <2>6. Fits
    BY <2>1, <2>2, <2>3, <2>4, <2>5, CountsChange, Zenon
  <2> QED
    BY <2>6 DEF Fits
<1>2. ASSUME NEW p \in Peer \ acknowledged, NEW a \in Attempt
      PROVE  Silent(buffer'[p][a])
  <2>1. p \in Topic /\ buffer[p][a] \in Buffers /\ Silent(buffer[p][a])
    BY DEF OnlyAccepted, Topic, PubSubTyped, Channels
  <2>2. CASE UNCHANGED buffer
    BY <2>1, <2>2
  <2>3. ASSUME NEW t \in Topic, Hear(t) PROVE Silent(buffer'[p][a])
    <3> DEFINE c == waiter[t].attempt
               b == buffer[t][c]
    <3>1. /\ c \in Attempt /\ b \in Buffers /\ b # <<>>
          /\ buffer' = [buffer EXCEPT ![t][c] = Tail(b)]
      BY <2>3, HearerMoves, Zenon
    <3>2. Silent(b) => Silent(Tail(b))
      BY <3>1, Taking, Zenon
    <3>3. buffer'[p][a] = IF t = p /\ a = c THEN Tail(b) ELSE buffer[p][a]
      BY <2>1, <3>1 DEF PubSubTyped, Channels
    <3> QED
      BY <2>1, <3>2, <3>3
  <2>4. ASSUME NEW t \in Topic, NEW k \in Answer, Publish(t, k) PROVE Silent(buffer'[p][a])
    <3>1. t = p => k # "ok"
      BY <2>4 DEF Publish, OnlyAccepted, CountsTyped, Answer
    <3>2. buffer'[p][a] = IF t = p THEN Published(t, k)[a] ELSE buffer[p][a]
      BY <2>1, <2>4 DEF Publish, PubSubTyped
    <3>3. \/ buffer'[p][a] = buffer[p][a]
          \/ /\ t = p /\ buffer'[p][a] = Append(buffer[p][a], k)
             /\ Len(buffer[p][a]) < BuffSize
      BY <3>2 DEF Published
    <3> QED
      BY <2>1, <3>1, <3>3, Pushing
  <2>5. ASSUME NEW t \in Topic, \/ Ask(t) \/ SubscribeFor(t) \/ AddToSet(t)
                                \/ \E c \in Attempt : Expire(t, c)
        PROVE  UNCHANGED buffer
    BY <2>5 DEF Ask, SubscribeFor, FindSet, AddToSet, Expire
  <2>6. UNCHANGED pubsub => UNCHANGED buffer
    BY DEF pubsub
  <2> QED
    BY <2>2, <2>3, <2>4, <2>5, <2>6, PubSubChanges, Zenon
<1>3. ASSUME NEW p \in Peer \ acknowledged PROVE waiter'[p].got # "ok"
  <2>1. p \in Topic /\ waiter[p].got # "ok" /\ \A a \in Attempt : Silent(buffer[p][a])
    BY DEF OnlyAccepted, Topic
  <2>2. ASSUME NEW t \in Topic, NEW pc \in WaiterPC, Goes(t, pc) PROVE waiter'[p].got # "ok"
    BY <2>1, <2>2, Going DEF Moves
  <2>3. CASE UNCHANGED waiter
    BY <2>1, <2>3
  <2>4. ASSUME NEW t \in Caller, Handshake(t) \/ GiveUp(t) \/ Send(t) \/ Wake(t)
        PROVE  waiter'[p].got # "ok"
    BY <2>2, <2>4 DEF Handshake, GiveUp, Send, Wake, Gone, WaiterPC, Topic
  <2>5. ASSUME NEW t \in Topic, Ask(t) \/ SubscribeFor(t) PROVE waiter'[p].got # "ok"
    <3>1. Moves(t, "adding") /\ waiter'[t].got = waiter[t].got
      BY <2>5, Subscribing, SubscriberMoves, Zenon
    <3> QED
      BY <2>1, <3>1 DEF Moves
  <2>6. ASSUME NEW t \in Topic, AddToSet(t) PROVE waiter'[p].got # "ok"
    BY <2>2, <2>6 DEF AddToSet, WaiterPC
  <2>7. ASSUME NEW t \in Topic, Hear(t) PROVE waiter'[p].got # "ok"
    <3> DEFINE c == waiter[t].attempt
               b == buffer[t][c]
               pc == IF t \in Peer THEN "finished" ELSE "done"
    <3>1. /\ c \in Attempt /\ b \in Buffers /\ b # <<>>
          /\ Moves(t, pc) /\ waiter'[t].got = Head(b)
      BY <2>7, HearerMoves, Zenon
    <3>2. Silent(b) => Head(b) # "ok"
      BY <3>1, Taking, Zenon
    <3> HIDE DEF c, pc
    <3> QED
      BY <2>1, <3>1, <3>2 DEF Moves
  <2>8. ASSUME NEW t \in Topic, TimeOut(t) PROVE waiter'[p].got # "ok"
    <3>1. /\ Moves(t, IF t \in Peer THEN "finished" ELSE "sleeping")
          /\ waiter'[t].got = IF t \in Peer THEN "error" ELSE "none"
      BY <2>8, TimeOutMoves, Zenon
    <3> QED
      BY <2>1, <3>1 DEF Moves
  <2>9. ASSUME NEW q \in Peer, SendTo(q) \/ HandIn(q) PROVE waiter'[p].got # "ok"
    BY <2>2, <2>9 DEF SendTo, HandIn, WaiterPC, Topic
  <2> QED
    BY <2>3, <2>4, <2>5, <2>6, <2>7, <2>8, <2>9, WaiterChanges, Zenon DEF Topic
<1> QED
  BY <1>1, <1>2, <1>3 DEF OnlyAccepted

\* Results are handed in and collected one by one.
LEMMA AcksChange ==
    ASSUME [Next]_vars, \A p \in Peer : ~HandIn(p), \A k \in Answer : ~Collect(k)
    PROVE  acks' = acks
<1>1. ASSUME NEW t \in Topic, NEW k \in Answer, Publish(t, k) \/ Reply(t, k)
      PROVE  acks' = acks
  BY <1>1 DEF Publish, Reply
<1>2. ASSUME NEW t \in Topic, (t \in Caller /\ Send(t)) \/ (t \in Peer /\ SendTo(t))
      PROVE  acks' = acks
  BY <1>2 DEF Send, SendTo
<1>3. UNCHANGED <<asked, replies, acks, acknowledged>> => acks' = acks
  OBVIOUS
<1> QED
  BY <1>1, <1>2, <1>3, CountsChange, Zenon

\* A success is counted once.
LEMMA CountedStep ==
    ASSUME PubSubTyped, CountsTyped, SendingTyped, Decided, WaitersTyped, Counted,
           [Next]_vars
    PROVE  Counted'
<1>1. ASSUME NEW p \in Peer, ~HandIn(p) PROVE p \in HandedIn' <=> p \in HandedIn
  BY <1>1, PeerSteps DEF HandedIn, PeerStep, PeerGoes
<1>2. IsFiniteSet(HandedIn) /\ Cardinality(HandedIn) \in Nat
  BY AcksAssumption, FS_Subset, FS_CardinalityType DEF HandedIn
<1>3. sending.successes \in Nat /\ acks["ok"] \in Nat /\ acks["error"] \in Nat
  BY DEF SendingTyped, Sendings, CountsTyped, Answer
<1>4. ASSUME NEW p \in Peer, HandIn(p) PROVE Counted'
  <2>1. p \in Topic /\ waiter[p].pc = "finished" /\ waiter[p].got \in Answer
    BY <1>4 DEF HandIn, Topic, WaitersTyped, WaiterFits
  <2>2. Moves(p, "done") /\ waiter'[p].got = waiter[p].got
    BY <1>4, <2>1, Going DEF HandIn, WaiterPC
  <2>3. /\ sending' = sending
        /\ acks' = [acks EXCEPT ![waiter[p].got] = @ + 1]
    BY <1>4 DEF HandIn
  <2>4. HandedIn' = IF waiter[p].got = "ok" THEN HandedIn \cup {p} ELSE HandedIn
    BY <2>1, <2>2 DEF Moves, HandedIn, Topic
  <2>5. Cardinality(HandedIn \cup {p}) = Cardinality(HandedIn) + 1
    BY <1>2, <2>1, FS_AddElement DEF HandedIn
  <2>6. acks'["ok"] = IF waiter[p].got = "ok" THEN acks["ok"] + 1 ELSE acks["ok"]
    BY <2>1, <2>3 DEF CountsTyped, Answer
  <2> QED
    BY <1>2, <1>3, <2>3, <2>4, <2>5, <2>6 DEF Counted
<1>5. ASSUME NEW k \in Answer, Collect(k) PROVE Counted'
  <2>1. /\ Returns(WithResult(k)) \/ sending' = WithResult(k)
        /\ WithResult(k) \in Sendings
        /\ WithResult(k).successes = IF k = "ok" THEN sending.successes + 1
                                     ELSE sending.successes
    BY <1>5, Collecting, Zenon
  <2>2. sending'.successes = WithResult(k).successes
    BY <2>1, Returning, Zenon
  <2>3. acks'["ok"] = IF k = "ok" THEN acks["ok"] - 1 ELSE acks["ok"]
    BY <1>5 DEF Collect, CountsTyped, Answer
  <2>4. HandedIn' = HandedIn
    BY <1>5 DEF Collect, HandedIn
  <2> QED
    BY <1>2, <1>3, <2>1, <2>2, <2>3, <2>4 DEF Counted
<1>6. CASE /\ \A p \in Peer : ~HandIn(p)
           /\ \A k \in Answer : ~Collect(k)
  <2>1. HandedIn' = HandedIn
    BY <1>1, <1>6 DEF HandedIn
  <2>2. acks' = acks
    BY <1>6, AcksChange
  <2>3. sending'.successes = sending.successes
    <3>1. UNCHANGED sending \/ StartSending => sending'.successes = sending.successes
      BY DEF StartSending, SendingTyped, Sendings
    <3>2. ASSUME NEW to \in SUBSET Peer, NEW n \in 0 .. Cardinality(Peer),
                 SendByCriteria(to, n)
          PROVE  sending'.successes = sending.successes
      <4> DEFINE s == WithPeers(to, n)
      <4>1. /\ Returns(s) \/ sending' = [s EXCEPT !.pc = "subscribing"]
            /\ s \in Sendings /\ s.successes = sending.successes
        BY <3>2, Choosing, Zenon
      <4> HIDE DEF s
      <4>2. CASE Returns(s)
        <5>1. sending'.successes = s.successes
          BY <4>1, <4>2, Returning, Zenon
        <5> QED
          BY <4>1, <5>1
      <4>3. CASE sending' = [s EXCEPT !.pc = "subscribing"]
        BY <4>1, <4>3 DEF Sendings
      <4> QED
        BY <4>1, <4>2, <4>3
    <3> QED
      BY <1>6, <3>1, <3>2, SendingChanges, Zenon
  <2> QED
    BY <2>1, <2>2, <2>3 DEF Counted
<1> QED
  BY <1>4, <1>5, <1>6

\* Only a timer can find its Set missing.
LEMMA PanicOnly ==
    ASSUME [Next]_vars PROVE
    \/ UNCHANGED panicked
    \/ \E t \in Topic, a \in Attempt : Expire(t, a)
BY DEF Next, Progress, vars, KeepAll, Handshake, Ask, FindSet, GiveUp, Send, Wake,
       AddToSet, Hear, TimeOut, SubscribeFor, StartSending, SendTo, HandIn, Collect,
       SendByCriteria, Publish, Reply, DiscoveryStops, CommStops

\* A timer that meets its Set leaves it to nobody else.
LEMMA PromptStep ==
    ASSUME PromptTimers = TRUE, PubSubTyped, WaitersTyped, PromptInv, [Next]_vars
    PROVE  PromptInv'
<1> DEFINE Same(u) ==
        /\ waiter'[u].pc = waiter[u].pc /\ waiter'[u].attempt = waiter[u].attempt
        /\ waiter'[u].set = waiter[u].set
        /\ subscriptions'[u] = subscriptions[u] /\ items'[u] = items[u]
        /\ timer'[u] = timer[u]
    PromptAll == \A u \in Topic : Prompt(u)'
<1>1. ASSUME NEW t \in Topic, Prompt(t)', \A u \in Topic \ {t} : Same(u) PROVE PromptAll
  BY <1>1 DEF PromptInv, Prompt
<1>2. ASSUME NEW t \in Topic, NEW pc, Moves(t, pc),
             pc \notin {"idle", "lookup", "adding"}
               \/ (pc # "adding" /\ \A a \in Attempt : timer[t][a] # "armed"),
             waiter'[t].attempt = waiter[t].attempt, UNCHANGED <<subscriptions, items, timer>>
      PROVE  PromptAll
  BY <1>2 DEF PromptInv, Prompt, Moves
<1>3. ASSUME NEW t \in Caller, Handshake(t) \/ GiveUp(t) \/ Wake(t) PROVE PromptAll
  <2>1. t \in Topic /\ \A a \in Attempt : timer[t][a] # "armed"
    BY <1>3 DEF PromptInv, Prompt, Handshake, GiveUp, Wake, Topic
  <2>2. PICK pc \in {"done", "lookup"} : Goes(t, pc)
    BY <1>3 DEF Handshake, GiveUp, Wake, Gone
  <2>3. Moves(t, pc) /\ waiter'[t].attempt = waiter[t].attempt
    BY <2>1, <2>2, Going DEF WaiterPC
  <2>4. UNCHANGED <<subscriptions, items, timer>>
    BY <1>3 DEF Handshake, GiveUp, Wake, KeepAll, pubsub
  <2> QED
    BY <1>2, <2>1, <2>2, <2>3, <2>4
<1>4. ASSUME NEW t \in Topic, Ask(t) \/ SubscribeFor(t) PROVE PromptAll
  <2>1. Subscribes(t)
    BY <1>4, Subscribing, Zenon
  <2>2. /\ Moves(t, "adding") /\ waiter'[t].attempt \in Attempt
        /\ waiter'[t].set \in Attempt /\ waiter'[t].set = subscriptions'[t]
    BY <2>1, SubscriberMoves, Zenon
  <2>3. \A a \in Attempt : timer[t][a] # "armed"
    BY <1>4 DEF PromptInv, Prompt, Ask, SubscribeFor
  <2>4. UNCHANGED <<items, timer>> /\ \A u \in Topic \ {t} : subscriptions'[u] = subscriptions[u]
    BY <2>1 DEF Subscribes, PubSubTyped
  <2> QED
    BY <1>1, <2>2, <2>3, <2>4 DEF Prompt, Moves
<1>5. ASSUME NEW t \in Topic, AddToSet(t) PROVE PromptAll
  <2> DEFINE a == waiter[t].attempt
             s == waiter[t].set
  <2>1. a \in Attempt /\ s \in Attempt /\ waiter[t].pc = "adding"
    BY <1>5 DEF AddToSet, WaitersTyped, WaiterFits
  <2>2. Moves(t, "sending") /\ waiter'[t].attempt = a
    BY <1>5, Going DEF AddToSet, WaiterPC
  <2>3. subscriptions[t] = s /\ \A b \in Attempt : timer[t][b] # "armed"
    BY <2>1 DEF PromptInv, Prompt
  <2>4. /\ items' = [items EXCEPT ![t][s] = items[t][s] \cup {a}]
        /\ timer' = [timer EXCEPT ![t][a] = "armed"]
        /\ subscriptions' = subscriptions
    BY <1>5 DEF AddToSet, Added
  <2> HIDE DEF a, s
  <2>5. a \in items'[t][s] /\ \A b \in Attempt \ {a} : timer'[t][b] # "armed"
    BY <2>1, <2>3, <2>4 DEF PubSubTyped, Sets, Timers
  <2>6. \A u \in Topic \ {t} : Same(u)
    BY <2>2, <2>4 DEF Moves, PubSubTyped
  <2>7. s # 0
    BY <2>1, AcksAssumption DEF Attempt
  <2> QED
    BY <1>1, <2>1, <2>2, <2>3, <2>4, <2>5, <2>6, <2>7 DEF Prompt, Moves
<1>6. ASSUME NEW t \in Topic, Hear(t) PROVE PromptAll
  <2> DEFINE pc == IF t \in Peer THEN "finished" ELSE "done"
  <2>1. Moves(t, pc) /\ waiter'[t].attempt = waiter[t].attempt
    BY <1>6, HearerMoves, Zenon
  <2>2. UNCHANGED <<subscriptions, items, timer>>
    BY <1>6 DEF Hear
  <2> QED
    BY <1>2, <2>1, <2>2
<1>7. ASSUME NEW t \in Topic, TimeOut(t) PROVE PromptAll
  <2> DEFINE pc == IF t \in Peer THEN "finished" ELSE "sleeping"
  <2>1. Moves(t, pc) /\ waiter'[t].attempt = waiter[t].attempt
    BY <1>7, TimeOutMoves, Zenon
  <2>2. UNCHANGED <<subscriptions, items, timer>>
    BY <1>7 DEF TimeOut, pubsub
  <2> QED
    BY <1>2, <2>1, <2>2
<1>8. ASSUME NEW t \in Topic, (t \in Caller /\ Send(t)) \/ SendTo(t) \/ HandIn(t)
      PROVE  PromptAll
  <2>1. PICK pc \in {"listening", "done"} : Goes(t, pc)
    BY <1>8 DEF Send, SendTo, HandIn
  <2>2. Moves(t, pc) /\ waiter'[t].attempt = waiter[t].attempt
    BY <2>1, Going DEF WaiterPC
  <2>3. UNCHANGED <<subscriptions, items, timer>>
    BY <1>8 DEF Send, SendTo, HandIn, pubsub
  <2> QED
    BY <1>2, <2>1, <2>2, <2>3
<1>9. ASSUME NEW t \in Topic, NEW a \in Attempt, Expire(t, a) PROVE PromptInv'
  <2> DEFINE s == subscriptions[t]
  <2>1. timer[t][a] = "armed" /\ s # 0
    BY <1>9 DEF Expire, PromptInv, Prompt
  <2>2. /\ timer' = [timer EXCEPT ![t][a] = "fired"] /\ UNCHANGED <<waiter, panicked>>
        /\ items' = [items EXCEPT ![t][s] = items[t][s] \ {a}]
        /\ \/ subscriptions' = subscriptions
           \/ subscriptions' = [subscriptions EXCEPT ![t] = 0]
    BY <1>9, <2>1 DEF Expire, Deleted
  <2>3. \A b \in Attempt : timer'[t][b] # "armed"
    BY <2>1, <2>2 DEF PromptInv, Prompt, PubSubTyped, Timers
  <2>4. waiter[t].pc # "adding"
    BY <2>1 DEF PromptInv, Prompt
  <2>5. \A u \in Topic \ {t} : Same(u)
    BY <2>2 DEF PubSubTyped
  <2> QED
    BY <1>1, <2>2, <2>3, <2>4, <2>5 DEF PromptInv, Prompt
<1>10. ASSUME UNCHANGED waiter, UNCHANGED <<subscriptions, items, timer>> PROVE PromptAll
  BY <1>10 DEF PromptInv, Prompt
<1>11. ASSUME NEW t \in Topic, NEW k \in Answer, Publish(t, k) PROVE PromptAll
  BY <1>10, <1>11 DEF Publish
<1>12. ASSUME NEW t \in Topic, NEW a \in Attempt, Expire(t, a) PROVE PromptAll
  BY <1>9, <1>12 DEF PromptInv
<1>13. CASE UNCHANGED pubsub
  <2>1. UNCHANGED <<subscriptions, items, timer>>
    BY <1>13 DEF pubsub
  <2>2. \A t \in Caller : t \in Topic
    BY DEF Topic
  <2>3. \A p \in Peer : p \in Topic
    BY DEF Topic
  <2>4. ASSUME NEW t \in Caller, Handshake(t) \/ Ask(t) \/ GiveUp(t) \/ Send(t) \/ Wake(t)
        PROVE  PromptAll
    BY <1>3, <1>4, <1>8, <2>2, <2>4, Zenon
  <2>5. ASSUME NEW t \in Topic, AddToSet(t) \/ Hear(t) \/ TimeOut(t) PROVE PromptAll
    BY <1>5, <1>6, <1>7, <2>5, Zenon
  <2>6. ASSUME NEW p \in Peer, SubscribeFor(p) \/ SendTo(p) \/ HandIn(p) PROVE PromptAll
    BY <1>4, <1>8, <2>3, <2>6, Zenon
  <2>7. PromptAll
    BY <1>10, <2>1, <2>4, <2>5, <2>6, WaiterChanges, Zenon
  <2>8. ~panicked'
    BY <1>13, <1>9, PanicOnly DEF PromptInv
  <2> QED
    BY <2>7, <2>8 DEF PromptInv
<1>14. CASE ~UNCHANGED pubsub
  <2>1. PromptAll
    BY <1>4, <1>5, <1>6, <1>11, <1>12, <1>14, PubSubChanges, Zenon
  <2>2. ~panicked'
    BY <1>9, PanicOnly DEF PromptInv
  <2> QED
    BY <2>1, <2>2 DEF PromptInv
<1> QED
  BY <1>13, <1>14

-------------------------------------------------------------------------------
(* The theorems.                                                                  *)

LEMMA StepIInv == IInv /\ [Next]_vars => IInv'
<1> SUFFICES ASSUME IInv, [Next]_vars PROVE IInv'
  OBVIOUS
<1> USE DEF IInv
<1>1. PubSubTyped'
  BY PubSubStep
<1>2. CountsTyped'
  BY CountsStep
<1>3. SendingTyped' /\ Decided'
  BY SendingStep
<1>4. WaitersTyped'
  BY WaitersStep
<1>5. OnlyAccepted'
  BY AcceptedStep
<1>6. OnlyChosen'
  BY ChosenStep
<1>7. Counted'
  BY CountedStep
<1> QED
  BY <1>1, <1>2, <1>3, <1>4, <1>5, <1>6, <1>7

\* The state of PubSub and of those that wait stays as described, with every success
\* that is counted handed in by a peer that accepted.
THEOREM Invariance == Spec => []IInv
<1>1. Init => IInv
  BY InitIInv
<1>2. IInv /\ [Next]_vars => IInv'
  BY StepIInv
<1> QED
  BY <1>1, <1>2, PTL DEF Spec

\* Types; no buffer of a subscription ever holds more than subscriptionBuffSize items,
\* so that Publish, which holds the lock, never waits.
THEOREM TypeCorrect == Spec => []TypeOK
<1>1. IInv => TypeOK
  <2> SUFFICES ASSUME IInv PROVE TypeOK
    OBVIOUS
  <2> USE DEF IInv
  <2>1. ASSUME NEW t \in Topic, NEW a \in Attempt
        PROVE  buffer[t][a] \in UNION {[1 .. n -> Answer] : n \in 0 .. BuffSize}
    <3>1. buffer[t][a] \in Seq(Answer) /\ Len(buffer[t][a]) <= BuffSize
      BY DEF PubSubTyped, Channels, Buffers
    <3>2. /\ Len(buffer[t][a]) \in 0 .. BuffSize
          /\ buffer[t][a] \in [1 .. Len(buffer[t][a]) -> Answer]
      BY <3>1, LenProperties, AcksAssumption
    <3> QED
      BY <3>2
  <2>2. ASSUME NEW t \in Topic
        PROVE  /\ waiter[t].pc \in WaiterPC
               /\ waiter[t].attempt \in 0 .. MaxAttempts
               /\ waiter[t].set \in 0 .. MaxAttempts
               /\ waiter[t].got \in Answer \cup {"none"}
    BY DEF WaitersTyped, Waiters
  <2>3. /\ sending.to \subseteq Peer /\ acknowledged \subseteq Peer
        /\ sending.outcome \in {"none", "ok", "error"}
    BY DEF SendingTyped, Sendings, CountsTyped
  <2>4. /\ subscriptions \in [Topic -> 0 .. MaxAttempts]
        /\ items \in [Topic -> [Attempt -> SUBSET Attempt]]
        /\ timer \in [Topic -> [Attempt -> {"none", "armed", "fired"}]]
    BY DEF PubSubTyped, Sets, Timers
  <2> QED
    BY <2>1, <2>2, <2>3, <2>4 DEF TypeOK, WaiterPC
<1> QED
  BY <1>1, Invariance, PTL

\* SendByCriteria returns success only when MinAck peers, all different, accepted the
\* message: no refusal, and no peer twice, is counted as one of them.
THEOREM SuccessIsAcked == Spec => []AckedByEnough
<1>1. IInv => AckedByEnough
  <2> SUFFICES ASSUME IInv, sending.outcome = "ok"
               PROVE  Cardinality(acknowledged \cap sending.to) >= sending.minAck
    BY DEF AckedByEnough
  <2> USE DEF IInv
  <2>1. HandedIn \subseteq acknowledged \cap sending.to
    BY DEF HandedIn, OnlyAccepted, OnlyChosen
  <2>2. IsFiniteSet(acknowledged \cap sending.to)
    BY AcksAssumption, FS_Subset DEF CountsTyped
  <2>3. Cardinality(HandedIn) <= Cardinality(acknowledged \cap sending.to)
    BY <2>1, <2>2, FS_Subset
  <2>4. sending.successes <= Cardinality(HandedIn)
    BY DEF Counted, CountsTyped, SendingTyped, Sendings, Answer
  <2>5. sending.successes >= sending.minAck
    BY DEF Decided
  <2>6. /\ Cardinality(HandedIn) \in Nat
        /\ Cardinality(acknowledged \cap sending.to) \in Nat
    BY <2>1, <2>2, FS_Subset, FS_CardinalityType
  <2>7. sending.successes \in Nat /\ sending.minAck \in Nat
    BY DEF SendingTyped, Sendings
  <2> QED
    BY <2>3, <2>4, <2>5, <2>6, <2>7
<1> QED
  BY <1>1, Invariance, PTL

\* With timers that fire before their callers subscribe again, a subscription whose
\* timer is armed is always in the Set that Publish finds, and no timer meets a topic
\* whose Set is gone.
THEOREM AlwaysReachable == ASSUME PromptTimers = TRUE PROVE Spec => []Reachable
<1>1. Init => IInv /\ PromptInv
  BY InitIInv
<1>2. IInv /\ PromptInv /\ [Next]_vars => (IInv /\ PromptInv)'
  <2> SUFFICES ASSUME IInv, PromptInv, [Next]_vars PROVE IInv' /\ PromptInv'
    OBVIOUS
  <2>1. IInv'
    BY StepIInv
  <2>2. PromptInv'
    BY PromptStep DEF IInv
  <2> QED
    BY <2>1, <2>2
<1>3. IInv /\ PromptInv => Reachable
  BY DEF PromptInv, Prompt, Reachable
<1> QED
  BY <1>1, <1>2, <1>3, PTL DEF Spec

-------------------------------------------------------------------------------
(* How the calls end.                                                             *)

\* Each peer of the call goes its way, and what it hands in is collected or waits in
\* the channel: while the call collects, somebody has not handed in yet, or a result
\* is there.
PeerPC == {"idle", "adding", "sending", "listening", "finished", "done"}
Places ==
    /\ \A p \in Peer : waiter[p].pc \in PeerPC
    /\ sending.pc = "subscribing" =>
          /\ sending.to # {}
          /\ \A p \in sending.to : waiter[p].pc \in {"idle", "adding", "sending"}
    /\ sending.pc = "collecting" =>
          /\ sending.results < Cardinality(sending.to)
          /\ \A p \in sending.to : waiter[p].pc \notin {"idle", "adding"}
    /\ sending.pc \in {"start", "subscribing"} => sending.results = 0
Finishers == {p \in Peer : waiter[p].pc = "done"}
AllCounted == acks["ok"] + acks["error"] + sending.results = Cardinality(Finishers)
EndInv == IInv /\ Places /\ AllCounted

\* With prompt timers: nothing is left in a topic's Set but the last subscription, for
\* as long as its timer is armed.
Tidy(t) ==
    /\ \A s, a \in Attempt :
          a \in items[t][s] => s = subscriptions[t] /\ timer[t][a] = "armed"
    /\ subscriptions[t] # 0 =>
          waiter[t].pc = "adding" \/ \E a \in Attempt : timer[t][a] = "armed"
TidyInv == \A t \in Topic : Tidy(t)

LEMMA InitEndInv == Init => EndInv /\ TidyInv
<1> SUFFICES ASSUME Init PROVE Places /\ AllCounted /\ TidyInv
  BY InitIInv DEF EndInv
<1> USE DEF Init, Waiting, NoCounts, Answer
<1>1. Places
  BY DEF Places, PeerPC, Topic
<1>2. Finishers = {}
  BY DEF Finishers, Topic
<1>3. AllCounted
  BY <1>2, FS_EmptySet DEF AllCounted
<1>4. TidyInv
  BY DEF TidyInv, Tidy
<1> QED
  BY <1>1, <1>3, <1>4

\* A step moves the call or one of the goroutines, not both.
LEMMA SendingAlone ==
    ASSUME [Next]_vars PROVE
    \/ UNCHANGED sending
    \/ UNCHANGED waiter /\ (StartSending \/ \E k \in Answer : Collect(k))
    \/ UNCHANGED waiter /\ \E to \in SUBSET Peer, n \in 0 .. Cardinality(Peer) :
                               SendByCriteria(to, n)
BY SendingChanges DEF StartSending, Collect, SendByCriteria

LEMMA PlacesStep == ASSUME IInv, Places, [Next]_vars PROVE Places'
<1> USE DEF IInv
<1>1. \A p \in Peer : PeerStep(p)
  BY PeerSteps
<1>2. \A p \in Peer : waiter'[p].pc \in PeerPC
  BY <1>1 DEF Places, PeerPC, PeerStep, PeerGoes
<1>3. CASE UNCHANGED sending
  <2>1. ASSUME sending.pc = "subscribing", NEW p \in sending.to
        PROVE  waiter'[p].pc \in {"idle", "adding", "sending"}
    <3>1. p \in Peer /\ waiter[p].pc \in {"idle", "adding", "sending"}
      BY <2>1 DEF Places, SendingTyped, Sendings
    <3> QED
      BY <1>1, <2>1, <3>1 DEF PeerStep, PeerGoes, SendTo
  <2>2. ASSUME sending.pc = "collecting", NEW p \in sending.to
        PROVE  waiter'[p].pc \notin {"idle", "adding"}
    <3>1. p \in Peer /\ waiter[p].pc \notin {"idle", "adding"}
      BY <2>2 DEF Places, SendingTyped, Sendings
    <3> QED
      BY <1>1, <3>1 DEF PeerStep, PeerGoes
  <2> QED
    BY <1>2, <1>3, <2>1, <2>2 DEF Places
<1>4. CASE UNCHANGED waiter /\ StartSending
  <2>1. /\ sending.pc = "subscribing" /\ \A p \in sending.to : waiter[p].pc = "sending"
        /\ sending'.pc = "collecting" /\ sending'.to = sending.to
        /\ sending'.results = sending.results
    BY <1>4 DEF StartSending, SendingTyped, Sendings
  <2>2. IsFiniteSet(sending.to) /\ sending.to # {}
    BY <2>1, AcksAssumption, FS_Subset DEF Places, SendingTyped, Sendings
  <2>3. Cardinality(sending.to) \in Nat /\ Cardinality(sending.to) # 0
    BY <2>2, FS_CardinalityType, FS_EmptySet
  <2> QED
    BY <1>2, <1>4, <2>1, <2>3 DEF Places
<1>5. ASSUME UNCHANGED waiter, NEW k \in Answer, Collect(k) PROVE Places'
  <2> DEFINE s == WithResult(k)
  <2>1. /\ Returns(s) \/ (sending' = s /\ s.results # Cardinality(sending.to))
        /\ s \in Sendings /\ s.results = sending.results + 1 /\ s.to = sending.to
        /\ s.pc = "collecting"
    BY <1>5, Collecting, Zenon
  <2>2. sending.pc = "collecting"
    BY <1>5 DEF Collect
  <2> HIDE DEF s
  <2>3. CASE Returns(s)
    <3>1. sending'.pc = "done"
      BY <2>1, <2>3, Returning, Zenon
    <3> QED
      BY <1>2, <3>1 DEF Places
  <2>4. CASE sending' = s /\ s.results # Cardinality(sending.to)
    <3>1. sending.results < Cardinality(sending.to) /\ sending.results \in Nat
      BY <2>2 DEF Places, SendingTyped, Sendings
    <3>2. Cardinality(sending.to) \in Nat
      BY AcksAssumption, FS_Subset, FS_CardinalityType DEF SendingTyped, Sendings
    <3>3. s.results < Cardinality(sending.to)
      BY <2>1, <2>4, <3>1, <3>2
    <3> QED
      BY <1>2, <1>5, <2>1, <2>2, <2>4, <3>3 DEF Places
  <2> QED
    BY <2>1, <2>3, <2>4
<1>6. ASSUME UNCHANGED waiter, NEW to \in SUBSET Peer, NEW n \in 0 .. Cardinality(Peer),
             SendByCriteria(to, n)
      PROVE  Places'
  <2> DEFINE s == WithPeers(to, n)
  <2>1. /\ Returns(s) \/ (sending' = [s EXCEPT !.pc = "subscribing"] /\ to # {})
        /\ s \in Sendings /\ s.results = sending.results /\ s.to = to
        /\ sending.pc = "start"
    BY <1>6, Choosing, Zenon
  <2> HIDE DEF s
  <2>2. CASE Returns(s)
    <3>1. sending'.pc = "done"
      BY <2>1, <2>2, Returning, Zenon
    <3> QED
      BY <1>2, <3>1 DEF Places
  <2>3. CASE sending' = [s EXCEPT !.pc = "subscribing"] /\ to # {}
    <3>1. sending'.pc = "subscribing" /\ sending'.to = to /\ sending'.results = 0
      BY <2>1, <2>3 DEF Sendings, Places
    <3>2. \A p \in Peer : waiter'[p].pc = "idle"
      BY <1>6, <2>1 DEF OnlyChosen
    <3> QED
      BY <1>2, <2>3, <3>1, <3>2 DEF Places
  <2> QED
    BY <2>1, <2>2, <2>3
<1> QED
  BY <1>3, <1>4, <1>5, <1>6, SendingAlone

LEMMA AllCountedStep == ASSUME IInv, AllCounted, [Next]_vars PROVE AllCounted'
<1> USE DEF IInv
<1>1. \A p \in Peer : PeerStep(p)
  BY PeerSteps
<1>2. IsFiniteSet(Finishers) /\ Cardinality(Finishers) \in Nat
  BY AcksAssumption, FS_Subset, FS_CardinalityType DEF Finishers
<1>3. sending.results \in Nat /\ acks["ok"] \in Nat /\ acks["error"] \in Nat
  BY DEF SendingTyped, Sendings, CountsTyped, Answer
<1>4. ASSUME NEW p \in Peer, HandIn(p) PROVE AllCounted'
  <2>1. p \in Topic /\ waiter[p].pc = "finished" /\ waiter[p].got \in Answer
    BY <1>4 DEF HandIn, Topic, WaitersTyped, WaiterFits
  <2>2. Moves(p, "done")
    BY <1>4, <2>1, Going DEF HandIn, WaiterPC
  <2>3. Finishers' = Finishers \cup {p} /\ p \notin Finishers
    BY <2>1, <2>2 DEF Moves, Finishers, Topic
  <2>4. Cardinality(Finishers') = Cardinality(Finishers) + 1
    BY <1>2, <2>3, FS_AddElement
  <2>5. acks'["ok"] + acks'["error"] = acks["ok"] + acks["error"] + 1
    BY <1>3, <1>4, <2>1 DEF HandIn, CountsTyped, Answer
  <2>6. sending' = sending
    BY <1>4 DEF HandIn
  <2> QED
    BY <1>2, <1>3, <2>4, <2>5, <2>6 DEF AllCounted
<1>5. ASSUME NEW k \in Answer, Collect(k) PROVE AllCounted'
  <2>1. /\ Returns(WithResult(k)) \/ sending' = WithResult(k)
        /\ WithResult(k) \in Sendings
        /\ WithResult(k).results = sending.results + 1
    BY <1>5, Collecting, Zenon
  <2>2. sending'.results = sending.results + 1
    BY <2>1, Returning, Zenon
  <2>3. acks'["ok"] + acks'["error"] = acks["ok"] + acks["error"] - 1
    BY <1>3, <1>5 DEF Collect, CountsTyped, Answer
  <2>4. Finishers' = Finishers
    BY <1>5 DEF Collect, Finishers
  <2> QED
    BY <1>2, <1>3, <2>2, <2>3, <2>4 DEF AllCounted
<1>6. CASE /\ \A p \in Peer : ~HandIn(p)
           /\ \A k \in Answer : ~Collect(k)
  <2>1. Finishers' = Finishers
    BY <1>1, <1>6 DEF Finishers, PeerStep, PeerGoes
  <2>2. acks' = acks
    BY <1>6, AcksChange
  <2>3. sending'.results = sending.results
    <3>1. UNCHANGED sending \/ StartSending => sending'.results = sending.results
      BY DEF StartSending, SendingTyped, Sendings
    <3>2. ASSUME NEW to \in SUBSET Peer, NEW n \in 0 .. Cardinality(Peer),
                 SendByCriteria(to, n)
          PROVE  sending'.results = sending.results
      <4> DEFINE s == WithPeers(to, n)
      <4>1. /\ Returns(s) \/ sending' = [s EXCEPT !.pc = "subscribing"]
            /\ s \in Sendings /\ s.results = sending.results
        BY <3>2, Choosing, Zenon
      <4> HIDE DEF s
      <4>2. CASE Returns(s)
        BY <4>1, <4>2, Returning, Zenon
      <4>3. CASE sending' = [s EXCEPT !.pc = "subscribing"]
        BY <4>1, <4>3 DEF Sendings
      <4> QED
        BY <4>1, <4>2, <4>3
    <3> QED
      BY <1>6, <3>1, <3>2, SendingChanges, Zenon
  <2> QED
    BY <2>1, <2>2, <2>3 DEF AllCounted
<1> QED
  BY <1>4, <1>5, <1>6

LEMMA StepEndInv == EndInv /\ [Next]_vars => EndInv'
BY StepIInv, PlacesStep, AllCountedStep DEF EndInv

LEMMA EndInvariance == Spec => []EndInv
<1>1. Init => EndInv
  BY InitEndInv
<1> QED
  BY <1>1, StepEndInv, PTL DEF Spec

\* Where nothing goes on no call and no goroutine of one is on its way: each has been
\* answered, has timed out, has given up, or was never started.
THEOREM CallsAlwaysEnd == Spec => []CallsEnd
<1>1. ASSUME EndInv, Settled PROVE sending.pc \notin {"subscribing", "collecting"}
  <2> USE <1>1 DEF EndInv, IInv
  <2>1. sending.to \subseteq Peer /\ IsFiniteSet(sending.to)
    BY AcksAssumption, FS_Subset DEF SendingTyped, Sendings
  <2>2. CASE sending.pc = "subscribing"
    <3>1. PICK p \in sending.to : waiter[p].pc # "sending"
      BY <2>2 DEF Settled, SendingWaits
    <3> QED
      BY <2>1, <2>2, <3>1 DEF Settled, PeerWaits, Places
  <2>3. CASE sending.pc = "collecting"
    <3>1. acks["ok"] = 0 /\ acks["error"] = 0
      BY <2>3 DEF Settled, SendingWaits, Answer
    <3>2. sending.results \in Nat /\ Cardinality(sending.to) \in Nat
      BY <2>1, FS_CardinalityType DEF SendingTyped, Sendings
    <3>3. ASSUME NEW p \in sending.to PROVE waiter[p].pc = "done"
      <4>1. ~(acks["ok"] + acks["error"] >= Room(sending))
        BY <2>3, <3>1, <3>2 DEF Places, Room
      <4> QED
        BY <2>1, <2>3, <4>1 DEF Settled, PeerWaits, Places, PeerPC
    <3>4. sending.to \subseteq Finishers /\ IsFiniteSet(Finishers)
      BY <2>1, <3>3, AcksAssumption, FS_Subset DEF Finishers
    <3>5. Cardinality(sending.to) <= Cardinality(Finishers)
      BY <3>4, FS_Subset
    <3>6. sending.results = Cardinality(Finishers)
      BY <3>1, <3>2 DEF AllCounted
    <3> QED
      BY <2>3, <3>2, <3>5, <3>6 DEF Places
  <2> QED
    BY <2>2, <2>3
<1>2. ASSUME EndInv, Settled, NEW p \in Peer PROVE waiter[p].pc \in {"idle", "done"}
  <2> USE <1>2 DEF EndInv, IInv
  <2>1. sending.pc \in {"start", "done"}
    BY <1>1 DEF SendingTyped, Sendings
  <2>2. waiter[p].pc \in {"idle", "finished", "done"}
    BY <2>1 DEF Settled, PeerWaits, Places, PeerPC, OnlyChosen
  <2>3. CASE waiter[p].pc = "finished"
    <3>1. Finishers \subseteq sending.to \ {p} /\ p \in sending.to
      BY <2>3 DEF Finishers, OnlyChosen
    <3>2. IsFiniteSet(sending.to)
      BY AcksAssumption, FS_Subset DEF SendingTyped, Sendings
    <3>3. /\ Cardinality(sending.to \ {p}) = Cardinality(sending.to) - 1
          /\ IsFiniteSet(sending.to \ {p})
      BY <3>1, <3>2, FS_RemoveElement
    <3>4. Cardinality(Finishers) <= Cardinality(sending.to \ {p})
      BY <3>1, <3>3, FS_Subset
    <3>5. acks["ok"] + acks["error"] >= Cardinality(sending.to)
      BY <2>3 DEF Settled, PeerWaits, Room
    <3>6. /\ sending.results \in Nat /\ acks["ok"] \in Nat /\ acks["error"] \in Nat
          /\ Cardinality(sending.to) \in Nat /\ Cardinality(Finishers) \in Nat
      BY <3>1, <3>2, <3>3, FS_Subset, FS_CardinalityType
      DEF SendingTyped, Sendings, CountsTyped, Answer
    <3> QED
      BY <3>3, <3>4, <3>5, <3>6 DEF AllCounted
  <2> QED
    BY <2>2, <2>3
<1>3. ASSUME EndInv, PromptTimers = TRUE => ~panicked, Settled, NEW t \in Caller
      PROVE  waiter[t].pc = "done"
  <2>1. t \in Topic /\ t \notin Peer
    BY AcksAssumption DEF Topic
  <2>2. waiter[t].pc # "finished"
    BY <1>3, <2>1 DEF EndInv, IInv, WaitersTyped, WaiterFits
  <2>3. PromptTimers => \A a \in Attempt : timer[t][a] # "armed"
    BY <1>3, <2>1 DEF Settled, TimersWait
  <2> QED
    BY <1>3, <2>2, <2>3 DEF Settled, CallerWaits
<1>4. EndInv /\ (PromptTimers = TRUE => ~panicked) => CallsEnd
  BY <1>1, <1>2, <1>3 DEF CallsEnd, EndInv, IInv, SendingTyped, Sendings
<1>5. CASE PromptTimers = TRUE
  <2>1. Spec => []Reachable
    BY <1>5, AlwaysReachable
  <2>2. Reachable => ~panicked
    BY DEF Reachable
  <2> QED
    BY <1>4, <2>1, <2>2, EndInvariance, PTL
<1>6. CASE PromptTimers # TRUE
  <2>1. EndInv => CallsEnd
    BY <1>4, <1>6
  <2> QED
    BY <2>1, EndInvariance, PTL
<1> QED
  BY <1>5, <1>6

-------------------------------------------------------------------------------
(* How the topics go.                                                             *)

\* Who adds to a Set does so before anything else.
LEMMA AddingStays ==
    ASSUME PubSubTyped, WaitersTyped, [Next]_vars, NEW t \in Topic,
           waiter[t].pc = "adding", ~AddToSet(t)
    PROVE  waiter'[t].pc = "adding"
<1>1. ASSUME NEW u \in Topic, NEW pc, Moves(u, pc), waiter[u].pc # "adding"
      PROVE  waiter'[t].pc = "adding"
  BY <1>1 DEF Moves
<1>2. ASSUME NEW u \in Caller,
             Handshake(u) \/ Ask(u) \/ GiveUp(u) \/ Send(u) \/ Wake(u)
      PROVE  waiter'[t].pc = "adding"
  <2>1. u \in Topic /\ waiter[u].pc # "adding"
    BY <1>2 DEF Topic, Handshake, Ask, GiveUp, Send, Wake
  <2>2. CASE Ask(u)
    BY <1>1, <2>1, <2>2, Subscribing, SubscriberMoves, Zenon
  <2>3. CASE ~Ask(u)
    <3>1. PICK pc \in {"done", "lookup", "listening"} : Goes(u, pc)
      BY <1>2, <2>3 DEF Handshake, GiveUp, Send, Wake, Gone
    <3> QED
      BY <1>1, <2>1, <3>1, Going DEF WaiterPC
  <2> QED
    BY <2>2, <2>3
<1>3. ASSUME NEW u \in Topic, AddToSet(u) PROVE waiter'[t].pc = "adding"
  <2>1. Moves(u, "sending") /\ u # t
    BY <1>3, Going DEF AddToSet, WaiterPC
  <2> QED
    BY <2>1 DEF Moves
<1>4. ASSUME NEW u \in Topic, Hear(u) \/ TimeOut(u) PROVE waiter'[t].pc = "adding"
  <2>1. waiter[u].pc # "adding"
    BY <1>4 DEF Hear, TimeOut
  <2> QED
    BY <1>1, <1>4, <2>1, HearerMoves, TimeOutMoves, Zenon
<1>5. ASSUME NEW p \in Peer, SubscribeFor(p) \/ SendTo(p) \/ HandIn(p)
      PROVE  waiter'[t].pc = "adding"
  <2>1. p \in Topic /\ waiter[p].pc # "adding"
    BY <1>5 DEF Topic, SubscribeFor, SendTo, HandIn
  <2>2. CASE SubscribeFor(p)
    BY <1>1, <2>1, <2>2, Subscribing, SubscriberMoves, Zenon
  <2>3. CASE SendTo(p) \/ HandIn(p)
    <3>1. PICK pc \in {"listening", "done"} : Goes(p, pc)
      BY <2>3 DEF SendTo, HandIn
    <3> QED
      BY <1>1, <2>1, <3>1, Going DEF WaiterPC
  <2> QED
    BY <1>5, <2>2, <2>3
<1> QED
  BY <1>2, <1>3, <1>4, <1>5, WaiterChanges, Zenon

LEMMA TidyStep ==
    ASSUME PubSubTyped, WaitersTyped, PromptInv, TidyInv, [Next]_vars PROVE TidyInv'
<1> DEFINE Same(u) ==
        /\ subscriptions'[u] = subscriptions[u] /\ items'[u] = items[u]
        /\ timer'[u] = timer[u]
        /\ waiter[u].pc = "adding" => waiter'[u].pc = "adding"
<1>1. ASSUME NEW t \in Topic, Tidy(t)', \A u \in Topic \ {t} : Same(u) PROVE TidyInv'
  BY <1>1 DEF TidyInv, Tidy
<1>2. CASE UNCHANGED <<subscriptions, items, timer>> /\ \A t \in Topic : ~AddToSet(t)
  <2>1. \A u \in Topic : Same(u)
    BY <1>2, AddingStays
  <2> QED
    BY <2>1 DEF TidyInv, Tidy
<1>3. ASSUME NEW t \in Topic, Ask(t) \/ SubscribeFor(t) PROVE TidyInv'
  <2>1. Subscribes(t)
    BY <1>3, Subscribing, Zenon
  <2>2. Moves(t, "adding")
    BY <2>1, SubscriberMoves, Zenon
  <2>3. UNCHANGED <<items, timer>> /\ \A u \in Topic \ {t} : subscriptions'[u] = subscriptions[u]
    BY <2>1 DEF Subscribes, PubSubTyped
  <2>4. \A a \in Attempt : timer[t][a] # "armed"
    BY <1>3 DEF PromptInv, Prompt, Ask, SubscribeFor
  <2>5. \A u \in Topic \ {t} : Same(u)
    BY <2>2, <2>3 DEF Moves
  <2>6. waiter'[t].pc = "adding"
    BY <2>2 DEF Moves
  <2>7. Tidy(t)'
    BY <2>3, <2>4, <2>6 DEF TidyInv, Tidy
  <2> QED
    BY <1>1, <2>5, <2>7
<1>4. ASSUME NEW t \in Topic, AddToSet(t) PROVE TidyInv'
  <2> DEFINE a == waiter[t].attempt
             s == waiter[t].set
  <2>1. a \in Attempt /\ s \in Attempt /\ waiter[t].pc = "adding"
    BY <1>4 DEF AddToSet, WaitersTyped, WaiterFits
  <2>2. Moves(t, "sending")
    BY <1>4, Going DEF AddToSet, WaiterPC
  <2>3. subscriptions[t] = s /\ \A b \in Attempt : timer[t][b] # "armed"
    BY <2>1 DEF PromptInv, Prompt
  <2>4. /\ items' = [items EXCEPT ![t][s] = items[t][s] \cup {a}]
        /\ timer' = [timer EXCEPT ![t][a] = "armed"]
        /\ subscriptions' = subscriptions
    BY <1>4 DEF AddToSet, Added
  <2> HIDE DEF a, s
  <2>5. \A r, b \in Attempt : b \in items'[t][r] => r = s /\ b = a
    <3>1. items[t] \in Sets /\ items'[t] = [items[t] EXCEPT ![s] = items[t][s] \cup {a}]
      BY <2>4 DEF PubSubTyped
    <3>2. \A r, b \in Attempt : b \notin items[t][r]
      BY <2>3 DEF TidyInv, Tidy
    <3>3. \A r \in Attempt :
             items'[t][r] = IF r = s THEN items[t][s] \cup {a} ELSE items[t][r]
      BY <2>1, <3>1 DEF Sets
    <3> QED
      BY <2>1, <3>2, <3>3
  <2>6. timer'[t][a] = "armed"
    BY <2>1, <2>4 DEF PubSubTyped, Timers
  <2>7. \A u \in Topic \ {t} : Same(u)
    BY <2>2, <2>4 DEF Moves, PubSubTyped
  <2>8. Tidy(t)'
    BY <2>1, <2>3, <2>4, <2>5, <2>6 DEF Tidy
  <2> QED
    BY <1>1, <2>7, <2>8
<1>5. ASSUME NEW t \in Topic, NEW a \in Attempt, Expire(t, a) PROVE TidyInv'
  <2> DEFINE s == subscriptions[t]
  <2>1. timer[t][a] = "armed" /\ s # 0
    BY <1>5 DEF Expire, PromptInv, Prompt
  <2>2. s \in Attempt
    BY <2>1, AcksAssumption DEF PubSubTyped, Attempt
  <2>3. items[t][s] \ {a} = {}
    <3>1. \A b \in Attempt : b \in items[t][s] => b = a
      BY <2>1, <2>2 DEF TidyInv, Tidy, PromptInv, Prompt
    <3>2. items[t][s] \subseteq Attempt
      BY <2>2 DEF PubSubTyped, Sets
    <3> QED
      BY <3>1, <3>2
  <2>4. /\ timer' = [timer EXCEPT ![t][a] = "fired"] /\ UNCHANGED waiter
        /\ items' = [items EXCEPT ![t][s] = items[t][s] \ {a}]
        /\ subscriptions' = [subscriptions EXCEPT ![t] = 0]
    BY <1>5, <2>1, <2>3 DEF Expire, Deleted
  <2> HIDE DEF s
  <2>5. \A r, b \in Attempt : b \notin items'[t][r]
    <3>1. \A r, b \in Attempt : b \in items[t][r] => r = s
      BY DEF TidyInv, Tidy, s
    <3>2. \A r \in Attempt \ {s} : items'[t][r] = items[t][r]
      BY <2>4 DEF PubSubTyped, Sets
    <3>3. items'[t][s] = {}
      BY <2>2, <2>3, <2>4 DEF PubSubTyped, Sets
    <3> QED
      BY <3>1, <3>2, <3>3
  <2>6. subscriptions'[t] = 0 /\ \A u \in Topic \ {t} : Same(u)
    BY <2>4 DEF PubSubTyped
  <2>7. Tidy(t)'
    BY <2>5, <2>6 DEF Tidy
  <2> QED
    BY <1>1, <2>6, <2>7
<1>6. ASSUME NEW t \in Topic, Hear(t) \/ \E k \in Answer : Publish(t, k) PROVE TidyInv'
  <2>1. UNCHANGED <<subscriptions, items, timer>>
    BY <1>6 DEF Hear, Publish
  <2>2. CASE \E u \in Topic : AddToSet(u)
    BY <1>4, <2>2
  <2> QED
    BY <1>2, <2>1, <2>2
<1>7. CASE UNCHANGED pubsub
  <2>1. UNCHANGED <<subscriptions, items, timer>>
    BY <1>7 DEF pubsub
  <2> QED
    BY <1>2, <1>4, <2>1
<1> QED
  BY <1>3, <1>4, <1>5, <1>6, <1>7, PubSubChanges, Zenon

\* With prompt timers, where nothing goes on no topic is left: the last timer of each
\* found its Set with no other subscription, and took the topic along.
THEOREM TopicsAlwaysGo == ASSUME PromptTimers = TRUE PROVE Spec => []TopicsGo
<1> DEFINE Inv == IInv /\ PromptInv /\ TidyInv
<1>1. Init => Inv
  BY InitIInv, InitEndInv
<1>2. Inv /\ [Next]_vars => Inv'
  <2> SUFFICES ASSUME IInv, PromptInv, TidyInv, [Next]_vars PROVE Inv'
    OBVIOUS
  <2>1. IInv'
    BY StepIInv
  <2>2. PromptInv' /\ TidyInv'
    BY PromptStep, TidyStep DEF IInv
  <2> QED
    BY <2>1, <2>2
<1>3. Inv => TopicsGo
  <2> SUFFICES ASSUME Inv, Settled, NEW t \in Topic PROVE subscriptions[t] = 0
    BY DEF TopicsGo
  <2>1. \A a \in Attempt : timer[t][a] # "armed"
    BY DEF Settled, TimersWait, PromptInv
  <2>2. CASE t \in Caller
    BY <2>1, <2>2 DEF Settled, CallerWaits, TidyInv, Tidy
  <2>3. CASE t \in Peer
    BY <2>1, <2>3 DEF Settled, PeerWaits, TidyInv, Tidy
  <2> QED
    BY <2>2, <2>3 DEF Topic
<1> QED
  BY <1>1, <1>2, <1>3, PTL DEF Spec

-------------------------------------------------------------------------------
(* Why the steps come to an end.                                                  *)

\* A goroutine goes on in its attempt, or begins the next.
GoesOn(t) ==
    \/ /\ Moves(t, "adding") /\ waiter'[t].attempt = waiter[t].attempt + 1
    \/ \E pc \in WaiterPC \ {"adding"} :
          /\ Moves(t, pc) /\ waiter'[t].attempt = waiter[t].attempt
          /\ Phase[pc] > Phase[waiter[t].pc]

\* What the goroutines that wait do.
WaiterActs ==
    \/ \E t \in Caller :
          Handshake(t) \/ Ask(t) \/ GiveUp(t) \/ Send(t) \/ Wake(t)
    \/ \E t \in Topic : AddToSet(t) \/ Hear(t) \/ TimeOut(t)
    \/ \E p \in Peer : SubscribeFor(p) \/ SendTo(p) \/ HandIn(p)

LEMMA WaitersGoOn ==
    ASSUME PubSubTyped, WaitersTyped, WaiterActs PROVE \E t \in Topic : GoesOn(t)
<1>1. ASSUME NEW t \in Topic, NEW pc \in WaiterPC \ {"adding"}, Goes(t, pc),
             Phase[pc] > Phase[waiter[t].pc]
      PROVE  GoesOn(t)
  BY <1>1, Going DEF GoesOn
<1>2. ASSUME NEW t \in Topic, Ask(t) \/ SubscribeFor(t) PROVE GoesOn(t)
  BY <1>2, Subscribing, SubscriberMoves, Zenon DEF GoesOn
<1>3. ASSUME NEW t \in Caller, Handshake(t) \/ GiveUp(t) \/ Send(t) \/ Wake(t)
      PROVE  GoesOn(t)
  <2>1. t \in Topic
    BY DEF Topic
  <2>2. PICK pc \in {"done", "lookup", "listening"} :
          Goes(t, pc) /\ Phase[pc] > Phase[waiter[t].pc]
    BY <1>3 DEF Handshake, GiveUp, Send, Wake, Gone, Phase
  <2> QED
    BY <1>1, <2>1, <2>2 DEF WaiterPC
<1>4. ASSUME NEW t \in Topic, AddToSet(t) \/ SendTo(t) \/ HandIn(t) PROVE GoesOn(t)
  <2>1. PICK pc \in {"sending", "listening", "done"} :
          Goes(t, pc) /\ Phase[pc] > Phase[waiter[t].pc]
    BY <1>4 DEF AddToSet, SendTo, HandIn, Phase
  <2> QED
    BY <1>1, <2>1 DEF WaiterPC
<1>5. ASSUME NEW t \in Topic, Hear(t) \/ TimeOut(t) PROVE GoesOn(t)
  <2>1. PICK pc \in {"finished", "done", "sleeping"} :
          Moves(t, pc) /\ waiter'[t].attempt = waiter[t].attempt
    BY <1>5, HearerMoves, TimeOutMoves, Zenon
  <2>2. waiter[t].pc = "listening"
    BY <1>5 DEF Hear, TimeOut
  <2> QED
    BY <2>1, <2>2 DEF GoesOn, Phase, WaiterPC
<1>6. \A p \in Peer : p \in Topic
  BY DEF Topic
<1>7. \A t \in Caller : t \in Topic
  BY DEF Topic
<1> QED
  BY <1>2, <1>3, <1>4, <1>5, <1>6, <1>7, Zenon DEF WaiterActs

LEMMA WaysGoOn ==
    ASSUME WaitersTyped, NEW t \in Topic, GoesOn(t)
    PROVE  Way(t)' > Way(t) /\ \A u \in Topic \ {t} : Way(u)' = Way(u)
<1>1. /\ \A u \in Topic \ {t} : waiter'[u] = waiter[u]
      /\ waiter'[t].attempt \in Nat /\ waiter[t].attempt \in Nat
      /\ waiter'[t].pc \in WaiterPC /\ waiter[t].pc \in WaiterPC
  BY DEF GoesOn, Moves, WaitersTyped, Waiters
<1>2. \A pc \in WaiterPC : Phase[pc] \in 0 .. 6
  BY DEF WaiterPC, Phase
<1>3. Way(t)' > Way(t)
  <2>1. Way(t)' = 7 * waiter'[t].attempt + Phase[waiter'[t].pc]
    BY DEF Way, Phase
  <2>2. Phase[waiter'[t].pc] \in 0 .. 6 /\ Phase[waiter[t].pc] \in 0 .. 6
    BY <1>1, <1>2
  <2>3. CASE waiter'[t].attempt = waiter[t].attempt + 1 /\ waiter'[t].pc = "adding"
    <3>1. Phase[waiter'[t].pc] = 1
      BY <2>3 DEF Phase
    <3> QED
      BY <1>1, <2>1, <2>2, <2>3, <3>1 DEF Way
  <2>4. CASE /\ waiter'[t].attempt = waiter[t].attempt
             /\ Phase[waiter'[t].pc] > Phase[waiter[t].pc]
    BY <1>1, <2>1, <2>2, <2>4 DEF Way
  <2> QED
    BY <2>3, <2>4 DEF GoesOn, Moves
<1>4. \A u \in Topic \ {t} : Way(u)' = Way(u)
  BY <1>1 DEF Way, Phase
<1> QED
  BY <1>3, <1>4

\* The timer of an attempt is started once.
Unstarted(t, a) ==
    a > waiter[t].attempt \/ (a = waiter[t].attempt /\ waiter[t].pc = "adding")
Fresh == \A t \in Topic : \A a \in Attempt : Unstarted(t, a) => timer[t][a] = "none"

LEMMA TimerChanges ==
    ASSUME [Next]_vars PROVE
    \/ UNCHANGED timer
    \/ \E t \in Topic : AddToSet(t) \/ \E a \in Attempt : Expire(t, a)
BY PubSubChanges
DEF pubsub, Ask, SubscribeFor, FindSet, Hear, Publish

LEMMA WaitersMove == ASSUME [Next]_vars PROVE UNCHANGED waiter \/ WaiterActs
BY WaiterChanges, Zenon DEF WaiterActs

LEMMA FreshStep == ASSUME PubSubTyped, WaitersTyped, Fresh, [Next]_vars PROVE Fresh'
<1>1. ASSUME NEW t \in Topic, NEW a \in Attempt, Unstarted(t, a)'
      PROVE  Unstarted(t, a) /\ (AddToSet(t) => a # waiter[t].attempt)
  <2>1. waiter[t].attempt \in Nat /\ a \in Nat
    BY AcksAssumption DEF WaitersTyped, Waiters, Attempt
  <2>2. Unstarted(t, a)
    <3>1. CASE UNCHANGED waiter
      BY <1>1, <3>1 DEF Unstarted
    <3>2. ASSUME NEW u \in Topic, GoesOn(u) PROVE Unstarted(t, a)
      BY <1>1, <2>1, <3>2 DEF Unstarted, GoesOn, Moves
    <3> QED
      BY <3>1, <3>2, WaitersMove, WaitersGoOn
  <2>3. ASSUME AddToSet(t) PROVE a # waiter[t].attempt
    <3>1. Moves(t, "sending") /\ waiter'[t].attempt = waiter[t].attempt
      BY <2>3, Going DEF AddToSet, WaiterPC
    <3> QED
      BY <1>1, <2>1, <3>1 DEF Unstarted, Moves
  <2> QED
    BY <2>2, <2>3
<1>2. ASSUME NEW t \in Topic, NEW a \in Attempt, Unstarted(t, a)'
      PROVE  timer'[t][a] = "none"
  <2>1. timer[t][a] = "none"
    BY <1>1, <1>2 DEF Fresh
  <2>2. ASSUME NEW u \in Topic, AddToSet(u) PROVE timer'[t][a] = "none"
    <3>1. timer' = [timer EXCEPT ![u][waiter[u].attempt] = "armed"]
      BY <2>2 DEF AddToSet
    <3>2. u # t \/ a # waiter[u].attempt
      BY <1>1, <1>2, <2>2
    <3> QED
      BY <2>1, <3>1, <3>2 DEF PubSubTyped, Timers
  <2>3. ASSUME NEW u \in Topic, NEW b \in Attempt, Expire(u, b)
        PROVE  timer'[t][a] = "none"
    <3>1. timer' = [timer EXCEPT ![u][b] = "fired"] /\ timer[u][b] = "armed"
      BY <2>3 DEF Expire
    <3>2. u # t \/ a # b
      BY <2>1, <3>1
    <3> QED
      BY <2>1, <3>1, <3>2 DEF PubSubTyped, Timers
  <2> QED
    BY <2>1, <2>2, <2>3, TimerChanges
<1> QED
  BY <1>2 DEF Fresh

\* A timer is started once and fires once.
LEMMA TimersGoOn ==
    ASSUME PubSubTyped, WaitersTyped, Fresh, [Next]_vars PROVE
    /\ \A t \in Topic, a \in Attempt : TimerWay(t, a)' >= TimerWay(t, a)
    /\ \A t \in Topic, a \in Attempt :
          Expire(t, a) => TimerWay(t, a)' > TimerWay(t, a)
<1> DEFINE Order(x) == [none |-> 0, armed |-> 1, fired |-> 2][x]
<1>1. \A t \in Topic, a \in Attempt :
        TimerWay(t, a) = Order(timer[t][a]) /\ TimerWay(t, a)' = Order(timer'[t][a])
  BY DEF TimerWay
<1>2. \A t \in Topic, a \in Attempt : timer[t][a] \in {"none", "armed", "fired"}
  BY DEF PubSubTyped, Timers
<1>3. \A x \in {"none", "armed", "fired"} : Order(x) \in 0 .. 2
  OBVIOUS
<1>4. ASSUME NEW t \in Topic, NEW a \in Attempt, Expire(t, a)
      PROVE  /\ timer[t][a] = "armed" /\ timer'[t][a] = "fired"
             /\ \A u \in Topic, b \in Attempt :
                   u # t \/ b # a => timer'[u][b] = timer[u][b]
  BY <1>4 DEF Expire, PubSubTyped, Timers
<1>5. ASSUME NEW t \in Topic, AddToSet(t)
      PROVE  \E a \in Attempt :
                /\ timer[t][a] = "none" /\ timer'[t][a] = "armed"
                /\ \A u \in Topic, b \in Attempt :
                      u # t \/ b # a => timer'[u][b] = timer[u][b]
  <2>1. waiter[t].attempt \in Attempt /\ timer[t][waiter[t].attempt] = "none"
    BY <1>5 DEF AddToSet, WaitersTyped, WaiterFits, Fresh, Unstarted
  <2> QED
    BY <1>5, <2>1 DEF AddToSet, PubSubTyped, Timers
<1>6. ASSUME NEW t \in Topic, NEW a \in Attempt
      PROVE  \/ timer'[t][a] = timer[t][a]
             \/ timer[t][a] = "none" /\ timer'[t][a] = "armed"
             \/ timer[t][a] = "armed" /\ timer'[t][a] = "fired"
  BY <1>4, <1>5, TimerChanges
<1>7. \A t \in Topic, a \in Attempt : Order(timer'[t][a]) >= Order(timer[t][a])
  BY <1>2, <1>3, <1>6
<1>8. \A t \in Topic, a \in Attempt :
        Expire(t, a) => Order(timer'[t][a]) > Order(timer[t][a])
  BY <1>4
<1> QED
  BY <1>1, <1>7, <1>8

\* The call goes on, and collects each result once.
LEMMA CallGoesOn ==
    ASSUME SendingTyped, Decided, [Next]_vars PROVE
    /\ CallWay' >= CallWay
    /\ StartSending \/ (\E k \in Answer : Collect(k)) => CallWay' > CallWay
<1> DEFINE Order(x) == [start |-> 0, subscribing |-> 1, collecting |-> 2, done |-> 3][x]
<1>1. /\ CallWay = Order(sending.pc) + sending.results
      /\ CallWay' = Order(sending'.pc) + sending'.results
  BY DEF CallWay
<1>2. /\ sending.results \in Nat /\ Order(sending.pc) \in 0 .. 3
      /\ sending'.results \in Nat
  BY SendingStep DEF SendingTyped, Sendings
<1>3. CASE UNCHANGED sending /\ ~StartSending /\ \A k \in Answer : ~Collect(k)
  BY <1>1, <1>2, <1>3
<1>4. CASE StartSending
  <2>1. /\ sending.pc = "subscribing" /\ sending'.pc = "collecting"
        /\ sending'.results = sending.results
    BY <1>4 DEF StartSending, SendingTyped, Sendings
  <2> QED
    BY <1>1, <1>2, <2>1
<1>5. ASSUME NEW k \in Answer, Collect(k) PROVE CallWay' > CallWay
  <2> DEFINE s == WithResult(k)
  <2>1. /\ Returns(s) \/ sending' = s
        /\ s \in Sendings /\ s.results = sending.results + 1 /\ s.pc = "collecting"
    BY <1>5, Collecting, Zenon
  <2>2. sending.pc = "collecting"
    BY <1>5 DEF Collect
  <2> HIDE DEF s
  <2>3. sending'.results = sending.results + 1 /\ sending'.pc \in {"collecting", "done"}
    BY <2>1, Returning, Zenon
  <2> QED
    BY <1>1, <1>2, <2>2, <2>3
<1>6. ASSUME NEW to \in SUBSET Peer, NEW n \in 0 .. Cardinality(Peer),
             SendByCriteria(to, n)
      PROVE  CallWay' >= CallWay
  <2> DEFINE s == WithPeers(to, n)
  <2>1. /\ Returns(s) \/ sending' = [s EXCEPT !.pc = "subscribing"]
        /\ s \in Sendings /\ s.results = sending.results /\ sending.pc = "start"
    BY <1>6, Choosing, Zenon
  <2> HIDE DEF s
  <2>2. CASE Returns(s)
    <3>1. sending'.results = sending.results /\ sending'.pc = "done"
      BY <2>1, <2>2, Returning, Zenon
    <3> QED
      BY <1>1, <1>2, <2>1, <3>1
  <2>3. CASE sending' = [s EXCEPT !.pc = "subscribing"]
    <3>1. sending'.results = sending.results /\ sending'.pc = "subscribing"
      BY <2>1, <2>3 DEF Sendings
    <3> QED
      BY <1>1, <1>2, <2>1, <3>1
  <2> QED
    BY <2>1, <2>2, <2>3
<1>7. ASSUME NEW to \in SUBSET Peer, NEW n \in 0 .. Cardinality(Peer),
             SendByCriteria(to, n)
      PROVE  ~StartSending /\ \A k \in Answer : ~Collect(k)
  BY <1>7 DEF SendByCriteria, StartSending, Collect
<1>8. CallWay' >= CallWay
  <2>1. CallWay' > CallWay => CallWay' >= CallWay
    BY <1>1, <1>2
  <2>2. StartSending \/ (\E k \in Answer : Collect(k)) => CallWay' > CallWay
    BY <1>1, <1>2, <1>4, <1>5
  <2> QED
    BY <1>3, <1>6, <2>1, <2>2, SendingChanges, Zenon
<1> QED
  BY <1>1, <1>2, <1>4, <1>5, <1>8

\* The goroutines of the calls, their timers and the call itself go on, and never back:
\* as attempts and results are limited, their steps come to an end.
THEOREM NothingEverGoesBack == Spec => NothingGoesBack
<1>1. Init => Fresh
  BY AcksAssumption DEF Init, Waiting, Fresh
<1>2. EndInv /\ Fresh /\ [Next]_vars => (EndInv /\ Fresh)'
  BY StepEndInv, FreshStep DEF EndInv, IInv
<1>3. ASSUME EndInv, Fresh, [Next]_vars
      PROVE  [Within /\ NoneBack /\ (SomeOn \/ ~Progress)]_vars
  <2> USE <1>3 DEF EndInv, IInv
  <2>1. ASSUME WaiterActs
        PROVE  \E t \in Topic : Way(t)' > Way(t) /\ \A u \in Topic \ {t} : Way(u)' = Way(u)
    BY <2>1, WaitersGoOn, WaysGoOn, Zenon
  <2>2. \A t \in Topic : Way(t) \in Nat
    <3>1. \A pc \in WaiterPC : Phase[pc] \in Nat
      BY DEF WaiterPC, Phase
    <3> QED
      BY <3>1 DEF Way, WaitersTyped, Waiters
  <2>3. \A t \in Topic : Way(t)' >= Way(t)
    <3>1. CASE UNCHANGED waiter
      BY <2>2, <3>1 DEF Way, Phase
    <3>2. CASE WaiterActs
      <4>1. PICK u \in Topic :
              Way(u)' > Way(u) /\ \A t \in Topic \ {u} : Way(t)' = Way(t)
        BY <2>1, <3>2, Zenon
      <4>2. ASSUME NEW t \in Topic PROVE Way(t)' >= Way(t)
        <5>1. CASE t = u
          <6>1. Way(t)' > Way(t)
            BY <4>1, <5>1
          <6>2. Way(t)' \in Nat
            <7>1. waiter' \in [Topic -> Waiters] /\ \A pc \in WaiterPC : Phase[pc] \in Nat
              BY WaitersStep DEF WaitersTyped, WaiterPC, Phase
            <7> QED
              BY <7>1 DEF Way, Waiters, Phase
          <6> QED
            BY <2>2, <6>1, <6>2
        <5>2. CASE t # u
          BY <2>2, <4>1, <5>2
        <5> QED
          BY <5>1, <5>2
      <4> QED
        BY <4>2
    <3> QED
      BY <3>1, <3>2, WaitersMove
  <2>4. NoneBack
    BY <2>3, TimersGoOn, CallGoesOn DEF NoneBack
  <2>5. ASSUME Progress PROVE SomeOn
    <3>1. CASE WaiterActs
      BY <2>1, <3>1 DEF SomeOn
    <3>2. ASSUME NEW t \in Topic, NEW a \in Attempt, Expire(t, a) PROVE SomeOn
      BY <3>2, TimersGoOn DEF SomeOn
    <3>3. CASE StartSending \/ \E k \in Answer : Collect(k)
      BY <3>3, CallGoesOn DEF SomeOn
    <3> QED
      BY <2>5, <3>1, <3>2, <3>3, Zenon DEF Progress, WaiterActs
  <2>6. Within
    <3>1. \A t \in Topic : Way(t) <= 7 * MaxAttempts + 6
      <4>1. \A pc \in WaiterPC : Phase[pc] \in 0 .. 6
        BY DEF WaiterPC, Phase
      <4>2. \A t \in Topic : waiter[t].attempt \in 0 .. MaxAttempts /\ waiter[t].pc \in WaiterPC
        BY DEF WaitersTyped, Waiters, Attempt
      <4> QED
        BY <4>1, <4>2, AcksAssumption DEF Way
    <3>2. CallWay <= 3 + Cardinality(Peer)
      <4>1. /\ IsFiniteSet(Peer) /\ Finishers \subseteq Peer
            /\ IsFiniteSet(Finishers) /\ Cardinality(Finishers) <= Cardinality(Peer)
        BY AcksAssumption, FS_Subset DEF Finishers
      <4>2. Cardinality(Peer) \in Nat /\ Cardinality(Finishers) \in Nat
        BY <4>1, FS_CardinalityType
      <4>3. /\ sending.results \in Nat /\ acks["ok"] \in Nat /\ acks["error"] \in Nat
            /\ sending.pc \in {"start", "subscribing", "collecting", "done"}
        BY DEF SendingTyped, Sendings, CountsTyped, Answer
      <4>4. sending.results <= Cardinality(Peer)
        BY <4>1, <4>2, <4>3 DEF AllCounted
      <4> QED
        BY <4>2, <4>3, <4>4 DEF CallWay
    <3> QED
      BY <3>1, <3>2 DEF Within
  <2> QED
    BY <2>4, <2>5, <2>6
<1> QED
  BY <1>1, <1>2, <1>3, InitEndInv, PTL DEF Spec, NothingGoesBack
===============================================================================
