------------------------------ MODULE StateInfo ------------------------------
(* How the peers of a channel learn each other's state info (ledger height, has  *)
(* left the channel): GossipChannel, stateInfoCache and ChannelState in           *)
(* src/gossip/channel.go, with the routing of state info in gossip.go.            *)
(*                                                                                *)
(* A change is pushed once by the publisher, through the emitter, and pulled by   *)
(* the periodic requests.  Each peer has one goroutine that handles messages, the *)
(* publisher, the requests, the sweep of the cache, and callers that update,      *)
(* leave, join and configure the channel.  The cache is two stores, a message     *)
(* store and a membership store, each with a lock of its own.                     *)
(*                                                                                *)
(* There is one channel; every identity is known.  Discovery's membership is a    *)
(* set that changes.  A message in flight may be lost, delayed and overtaken.     *)
(* With MaxConfigurations = 1 a peer's organisations change once: an info that is  *)
(* verified under the old ones may be added while the excluded are removed.        *)
EXTENDS Naturals, FiniteSets

CONSTANTS Peer, Org,
          OrgOf,             \* Peer -> Org
          External,          \* the peers that have an external endpoint
          Updater,           \* the peers whose ledger height changes
          Late,              \* the peers that join the channel later
          Configuration,     \* the sets of organisations a channel may get
          MaxTime,           \* bound: state infos made
          MaxFaults,         \* bound: members taken for dead, and restarts
          MaxConfigurations, MaxInFlight, \* bounds
          NoPeer

ASSUME StateInfoAssumption ==
    /\ \A p \in Peer : OrgOf[p] \in Org
    /\ External \subseteq Peer /\ Updater \subseteq Peer /\ Late \subseteq Peer
    /\ Configuration \subseteq (SUBSET Org) \ {{}}
    /\ {MaxTime, MaxFaults, MaxConfigurations, MaxInFlight} \subseteq Nat
    /\ NoPeer \notin Peer

VARIABLES
    orgs,          \* Peer -> the organisations of its channel; {} not joined
    stateInfoMsg,  \* Peer -> its own state info
    leftChannel,   \* Peer -> whether LeaveChannel was called
    messages,      \* Peer -> the MessageStore of its cache
    membership,    \* Peer -> the MembershipStore of its cache
    shouldGossip,  \* Peer -> shouldGossipStateInfo
    publisher,     \* Peer -> whether publishStateInfo is about to clear the flag
    handler,       \* Peer -> what its handling goroutine has in hand
    excluded,      \* Peer -> what ConfigureChannel still removes
    buffer,        \* Peer -> state infos in its emitter
    relayed,       \* Peer -> StateInfoMsgStore of a peer outside the channel
    members,       \* Peer -> what its discovery takes for alive
    net,           \* messages in flight
    time,          \* the timestamp of the last state info made
    faults, configurations

own    == <<stateInfoMsg, leftChannel, shouldGossip, publisher>>
cache  == <<messages, membership>>
bounds == <<faults, configurations>>
vars == <<orgs, own, cache, handler, excluded, buffer, relayed, members, net,
          time, bounds>>

\* A timestamp stands for (IncNum, SeqNum); both are readings of the clock.
None == [ts |-> 0, left |-> FALSE]
Info == [ts : 0 .. MaxTime, left : BOOLEAN]
NoInfos == [p \in Peer |-> None]
Only(p, i) == [NoInfos EXCEPT ![p] = i]

Idle == [pc |-> "idle", from |-> NoPeer, infos |-> NoInfos, of |-> NoPeer,
         forward |-> FALSE]
\* The handler goes on with the infos that are left; it is done with p's.
Loop(h) == IF h.infos = NoInfos THEN Idle ELSE h

Without(h, p) == Loop([h EXCEPT !.pc = "next", !.infos[p] = None, !.of = NoPeer])

NotExcluding == [todo |-> {}, purged |-> NoPeer]

\* The comparator of state infos, by timestamp.
Replaces(i, j) == i.ts > j.ts

\* ConfigureChannel keeps the channel's lock while it removes.
Unlocked(n) == excluded[n] = NotExcluding

Init ==
    /\ orgs = [n \in Peer |-> IF n \in Late THEN {} ELSE Org]
    /\ stateInfoMsg = NoInfos
    /\ leftChannel = [n \in Peer |-> FALSE]
    /\ messages = [n \in Peer |-> NoInfos]
    /\ membership = [n \in Peer |-> NoInfos]
    /\ shouldGossip = [n \in Peer |-> FALSE]
    /\ publisher = [n \in Peer |-> FALSE]
    /\ handler = [n \in Peer |-> Idle]
    /\ excluded = [n \in Peer |-> NotExcluding]
    /\ buffer = [n \in Peer |-> {}]
    /\ relayed = [n \in Peer |-> NoInfos]
    /\ members = [n \in Peer |-> Peer \ {n}]
    /\ net = {}
    /\ time = 0
    /\ faults = 0 /\ configurations = 0

\* How many messages may still be sent.
Room == MaxInFlight - Cardinality(net)

-------------------------------------------------------------------------------
(* A peer's own state info.                                                     *)

\* updateProperties, under the channel's lock; verify lets the own info pass.
UpdateProperties(n, left) ==
    /\ Unlocked(n) /\ time < MaxTime
    /\ LET i == [ts |-> time + 1, left |-> left]
       IN  /\ stateInfoMsg' = [stateInfoMsg EXCEPT ![n] = i]
           /\ messages' = [messages EXCEPT ![n][n] = i]
           /\ membership' = [membership EXCEPT ![n][n] = i]
    /\ time' = time + 1
    /\ shouldGossip' = [shouldGossip EXCEPT ![n] = TRUE]

\* A faulty form: a new height announces the peer again.
Announced(n) == FALSE
PreviousLeft(n) == stateInfoMsg[n].left

UpdateLedgerHeight(n) ==
    /\ n \in Updater /\ orgs[n] # {}
    /\ UpdateProperties(n, PreviousLeft(n))
    /\ UNCHANGED <<orgs, leftChannel, publisher, handler, excluded, buffer,
                   relayed, members, net, bounds>>

LeaveChannel(n) ==
    /\ n \in Updater /\ orgs[n] # {}
    /\ UpdateProperties(n, TRUE)
    /\ leftChannel' = [leftChannel EXCEPT ![n] = TRUE]
    /\ UNCHANGED <<orgs, publisher, handler, excluded, buffer, relayed, members,
                   net, bounds>>

\* publishStateInfo: reads the info and hands it to the emitter, ...
Publish(n) ==
    /\ shouldGossip[n] /\ ~publisher[n] /\ Unlocked(n)
    /\ buffer' = [buffer EXCEPT ![n] = @ \cup
                     {[of |-> n, info |-> stateInfoMsg[n], from |-> NoPeer]}]
    /\ publisher' = [publisher EXCEPT ![n] = TRUE]
    /\ UNCHANGED <<orgs, stateInfoMsg, leftChannel, shouldGossip, cache, handler,
                   excluded, relayed, members, net, time, bounds>>

\* ... and then clears the flag, also one raised in between.
ClearFlag(n) ==
    /\ publisher[n]
    /\ publisher' = [publisher EXCEPT ![n] = FALSE]
    /\ shouldGossip' = [shouldGossip EXCEPT ![n] = members[n] = {}]
    /\ UNCHANGED <<orgs, stateInfoMsg, leftChannel, cache, handler, excluded,
                   buffer, relayed, members, net, time, bounds>>

-------------------------------------------------------------------------------
(* Sending.                                                                     *)

\* sendGossipBatch: to one's organisation only, unless the info's peer has an
\* endpoint the others may know.
\* A faulty form: to every member of the channel.
ToTheChannel(n, p) == {m \in members[n] : OrgOf[m] \in orgs[n]}
Audience(n, p) ==
    {m \in members[n] :
        IF orgs[n] # {} /\ p \in External /\ p \in members[n] \cup {n}
        THEN OrgOf[m] \in orgs[n]
        ELSE OrgOf[m] = OrgOf[n]}

Emit(n) ==
    /\ \E e \in buffer[n] :
         /\ buffer' = [buffer EXCEPT ![n] = @ \ {e}]
         /\ \E to \in SUBSET (Audience(n, e.of) \ {e.from}) :
              /\ Cardinality(to) <= Room
              /\ net' = net \cup {[type |-> "info", from |-> n, to |-> m,
                                   infos |-> Only(e.of, e.info)] : m \in to}
    /\ UNCHANGED <<orgs, own, cache, handler, excluded, relayed, members, time,
                   bounds>>

RequestStateInfo(n, m) ==
    /\ orgs[n] # {} /\ Unlocked(n) /\ Room > 0
    /\ m \in members[n] /\ OrgOf[m] \in orgs[n]
    /\ net' = net \cup {[type |-> "req", from |-> n, to |-> m, infos |-> NoInfos]}
    /\ UNCHANGED <<orgs, own, cache, handler, excluded, buffer, relayed, members,
                   time, bounds>>

-------------------------------------------------------------------------------
(* Handling.                                                                    *)

\* createStateInfoSnapshot, for a requester of organisation o.
\* A faulty form: everything in the store.
Everything(n, o) == messages[n]
Snapshot(n, o) ==
    [p \in Peer |->
        IF \/ OrgOf[n] = o \/ OrgOf[p] # OrgOf[n]
           \/ p \in members[n] \cup {n} /\ p \in External
        THEN messages[n][p] ELSE None]

\* No channel of this peer has the message's MAC.
NoChannel(n) == orgs[n] = {}

\* handleMessage finds no channel: a state info from the own organisation, seen
\* for the first time, is passed on.
Relay(n, m) ==
    /\ m.to = n /\ handler[n] = Idle /\ NoChannel(n)
    /\ net' = net \ {m}
    /\ LET new == {p \in Peer : Replaces(m.infos[p], relayed[n][p])}
       IN  IF m.type = "info" /\ OrgOf[m.from] = OrgOf[n]
           THEN /\ relayed' = [relayed EXCEPT ![n] =
                       [p \in Peer |-> IF p \in new THEN m.infos[p] ELSE @[p]]]
                /\ buffer' = [buffer EXCEPT ![n] = @ \cup
                       {[of |-> p, info |-> m.infos[p], from |-> m.from] : p \in new}]
           ELSE UNCHANGED <<relayed, buffer>>
    /\ UNCHANGED <<orgs, own, cache, handler, excluded, members, time, bounds>>

IsOrgInChannel(n, p) == OrgOf[p] \in orgs[n]

\* HandleMessage: the sender's organisation has to be in the channel.
Handles(n, m) ==
    m.to = n /\ handler[n] = Idle /\ ~NoChannel(n) /\ Unlocked(n)

Answer(n, m) ==
    /\ Handles(n, m) /\ m.type = "req" /\ IsOrgInChannel(n, m.from)
    /\ net' = (net \ {m}) \cup {[type |-> "snap", from |-> n, to |-> m.from,
                                 infos |-> Snapshot(n, OrgOf[m.from])]}
    /\ UNCHANGED <<orgs, own, cache, handler, excluded, buffer, relayed, members,
                   time, bounds>>

\* Not from the channel; or the answer is lost.
Unanswered(n, m) ==
    /\ Handles(n, m) /\ (m.type = "req" \/ ~IsOrgInChannel(n, m.from))
    /\ net' = net \ {m}
    /\ UNCHANGED <<orgs, own, cache, handler, excluded, buffer, relayed, members,
                   time, bounds>>

Receive(n, m) ==
    /\ Handles(n, m) /\ m.type # "req" /\ IsOrgInChannel(n, m.from)
    /\ net' = net \ {m}
    /\ handler' = [handler EXCEPT ![n] =
           Loop([pc |-> "next", from |-> m.from, infos |-> m.infos, of |-> NoPeer,
                  forward |-> m.type = "info"])]
    /\ UNCHANGED <<orgs, own, cache, excluded, buffer, relayed, members, time, bounds>>

\* stateInfoCache.add: CheckValid and verify.
\* A faulty form: the first info of a peer is kept.
OnlyFirst(n, p, i) == messages[n][p] = None /\ (p = n \/ IsOrgInChannel(n, p))
Acceptable(n, p, i) ==
    /\ Replaces(i, messages[n][p])
    /\ p = n \/ IsOrgInChannel(n, p)

\* The next info; a snapshot's is skipped when discovery does not know its peer,
\* and ends the handling when its organisation is not in the channel.
NextInfo(n, p) ==
    /\ handler[n].pc = "next" /\ Unlocked(n)
    /\ handler[n].infos[p] # None
    /\ handler' = [handler EXCEPT ![n] =
           IF ~@.forward /\ ~IsOrgInChannel(n, p) THEN Idle
           ELSE IF /\ @.forward \/ p \in members[n] \cup {n}
                   /\ Acceptable(n, p, @.infos[p])
                THEN [@ EXCEPT !.pc = "add", !.of = p]
                ELSE Without(@, p)]
    /\ UNCHANGED <<orgs, own, cache, excluded, buffer, relayed, members, net,
                   time, bounds>>

\* MessageStore.Add: what it replaces leaves the membership store.
Add(n) ==
    /\ handler[n].pc = "add"
    /\ LET p == handler[n].of
           i == handler[n].infos[p]
       IN  IF Replaces(i, messages[n][p])
           THEN /\ messages' = [messages EXCEPT ![n][p] = i]
                /\ membership' = [membership EXCEPT ![n][p] =
                       IF messages[n][p] = None THEN @ ELSE None]
                /\ handler' = [handler EXCEPT ![n].pc = "put"]
           ELSE /\ handler' = [handler EXCEPT ![n] =
                       Without(@, p)]
                /\ UNCHANGED cache
    /\ UNCHANGED <<orgs, own, excluded, buffer, relayed, members, net, time, bounds>>

\* A faulty form: the membership store keeps what it has.
KeepsEntry(n, p) == membership
PutEntry(n, p) == [membership EXCEPT ![n][p] = handler[n].infos[p]]

\* MembershipStore.Put; HandleMessage then forwards.
Put(n) ==
    /\ handler[n].pc = "put"
    /\ LET h == handler[n]
       IN  /\ membership' = PutEntry(n, h.of)
           /\ buffer' = IF h.forward
                        THEN [buffer EXCEPT ![n] = @ \cup
                                {[of |-> h.of, info |-> h.infos[h.of],
                                  from |-> h.from]}]
                        ELSE buffer
           /\ handler' = [handler EXCEPT ![n] = Without(h, h.of)]
    /\ UNCHANGED <<orgs, own, messages, excluded, relayed, members, net, time, bounds>>

-------------------------------------------------------------------------------
(* The sweep, joining, and a change of the organisations.                       *)

\* MessageStore.Purge.
Purged(infos, gone) == [p \in Peer |-> IF p \in gone THEN None ELSE infos[p]]

\* Purge of the cache: the peers that discovery no longer knows.
Sweep(n) ==
    /\ LET gone == {p \in Peer \ (members[n] \cup {n}) : messages[n][p] # None}
       IN  /\ gone # {}
           /\ messages' = [messages EXCEPT ![n] = Purged(@, gone)]
           /\ membership' = [membership EXCEPT ![n] = Purged(@, gone)]
    /\ UNCHANGED <<orgs, own, handler, excluded, buffer, relayed, members, net,
                   time, bounds>>

JoinChannel(n) ==
    /\ orgs[n] = {} /\ handler[n] = Idle
    /\ orgs' = [orgs EXCEPT ![n] = Org]
    /\ UNCHANGED <<own, cache, handler, excluded, buffer, relayed, members, net,
                   time, bounds>>

ConfigureChannel(n) ==
    /\ orgs[n] # {} /\ Unlocked(n) /\ configurations < MaxConfigurations
    /\ \E new \in Configuration :
         /\ orgs' = [orgs EXCEPT ![n] = new]
         /\ excluded' = [excluded EXCEPT ![n].todo =
                {p \in Peer \ {n} : messages[n][p] # None /\ OrgOf[p] \notin new}]
    /\ configurations' = configurations + 1
    /\ UNCHANGED <<own, cache, handler, buffer, relayed, members, net, time,
                   faults>>

\* cache.Purge of one excluded peer, whose callback removes the entry, ...
PurgeExcluded(n) ==
    /\ excluded[n].purged = NoPeer
    /\ \E p \in excluded[n].todo :
         /\ messages' = [messages EXCEPT ![n][p] = None]
         /\ membership' = [membership EXCEPT ![n][p] =
                IF messages[n][p] = None THEN @ ELSE None]
         /\ excluded' = [excluded EXCEPT ![n] = [todo |-> @.todo \ {p}, purged |-> p]]
    /\ UNCHANGED <<orgs, own, handler, buffer, relayed, members, net, time, bounds>>

\* ... and cache.Remove, which removes the entry once more.
RemoveExcluded(n) ==
    /\ excluded[n].purged # NoPeer
    /\ membership' = [membership EXCEPT ![n][excluded[n].purged] = None]
    /\ excluded' = [excluded EXCEPT ![n].purged = NoPeer]
    /\ UNCHANGED <<orgs, own, messages, handler, buffer, relayed, members, net,
                   time, bounds>>

-------------------------------------------------------------------------------
(* Discovery's membership, and a restart: nothing is kept, the clock goes on.   *)

Suspect(n, p) ==
    /\ p \in members[n] /\ faults < MaxFaults
    /\ members' = [members EXCEPT ![n] = @ \ {p}]
    /\ faults' = faults + 1
    /\ UNCHANGED <<orgs, own, cache, handler, excluded, buffer, relayed, net, time,
                   configurations>>

Resurrect(n, p) ==
    /\ p # n /\ p \notin members[n]
    /\ members' = [members EXCEPT ![n] = @ \cup {p}]
    /\ UNCHANGED <<orgs, own, cache, handler, excluded, buffer, relayed, net, time,
                   bounds>>

Restart(n) ==
    /\ faults < MaxFaults /\ orgs[n] # {}
    /\ faults' = faults + 1
    /\ orgs' = [orgs EXCEPT ![n] = Org]
    /\ stateInfoMsg' = [stateInfoMsg EXCEPT ![n] = None]
    /\ leftChannel' = [leftChannel EXCEPT ![n] = FALSE]
    /\ shouldGossip' = [shouldGossip EXCEPT ![n] = FALSE]
    /\ publisher' = [publisher EXCEPT ![n] = FALSE]
    /\ messages' = [messages EXCEPT ![n] = NoInfos]
    /\ membership' = [membership EXCEPT ![n] = NoInfos]
    /\ handler' = [handler EXCEPT ![n] = Idle]
    /\ excluded' = [excluded EXCEPT ![n] = NotExcluding]
    /\ buffer' = [buffer EXCEPT ![n] = {}]
    /\ relayed' = [relayed EXCEPT ![n] = NoInfos]
    /\ UNCHANGED <<members, net, time, configurations>>

Next ==
    \/ \E n \in Peer : UpdateLedgerHeight(n)
    \/ \E n \in Peer : LeaveChannel(n)
    \/ \E n \in Peer : Publish(n)
    \/ \E n \in Peer : ClearFlag(n)
    \/ \E n \in Peer : Emit(n)
    \/ \E n, m \in Peer : RequestStateInfo(n, m)
    \/ \E n \in Peer : \E m \in net : Answer(n, m)
    \/ \E n \in Peer : \E m \in net : Unanswered(n, m)
    \/ \E n \in Peer : \E m \in net : Relay(n, m)
    \/ \E n \in Peer : \E m \in net : Receive(n, m)
    \/ \E n, p \in Peer : NextInfo(n, p)
    \/ \E n \in Peer : Add(n)
    \/ \E n \in Peer : Put(n)
    \/ \E n \in Peer : Sweep(n)
    \/ \E n \in Peer : JoinChannel(n)
    \/ \E n \in Peer : ConfigureChannel(n)
    \/ \E n \in Peer : PurgeExcluded(n)
    \/ \E n \in Peer : RemoveExcluded(n)
    \/ \E n, p \in Peer : Suspect(n, p)
    \/ \E n, p \in Peer : Resurrect(n, p)
    \/ \E n \in Peer : Restart(n)

Spec == Init /\ [][Next]_vars

\* Requests and answers go on: not every one is lost.
AnswerTo(n, m) == \E x \in net : x.from = m /\ Answer(n, x)
ReceiveFrom(n, m) == \E x \in net : x.from = m /\ Receive(n, x)

\* The goroutine that handles messages goes on; what is published may never go out.
Handling(n) == Add(n) \/ Put(n) \/ \E p \in Peer : NextInfo(n, p)

Fairness ==
    \A n \in Peer :
        /\ WF_vars(Handling(n))
        /\ n \in Late => WF_vars(JoinChannel(n))
        /\ \A m \in Peer \ {n} :
             /\ SF_vars(RequestStateInfo(n, m)) /\ SF_vars(AnswerTo(n, m))
             /\ SF_vars(ReceiveFrom(n, m)) /\ WF_vars(Resurrect(n, m))

FairSpec == Spec /\ Fairness

-------------------------------------------------------------------------------
(* What GetPeers returns: whom blocks are asked of and sent to.                 *)
GetPeers(n) ==
    IF leftChannel[n] THEN {}
    ELSE {p \in members[n] : membership[n][p] # None /\ ~membership[n][p].left}

Infos == [Peer -> Info]
Hands == [pc : {"idle", "next", "add", "put"}, from : Peer \cup {NoPeer},
          infos : Infos, of : Peer \cup {NoPeer}, forward : BOOLEAN]
Exclusion == [todo : SUBSET Peer, purged : Peer \cup {NoPeer}]
Entry == [of : Peer, info : Info, from : Peer \cup {NoPeer}]
Message == [type : {"info", "req", "snap"}, from : Peer, to : Peer, infos : Infos]

TypeOK ==
    /\ orgs \in [Peer -> SUBSET Org]
    /\ stateInfoMsg \in Infos
    /\ leftChannel \in [Peer -> BOOLEAN]
    /\ messages \in [Peer -> Infos] /\ membership \in [Peer -> Infos]
    /\ shouldGossip \in [Peer -> BOOLEAN] /\ publisher \in [Peer -> BOOLEAN]
    /\ handler \in [Peer -> Hands]
    /\ \A n \in Peer :
         /\ handler[n].pc = "idle" <=> handler[n].infos = NoInfos
         /\ handler[n].pc \in {"add", "put"} <=> handler[n].of # NoPeer
    /\ excluded \in [Peer -> Exclusion]
    /\ buffer \in [Peer -> SUBSET Entry]
    /\ relayed \in [Peer -> Infos]
    /\ members \in [Peer -> SUBSET Peer]
    /\ net \subseteq Message
    /\ time \in 0 .. MaxTime
    /\ faults \in 0 .. MaxFaults /\ configurations \in 0 .. MaxConfigurations

\* A state info of a peer without an external endpoint never reaches another
\* organisation: not by gossip, a forward, a relay nor by a snapshot, whoever
\* holds it (createStateInfoSnapshot and sendGossipBatch's selector).
HiddenStaysHome ==
    \A n, p \in Peer :
        p \notin External /\ OrgOf[n] # OrgOf[p] => messages[n][p] = None

\* The two stores of the cache agree on every other peer of the channel, except
\* while an added info is not yet put (stateInfoCache.add, Purge's callback).
CacheAgrees ==
    \A n \in Peer : \A p \in Peer \ {n} :
        /\ messages[n][p] # None
        /\ OrgOf[p] \in orgs[n]
        /\ ~(handler[n].pc = "put" /\ handler[n].of = p)
        => membership[n][p] = messages[n][p]

Visible(n, p) == OrgOf[n] = OrgOf[p] \/ p \in External

\* Once updates and suspicions end, everyone has everyone's last state info for
\* good, though publishStateInfo may lose an update and the network a message:
\* the requests of requestStateInfo make up for it.
InfosAreLearned ==
    [](configurations = 0) =>
        <>[](\A n, p \in Peer : Visible(n, p) /\ stateInfoMsg[p] # None =>
                 messages[n][p] = stateInfoMsg[p])

\* A peer that leaves is in the end listed by nobody, though an older info of it
\* may come back with a late answer after the sweep (LeaveChannel, GetPeers).
LeavesAreLearned ==
    [](configurations = 0) =>
        <>[](\A n, p \in Peer : leftChannel[p] => p \notin GetPeers(n))
=============================================================================
