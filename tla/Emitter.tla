-------------------------------- MODULE Emitter --------------------------------
(* Forwarding: the batching emitter of src/gossip/channel.go and where             *)
(* sendGossipBatch in src/gossip/gossip.go sends each message, with the two that    *)
(* change beneath it: the identities, which tell a peer's organisation, and the     *)
(* secret part of an envelope, which all sends and responses of a message share.    *)
(*                                                                                 *)
(* A batch is sent under the emitter's lock, but each send is a goroutine of its    *)
(* own and reads the envelope when it gets to it: sent is what such goroutines may   *)
(* be about to read, for peers of other organisations.  Alive messages are those    *)
(* the peer has also stored.  Discovery is set by the time anything is added.  The   *)
(* order of the buffer, which a batch does not keep, is left out.                   *)
EXTENDS Naturals, FiniteSets

CONSTANTS
    Peer, Self,
    Msg,               \* each is added once
    Kind, Origin,      \* Msg -> what it is, and whose
    From,              \* Msg -> the peer it was received from; Self: made here
    Org,               \* Peer -> its organisation
    External,          \* the peers with an external endpoint
    InChannel,         \* the peers whose organisations are in the channel, ...
    Informed,          \* ... and those whose state info has come
    PropagatePeerNum, Iterations, BurstSize,
    MaxAdds, MaxPurges \* bounds: messages added, peers purged

Kinds == {"block", "leadership", "stateinfo", "org", "alive"}
NoOrg == "none"

ASSUME EmitterAssumption ==
    /\ Self \in External /\ External \subseteq Peer
    /\ InChannel \cup Informed \subseteq Peer
    /\ \A p \in Peer : Org[p] # NoOrg
    /\ Kind \in [Msg -> Kinds] /\ Origin \in [Msg -> Peer] /\ From \in [Msg -> Peer]
    /\ {PropagatePeerNum, Iterations, BurstSize} \subseteq Nat \ {0}
    /\ {MaxAdds, MaxPurges} \subseteq Nat
    /\ IsFiniteSet(Peer)

VARIABLES
    buff,     \* the messages to emit -> what is left of their iterations
    stopFlag,
    batch,    \* how far sendGossipBatch has come; the lock is held unless it is idle
    known,    \* the peers whose identity is known
    secret,   \* the alive messages whose envelope still has its secret part
    sent,     \* history: <<message, peer>> given to a goroutine that sends it abroad
    rounds,   \* history: Msg -> the batches it was in
    missing   \* history: the peers whose identity was purged

vars == <<buff, stopFlag, batch, known, secret, sent, rounds, missing>>

Alive == {m \in Msg : Kind[m] = "alive"}
Idle == [pc |-> "idle", todo |-> {}, org |-> {}, rest |-> {}, cur |-> {}, peers |-> {}]

OwnAlive == {m \in Alive : Org[Origin[m]] = Org[Self]}

\* Nothing was added; messages of other organisations come without their secrets.
Init ==
    /\ buff = [m \in {} |-> 0] /\ stopFlag = FALSE /\ batch = Idle
    /\ known = Peer /\ secret = OwnAlive /\ sent = {}
    /\ rounds = [m \in Msg |-> 0] /\ missing = {}

Buffered == DOMAIN buff
Added == Buffered \cup {m \in Msg : rounds[m] > 0}

-------------------------------------------------------------------------------
(* Who a peer is                                                               *)

\* GetOrgOfPeer, isInMyorg, IsMemberInChan, EligibleForChannel: nobody knows the
\* organisation of a peer whose identity is missing.
GetOrgOfPeer(p) == IF p \in known THEN Org[p] ELSE NoOrg
IsInMyorg(p) == GetOrgOfPeer(p) = Org[Self]
IsMemberInChan(p) == p \in known /\ p \in InChannel
EligibleForChannel(p) == p \in known /\ p \in Informed
HasExternalEndpoint(p) == p \in External

Others == Peer \ {Self}

\* SelectPeers: any k of those that fit, or all.
SelectPeers(k, fits) ==
    {s \in SUBSET fits :
        Cardinality(s) = IF Cardinality(fits) < k THEN Cardinality(fits) ELSE k}

\* removeSelfLoop and the filters: never back to where it came from.
Filtered(m, peers) == {p \in peers : p # From[m] \/ From[m] = Self}

\* Communicate.Send, of which the sends to other organisations are remembered.
Send(pairs) == sent' = sent \cup {pair \in pairs : Org[pair[2]] # Org[Self]}

-------------------------------------------------------------------------------
(* The emitter                                                                 *)

Full(b) == Cardinality(DOMAIN b) >= BurstSize

Emit(b) ==
    IF DOMAIN b = {} \/ stopFlag
    THEN UNCHANGED <<batch, rounds>>
    ELSE /\ batch' = [Idle EXCEPT !.pc = "block", !.todo = DOMAIN b]
         /\ rounds' = [m \in Msg |-> IF m \in DOMAIN b THEN rounds[m] + 1 ELSE rounds[m]]

\* Gossip, Forward, GossipFunc, ForwardFunc.
Add(m) ==
    LET b == [n \in Buffered \cup {m} |-> IF n = m THEN Iterations ELSE buff[n]] IN
    /\ batch.pc = "idle" /\ m \notin Added /\ Cardinality(Added) < MaxAdds
    /\ buff' = b
    /\ IF Full(b) THEN Emit(b) ELSE UNCHANGED <<batch, rounds>>
    /\ UNCHANGED <<stopFlag, known, secret, sent, missing>>

\* A faulty form: only bursts are emitted.
OnlyBursts ==
    /\ batch.pc = "idle" /\ ~stopFlag /\ Full(buff)
    /\ Emit(buff)
    /\ UNCHANGED <<buff, stopFlag, known, secret, sent, missing>>
PeriodicEmit ==
    /\ batch.pc = "idle" /\ ~stopFlag /\ Buffered # {}
    /\ Emit(buff)
    /\ UNCHANGED <<buff, stopFlag, known, secret, sent, missing>>

Stop ==
    /\ ~stopFlag /\ stopFlag' = TRUE
    /\ UNCHANGED <<buff, batch, known, secret, sent, rounds, missing>>

\* Faulty forms: the count is looked at before it is lowered; it is not lowered.
LookedAtFirst(b) ==
    [m \in {n \in DOMAIN b : b[n] # 0} |-> IF b[m] = 0 THEN 0 ELSE b[m] - 1]
Never(b) == b
Swept(b) ==
    LET Left(m) == b[m] - 1
    IN  [m \in {n \in DOMAIN b : Left(n) # 0} |-> Left(m)]

\* The batch was sent: emit lowers the counts and the lock is released.
Sweep ==
    /\ batch.pc = "sweep"
    /\ buff' = Swept(buff)
    /\ batch' = Idle
    /\ UNCHANGED <<stopFlag, known, secret, sent, rounds, missing>>

-------------------------------------------------------------------------------
(* sendGossipBatch                                                             *)

OfKind(k) == {m \in batch.todo : Kind[m] = k}

\* gossipInChan, for blocks and then for leadership messages: one selection for all.
NextKind == [block |-> "leadership", leadership |-> "stateinfo"]
GossipInChan(k, s) ==
    /\ batch.pc = k
    /\ Send(UNION {{m} \X Filtered(m, s) : m \in OfKind(k)})
    /\ batch' = [batch EXCEPT !.pc = NextKind[k], !.todo = @ \ OfKind(k)]
    /\ UNCHANGED <<buff, stopFlag, known, secret, rounds, missing>>

\* Those who may get the messages of a kind, and of them how many do.
ChannelPeers ==
    {p \in Others : EligibleForChannel(p) /\ IsMemberInChan(p) /\ IsInMyorg(p)}
HowMany(k) == IF k = "leadership" THEN Cardinality(Peer) ELSE PropagatePeerNum
ChannelSelections(k) ==
    IF OfKind(k) = {} THEN {{}} ELSE SelectPeers(HowMany(k), ChannelPeers)

\* State info of a peer with an external endpoint goes to the whole channel.
InfoPeers(m) ==
    Filtered(m, {p \in Others : IF HasExternalEndpoint(Origin[m]) THEN IsMemberInChan(p)
                                ELSE IsInMyorg(p)})
SendStateInfo(m, s) ==
    /\ batch.pc = "stateinfo" /\ m \in OfKind("stateinfo")
    /\ Send({m} \X s)
    /\ batch' = [batch EXCEPT !.todo = @ \ {m}]
    /\ UNCHANGED <<buff, stopFlag, known, secret, rounds, missing>>

\* A faulty form: only the tag restricts a message.
ByTag(m) == Kind[m] = "org"
IsOrgRestricted(m) ==
    \/ Kind[m] = "org"
    \/ Kind[m] = "alive" /\ Origin[m] \notin External /\ IsInMyorg(Origin[m])

\* The messages left are told apart one by one, ...
Partition(m) ==
    /\ batch.pc = "stateinfo" /\ OfKind("stateinfo") = {} /\ m \in batch.todo
    /\ batch' = [batch EXCEPT !.todo = @ \ {m},
                              !.org = IF IsOrgRestricted(m) THEN @ \cup {m} ELSE @,
                              !.rest = IF IsOrgRestricted(m) THEN @ ELSE @ \cup {m}]
    /\ UNCHANGED <<buff, stopFlag, known, secret, sent, rounds, missing>>

\* ... those of the organisation sent to one selection of its peers, ...
OrgPeers == {p \in Others : IsInMyorg(p)}
SendInOrg(s) ==
    /\ batch.pc = "stateinfo" /\ batch.todo = {}
    /\ Send(UNION {{m} \X Filtered(m, s) : m \in batch.org})
    /\ batch' = [batch EXCEPT !.pc = "rest", !.org = {}]
    /\ UNCHANGED <<buff, stopFlag, known, secret, rounds, missing>>

\* peersByOriginOrgPolicy: messages of the own organisation go anywhere, others to
\* the own organisation and their own.
ByOriginOrg(m) ==
    LET org == GetOrgOfPeer(Origin[m]) IN
    IF org = NoOrg THEN {}
    ELSE IF org = Org[Self] THEN Others
    ELSE {p \in Others : GetOrgOfPeer(p) \in {Org[Self], org}}

\* ... and the peers selected for each of the others, the alive messages.
SelectFor(m, s) ==
    /\ batch.pc = "rest" /\ batch.cur = {} /\ m \in batch.rest
    /\ batch' = [batch EXCEPT !.rest = @ \ {m}, !.cur = {m}, !.peers = s]
    /\ UNCHANGED <<buff, stopFlag, known, secret, sent, rounds, missing>>

\* A faulty form: the secret part stays.
Whole(m, p) == secret
Stripped(m, p) == IF IsInMyorg(p) THEN secret ELSE secret \ {m}

\* To each selected peer, if the message of another organisation may be seen there;
\* the secret part is taken off the envelope that all sends share.
Dispatch(m, p) ==
    /\ m \in batch.cur /\ p \in batch.peers
    /\ batch' = [batch EXCEPT !.peers = @ \ {p},
                              !.cur = IF batch.peers = {p} THEN {} ELSE @]
    /\ IF ~IsInMyorg(Origin[m]) /\ ~HasExternalEndpoint(p)
       THEN UNCHANGED <<secret, sent>>
       ELSE /\ secret' = Stripped(m, p)
            /\ Send({<<m, p>>})
    /\ UNCHANGED <<buff, stopFlag, known, rounds, missing>>

\* Nothing selected, or nothing left.
NextMessage ==
    /\ batch.pc = "rest" /\ batch.peers = {}
    /\ IF batch.cur # {} THEN batch' = [batch EXCEPT !.cur = {}]
       ELSE batch.rest = {} /\ batch' = [batch EXCEPT !.pc = "sweep"]
    /\ UNCHANGED <<buff, stopFlag, known, secret, sent, rounds, missing>>

-------------------------------------------------------------------------------
(* What changes beneath it                                                     *)

\* disclosurePolicy: a membership response to p with the stored alive messages,
\* unless p may not know of this peer.  The secret parts go with them, or for good.
Disclosed(p) ==
    {m \in Alive \cap Added :
        /\ GetOrgOfPeer(Origin[m]) \in {Org[Self], Org[p]}
        /\ Org[Origin[m]] # Org[p] => Origin[m] \in External /\ p \in External}
Respond(p) ==
    /\ p \in known \cap Others /\ (Org[p] # Org[Self] => p \in External)
    /\ secret' = IF Org[p] = Org[Self] THEN secret ELSE secret \ Disclosed(p)
    /\ Send(Disclosed(p) \X {p})
    /\ UNCHANGED <<buff, stopFlag, batch, known, rounds, missing>>

Purge(p) ==
    /\ p \in known \cap Others /\ Cardinality(missing \cup {p}) <= MaxPurges
    /\ known' = known \ {p}
    /\ missing' = missing \cup {p}
    /\ UNCHANGED <<buff, stopFlag, batch, secret, sent, rounds>>

Learn(p) ==
    /\ p \notin known
    /\ known' = known \cup {p}
    /\ UNCHANGED <<buff, stopFlag, batch, secret, sent, rounds, missing>>

-------------------------------------------------------------------------------
SendBatch ==
    \/ \E k \in DOMAIN NextKind, s \in SUBSET Others :
          s \in ChannelSelections(k) /\ GossipInChan(k, s)
    \/ \E m \in batch.todo :
          \/ \E s \in SelectPeers(PropagatePeerNum, InfoPeers(m)) : SendStateInfo(m, s)
          \/ Partition(m)
    \/ \E s \in SelectPeers(PropagatePeerNum, OrgPeers) : SendInOrg(s)
    \/ \E m \in batch.rest :
          \E s \in SelectPeers(PropagatePeerNum, Filtered(m, ByOriginOrg(m))) :
             SelectFor(m, s)
    \/ \E m \in batch.cur, p \in batch.peers : Dispatch(m, p)
    \/ NextMessage
    \/ Sweep

Next ==
    \/ \E m \in Msg : Add(m)
    \/ PeriodicEmit \/ SendBatch \/ Stop
    \/ \E p \in Peer : Respond(p) \/ Purge(p) \/ Learn(p)

Spec == Init /\ [][Next]_vars

-------------------------------------------------------------------------------
(* Properties                                                                  *)

\* What is buffered has iterations left; the sets hold what they should.
TypeOK ==
    /\ Buffered \subseteq Msg /\ \A m \in Buffered : buff[m] \in 1 .. Iterations
    /\ batch.pc \in {"idle", "block", "leadership", "stateinfo", "rest", "sweep"}
    /\ batch.todo \cup batch.org \cup batch.rest \cup batch.cur \subseteq Buffered
    /\ Cardinality(batch.cur) <= 1 /\ (batch.cur = {} => batch.peers = {})
    /\ known \subseteq Peer /\ Self \in known
    /\ secret \subseteq Alive /\ sent \subseteq Msg \X Others
    /\ \A m \in Msg : rounds[m] \in 0 .. Iterations

\* The internal endpoint in the secret part of an envelope never reaches another
\* organisation, whenever the goroutine that sends it reads the envelope and
\* whoever else has it.
SecretStaysHome ==
    \A pair \in sent : pair[1] \notin secret

\* What is for the organisation stays in it, and a peer without an external endpoint
\* is known there only, unless its identity was missing when the batch was sorted;
\* what one organisation says is never passed on to a third.
StaysWhereItBelongs ==
    \A pair \in sent :
        LET m == pair[1] IN
        /\ Kind[m] \in {"alive", "stateinfo"}
        /\ m \in OwnAlive => Origin[m] \in External \cup missing
        /\ m \in Alive => Org[Origin[m]] \in {Org[Self], Org[pair[2]]}

\* Each message is in as many batches as it has iterations, though batches are sent
\* while others wait to add, and some leave the buffer that others stay in.
EmittedOften ==
    /\ \A m \in Msg \ Buffered : rounds[m] \in {0, Iterations}
    /\ batch.pc = "idle" =>
          \A m \in Buffered : rounds[m] = Iterations - buff[m]

\* Where the emitter waits, and where it would if no peers could be selected for what
\* is left of the batch.
BatchWaits ==
    /\ \A k \in DOMAIN NextKind : batch.pc = k => ChannelSelections(k) = {}
    /\ batch.pc = "stateinfo" =>
          /\ \A m \in OfKind("stateinfo") :
                SelectPeers(PropagatePeerNum, InfoPeers(m)) = {}
          /\ OfKind("stateinfo") # {}
             \/ (batch.todo = {} /\ SelectPeers(PropagatePeerNum, OrgPeers) = {})
    /\ batch.pc = "rest" =>
          /\ batch.peers # {} \/ (batch.cur = {} /\ batch.rest # {})
          /\ batch.cur = {} =>
                \A m \in batch.rest :
                   SelectPeers(PropagatePeerNum, Filtered(m, ByOriginOrg(m))) = {}
    /\ batch.cur = {} \/ batch.peers = {}
    /\ batch.pc # "sweep"

\* With every step taken that the emitter can take it is in one of these states, ...
Settled == IF batch.pc = "idle" THEN stopFlag \/ Buffered = {} ELSE BatchWaits

\* ... and these are all the states where it can take none.
SettledIsFinal == Settled <=> ~ENABLED (PeriodicEmit \/ SendBatch)

\* No batch stops halfway; and all that was added has been emitted as often as it
\* should, unless the emitter was stopped.
AllLeave ==
    Settled => /\ batch.pc = "idle"
               /\ stopFlag \/ \A m \in Added : m \notin Buffered /\ rounds[m] = Iterations
===============================================================================
