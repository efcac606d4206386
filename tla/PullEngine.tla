------------------------------ MODULE PullEngine ------------------------------
(* How peers pull each other's blocks: PullMediator and pullEngine in           *)
(* src/gossip/channel.go, with the part of GossipChannel.HandleMessage that     *)
(* stands before them and the channel's block store.                            *)
(*                                                                              *)
(* A round of peer p: hello to some peers, each with a nonce of its own; they   *)
(* answer with digests; digestWaitTime later p asks one owner for each missing  *)
(* item; responses count until responseWaitTime has passed, when endPull wipes  *)
(* the round's tables.  A peer handles one message at a time, its timers run    *)
(* beside that.  Messages can be lost and late, not duplicated (one stream).    *)
(*                                                                              *)
(* A block is its sequence number, all within MaxBlockCountToStore of each      *)
(* other and at or above the ledger height; Evict stands for a newer block that *)
(* pushes an old one out of the window.  Blocks are valid (VerifyBlock of       *)
(* NaiveMessageCryptoService accepts all).  A message a peer ignores because    *)
(* its sender is not eligible in the channel counts as lost.                    *)
EXTENDS Naturals, FiniteSets

CONSTANTS Peer, Item, Nonce,
          Pullers,   \* the peers whose pull loop runs
          Rounds,    \* rounds a peer may have open at once: more than one only if
                     \* PullInterval < digestWaitTime + responseWaitTime
          NoPeer, NoNonce, NoMsg

ASSUME PullAssumption ==
    /\ Pullers \subseteq Peer
    /\ Rounds \in Nat
    /\ NoPeer \notin Peer /\ NoNonce \notin Nonce

VARIABLES
    blockMsgStore,   \* peer -> item -> "none", "fresh" or "expired"
    itemID2Msg,      \* peer -> the items whose message the mediator has
    state,           \* peer -> the items the engine advertises
    item2owners,     \* peer -> item -> who offered it in this round
    nonces2peers,    \* peer -> nonce -> peer; its domain is outgoingNONCES
    peers2nonces,    \* peer -> peer -> nonce
    incomingNONCES,  \* peer -> nonces of hellos it will still serve
    acceptingDigests, acceptingResponses,
    digestTimers, endTimers,  \* peer -> number of pending timers of each kind
    digest,          \* peer -> a digest between onDigest's check and its lock
    delivered,       \* peer -> item -> deliveries since the store forgot it
    net              \* messages in flight

store  == <<blockMsgStore, itemID2Msg, delivered>>
rounds == <<item2owners, nonces2peers, peers2nonces, acceptingDigests,
            acceptingResponses, digestTimers, endTimers>>
vars   == <<store, state, rounds, incomingNONCES, digest, net>>

Msg(type, src, dst, nonce, items) ==
    [type |-> type, src |-> src, dst |-> dst, nonce |-> nonce, items |-> items]

Message == [type : {"hello", "digest", "req", "update"}, src : Peer, dst : Peer,
            nonce : Nonce \cup {NoNonce}, items : SUBSET Item]

NoOwners == [i \in Item |-> {}]

Init ==
    /\ blockMsgStore = [p \in Peer |-> [i \in Item |-> "none"]]
    /\ itemID2Msg = [p \in Peer |-> {}]
    /\ state = [p \in Peer |-> {}]
    /\ item2owners = [p \in Peer |-> NoOwners]
    /\ nonces2peers = [p \in Peer |-> [n \in Nonce |-> NoPeer]]
    /\ peers2nonces = [p \in Peer |-> [q \in Peer |-> NoNonce]]
    /\ incomingNONCES = [p \in Peer |-> {}]
    /\ acceptingDigests = [p \in Peer |-> FALSE]
    /\ acceptingResponses = [p \in Peer |-> FALSE]
    /\ digestTimers = [p \in Peer |-> 0]
    /\ endTimers = [p \in Peer |-> 0]
    /\ digest = [p \in Peer |-> NoMsg]
    /\ delivered = [p \in Peer |-> [i \in Item |-> 0]]
    /\ net = {}

-------------------------------------------------------------------------------
(* The channel's block store and the mediator's Add and Remove.                 *)

\* MessageStore.Add, for blocks within the window: a block it has, fresh or
\* expired, is refused.
Addable(p, items) == {i \in items : blockMsgStore[p][i] = "none"}

\* The items a response brings that HandleMessage leaves in it: the added ones.
\* A faulty form: nothing is filtered out.
Unfiltered(p, items) == items
Filtered(p, items) == Addable(p, items)

\* Items enter the store and the mediator's map, and the application gets them.
Accept(p, items) ==
    /\ blockMsgStore' = [blockMsgStore EXCEPT ![p] =
           [i \in Item |-> IF i \in Addable(p, items) THEN "fresh" ELSE @[i]]]
    /\ itemID2Msg' = [itemID2Msg EXCEPT ![p] = @ \cup Filtered(p, items)]
    /\ delivered' = [delivered EXCEPT ![p] =
           [i \in Item |-> IF i \in Filtered(p, items) THEN @[i] + 1 ELSE @[i]]]

\* A gossiped block: stored, forwarded, delivered, and added to the puller.
PutBlock(p, i) ==
    /\ digest[p] = NoMsg
    /\ i \in Addable(p, {i})
    /\ Accept(p, {i})
    /\ state' = [state EXCEPT ![p] = @ \cup {i}]
    /\ UNCHANGED <<rounds, incomingNONCES, digest, net>>

\* PullMediator.Add: to be offered and sent.
Add(p, i) ==
    /\ itemID2Msg' = [itemID2Msg EXCEPT ![p] = @ \cup {i}]
    /\ state' = [state EXCEPT ![p] = @ \cup {i}]

\* AddToMsgStore, the application's own block: the puller gets it even when the
\* store has it already.
AddToMsgStore(p, i) ==
    /\ blockMsgStore' = [blockMsgStore EXCEPT ![p][i] = IF @ = "none" THEN "fresh" ELSE @]
    /\ Add(p, i)
    /\ UNCHANGED <<delivered, rounds, incomingNONCES, digest, net>>

\* A faulty form of Expired: the callback, but the entry stays live.
StillFresh(p, i) == blockMsgStore

\* The entry of i is marked expired.
Expired(p, i) == [blockMsgStore EXCEPT ![p][i] = "expired"]

\* PullMediator.Remove.  Its loop removes the runes of the item's digest from
\* the engine's state, a set of strings that has no runes: the item stays.
Remove(p, i) ==
    /\ itemID2Msg' = [itemID2Msg EXCEPT ![p] = @ \ {i}]
    /\ UNCHANGED state

\* The store's expiration: callback first, the entry itself goes a TTL later.
Expire(p, i) ==
    /\ blockMsgStore[p][i] = "fresh"
    /\ blockMsgStore' = Expired(p, i)
    /\ Remove(p, i)
    /\ UNCHANGED <<delivered, rounds, incomingNONCES, digest, net>>

Drop(p, i) ==
    /\ blockMsgStore[p][i] = "expired"
    /\ blockMsgStore' = [blockMsgStore EXCEPT ![p][i] = "none"]
    /\ delivered' = [delivered EXCEPT ![p][i] = 0]
    /\ UNCHANGED <<itemID2Msg, state, rounds, incomingNONCES, digest, net>>

\* A block beyond the window invalidates i.
Evict(p, i) ==
    /\ blockMsgStore[p][i] # "none"
    /\ blockMsgStore' = [blockMsgStore EXCEPT ![p][i] = "none"]
    /\ delivered' = [delivered EXCEPT ![p][i] = 0]
    /\ Remove(p, i)
    /\ UNCHANGED <<rounds, incomingNONCES, digest, net>>

-------------------------------------------------------------------------------
(* A round.                                                                     *)

\* newNONCE: 64 random bits, in practice never seen before.
Unused(n) ==
    /\ \A p \in Peer : nonces2peers[p][n] = NoPeer /\ n \notin incomingNONCES[p]
    /\ \A p \in Peer : digest[p] = NoMsg \/ digest[p].nonce # n
    /\ \A m \in net : m.nonce # n

\* SelectPeers: some of the eligible members.
SelectPeers(p) == SUBSET (Peer \ {p})

\* initiatePull.
InitiatePull(p) ==
    /\ p \in Pullers
    /\ digestTimers[p] + endTimers[p] < Rounds
    /\ \E S \in SelectPeers(p) : \E f \in [S -> {n \in Nonce : Unused(n)}] :
         /\ \A q, r \in S : f[q] = f[r] => q = r
         /\ nonces2peers' = [nonces2peers EXCEPT ![p] =
                [n \in Nonce |-> IF \E q \in S : f[q] = n
                                 THEN CHOOSE q \in S : f[q] = n ELSE @[n]]]
         /\ peers2nonces' = [peers2nonces EXCEPT ![p] =
                [q \in Peer |-> IF q \in S THEN f[q] ELSE @[q]]]
         /\ net' = net \cup {Msg("hello", p, q, f[q], {}) : q \in S}
    /\ acceptingDigests' = [acceptingDigests EXCEPT ![p] = TRUE]
    /\ digestTimers' = [digestTimers EXCEPT ![p] = @ + 1]
    /\ UNCHANGED <<store, state, item2owners, acceptingResponses, endTimers,
                   incomingNONCES, digest>>

\* onHello: remember the nonce, answer with everything in the engine's state.
OnHello(m) ==
    /\ m.type = "hello" /\ digest[m.dst] = NoMsg
    /\ incomingNONCES' = [incomingNONCES EXCEPT ![m.dst] = @ \cup {m.nonce}]
    /\ net' = (net \ {m}) \cup
              {Msg("digest", m.dst, m.src, m.nonce, items) : items \in {state[m.dst]} \ {{}}}
    /\ UNCHANGED <<store, state, rounds, digest>>

\* requestWaitTime has passed since the hello.
ForgetNonce(p, n) ==
    /\ n \in incomingNONCES[p]
    /\ incomingNONCES' = [incomingNONCES EXCEPT ![p] = @ \ {n}]
    /\ UNCHANGED <<store, state, rounds, digest, net>>

\* IngressDigFilter takes out the blocks that the ledger, whose height rises, has.
IngressDigFilter(m) == {[m EXCEPT !.items = items] : items \in SUBSET m.items}

\* onDigest looks at the flag and at outgoingNONCES before it takes the lock ...
OnDigest(m) ==
    /\ m.type = "digest" /\ digest[m.dst] = NoMsg
    /\ net' = net \ {m}
    /\ IF acceptingDigests[m.dst] /\ nonces2peers[m.dst][m.nonce] # NoPeer
       THEN \E d \in IngressDigFilter(m) : digest' = [digest EXCEPT ![m.dst] = d]
       ELSE UNCHANGED digest
    /\ UNCHANGED <<store, state, rounds, incomingNONCES>>

\* ... and records the owner under it, an owner endPull may have wiped.
AddOwners(p) ==
    /\ digest[p] # NoMsg
    /\ item2owners' = [item2owners EXCEPT ![p] =
           [i \in Item |-> IF i \in digest[p].items \ state[p]
                           THEN @[i] \cup {nonces2peers[p][digest[p].nonce]} ELSE @[i]]]
    /\ digest' = [digest EXCEPT ![p] = NoMsg]
    /\ UNCHANGED <<store, state, nonces2peers, peers2nonces, acceptingDigests,
                   acceptingResponses, digestTimers, endTimers, incomingNONCES, net>>

\* A timer of time.AfterFunc fires once.
Fired(timers, p) == [timers EXCEPT ![p] = @ - 1]

\* digestWaitTime has passed: one owner is asked for each item.  A request to
\* the peer that is none goes nowhere (peersWithEndpoints finds nobody).  (The
\* flag goes down just before the lock is taken, here with it.)
DigestTimeout(p) ==
    /\ digestTimers[p] > 0
    /\ digestTimers' = Fired(digestTimers, p)
    /\ acceptingDigests' = [acceptingDigests EXCEPT ![p] = FALSE]
    /\ acceptingResponses' = [acceptingResponses EXCEPT ![p] = TRUE]
    /\ endTimers' = [endTimers EXCEPT ![p] = @ + 1]
    /\ LET offered == {i \in Item : item2owners[p][i] # {}}
       IN  \E source \in [offered -> Peer \cup {NoPeer}] :
             /\ \A i \in offered : source[i] \in item2owners[p][i]
             /\ net' = net \cup
                  {Msg("req", p, q, peers2nonces[p][q], {i \in offered : source[i] = q}) :
                      q \in {source[i] : i \in offered} \ {NoPeer}}
    /\ UNCHANGED <<store, state, item2owners, nonces2peers, peers2nonces,
                   incomingNONCES, digest>>

\* onReq and SendRes: what the engine's state has is to be sent, what the
\* mediator still has a message for is sent, nothing included.  (SendRes runs in
\* a goroutine of its own: what is removed meanwhile might as well have been
\* removed before.)
OnReq(m) ==
    /\ m.type = "req" /\ digest[m.dst] = NoMsg
    /\ LET q == m.dst
           toSend == m.items \cap state[q]
       IN  net' = (net \ {m}) \cup
                  IF m.nonce \in incomingNONCES[q] /\ toSend # {}
                  THEN {Msg("update", q, m.src, m.nonce, toSend \cap itemID2Msg[q])}
                  ELSE {}
    /\ UNCHANGED <<store, state, rounds, incomingNONCES, digest>>

\* A response: HandleMessage stores its blocks and keeps the new ones in it; the
\* mediator delivers and keeps those; only then does onRes ask whether the round
\* is still open.
OnUpdate(m) ==
    /\ m.type = "update" /\ digest[m.dst] = NoMsg
    /\ net' = net \ {m}
    /\ Accept(m.dst, m.items)
    /\ IF /\ acceptingResponses[m.dst]
          /\ m.nonce \in Nonce /\ nonces2peers[m.dst][m.nonce] # NoPeer
       THEN state' = [state EXCEPT ![m.dst] = @ \cup Filtered(m.dst, m.items)]
       ELSE UNCHANGED state
    /\ UNCHANGED <<rounds, incomingNONCES, digest>>

\* A faulty form of Wipe: the owners of the round stay.
WipeNonces(p) ==
    /\ nonces2peers' = [nonces2peers EXCEPT ![p] = [n \in Nonce |-> NoPeer]]
    /\ peers2nonces' = [peers2nonces EXCEPT ![p] = [q \in Peer |-> NoNonce]]
    /\ UNCHANGED item2owners

\* A faulty form of Wipe: the nonces told to the peers stay.
WipeAnswers(p) ==
    /\ nonces2peers' = [nonces2peers EXCEPT ![p] = [n \in Nonce |-> NoPeer]]
    /\ item2owners' = [item2owners EXCEPT ![p] = NoOwners]
    /\ UNCHANGED peers2nonces

Wipe(p) ==
    /\ nonces2peers' = [nonces2peers EXCEPT ![p] = [n \in Nonce |-> NoPeer]]
    /\ peers2nonces' = [peers2nonces EXCEPT ![p] = [q \in Peer |-> NoNonce]]
    /\ item2owners' = [item2owners EXCEPT ![p] = NoOwners]

\* endPull, responseWaitTime after the requests: whatever round is open, it ends.
EndPull(p) ==
    /\ endTimers[p] > 0
    /\ endTimers' = Fired(endTimers, p)
    /\ acceptingResponses' = [acceptingResponses EXCEPT ![p] = FALSE]
    /\ Wipe(p)
    /\ UNCHANGED <<store, state, acceptingDigests, digestTimers, incomingNONCES,
                   digest, net>>

Lose(m) ==
    /\ net' = net \ {m}
    /\ UNCHANGED <<store, state, rounds, incomingNONCES, digest>>

-------------------------------------------------------------------------------
Timers(p) == InitiatePull(p) \/ DigestTimeout(p) \/ EndPull(p) \/ AddOwners(p)

Next ==
    \/ \E p \in Peer : Timers(p)
    \/ \E p \in Peer, i \in Item :
         PutBlock(p, i) \/ AddToMsgStore(p, i) \/ Expire(p, i) \/ Drop(p, i) \/ Evict(p, i)
    \/ \E p \in Peer, n \in Nonce : ForgetNonce(p, n)
    \/ \E m \in net : OnHello(m)
    \/ \E m \in net : OnDigest(m)
    \/ \E m \in net : OnReq(m)
    \/ \E m \in net : OnUpdate(m)
    \/ \E m \in net : Lose(m)

Spec == Init /\ [][Next]_vars

-------------------------------------------------------------------------------
Fresh(p) == {i \in Item : blockMsgStore[p][i] = "fresh"}

(* Every variable keeps its type; no more rounds are open than the intervals    *)
(* allow, and what a peer remembers of a digest is a digest addressed to it.    *)
TypeOK ==
    /\ blockMsgStore \in [Peer -> [Item -> {"none", "fresh", "expired"}]]
    /\ itemID2Msg \in [Peer -> SUBSET Item]
    /\ state \in [Peer -> SUBSET Item]
    /\ item2owners \in [Peer -> [Item -> SUBSET (Peer \cup {NoPeer})]]
    /\ nonces2peers \in [Peer -> [Nonce -> Peer \cup {NoPeer}]]
    /\ peers2nonces \in [Peer -> [Peer -> Nonce \cup {NoNonce}]]
    /\ incomingNONCES \in [Peer -> SUBSET Nonce]
    /\ acceptingDigests \in [Peer -> BOOLEAN]
    /\ acceptingResponses \in [Peer -> BOOLEAN]
    /\ digestTimers \in [Peer -> 0 .. Rounds]
    /\ endTimers \in [Peer -> 0 .. Rounds]
    /\ \A p \in Peer : digestTimers[p] + endTimers[p] \in 0 .. Rounds
    /\ \A p \in Peer : digest[p] # NoMsg => /\ digest[p] \in Message
                                           /\ digest[p].type = "digest"
                                           /\ digest[p].dst = p
    /\ delivered \in [Peer -> [Item -> Nat]]
    /\ net \subseteq Message

(* A request goes only to a peer that offered the item in answer to this        *)
(* peer's own hello, with the nonce of that hello, the only one that peer will  *)
(* serve: whatever endPull, overlapping rounds and late digests do to           *)
(* peers2nonces and item2owners, the two never disagree when the requests go.   *)
RequestsMatchHello ==
    [][\A m \in net' \ net : m.type = "req" =>
           m.nonce \in Nonce /\ nonces2peers[m.src][m.nonce] = m.dst]_vars

(* The application gets a block at most once while the store remembers it,      *)
(* gossiped or pulled, from however many peers and in however many rounds:      *)
(* HandleMessage leaves in a response only what blockMsgStore.Add took.         *)
DeliveredOnce == \A p \in Peer, i \in Item : delivered[p][i] <= 1

(* What the store offers as a live block the mediator can send when a request   *)
(* asks for it: the two are separate tables, filled by three paths and emptied  *)
(* by the store's callbacks.                                                    *)
StoredBlocksAreHeld == \A p \in Peer : Fresh(p) \subseteq itemID2Msg[p]

(* When the last timer of a peer has fired no round is half open: no hello is   *)
(* outstanding and neither flag lets an answer in, however rounds overlapped.   *)
RoundsEnd ==
    \A p \in Peer : digestTimers[p] + endTimers[p] = 0 =>
        /\ ~acceptingDigests[p] /\ ~acceptingResponses[p]
        /\ \A n \in Nonce : nonces2peers[p][n] = NoPeer
        /\ \A q \in Peer : peers2nonces[p][q] = NoNonce
=============================================================================
