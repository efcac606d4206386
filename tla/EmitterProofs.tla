---------------------------- MODULE EmitterProofs ----------------------------
(* Proofs about Emitter, for any peers, messages, organisations and limits.       *)
(*                                                                                *)
(* What a message is and who it comes from does not change; what a peer is taken  *)
(* for does, as identities are purged and learned while a batch is under way.  So *)
(* each message is followed from the batch to the peers selected for it, with     *)
(* what was true of it when it was sorted.                                        *)
EXTENDS Emitter, FiniteSetTheorems, TLAPS

-------------------------------------------------------------------------------
(* The inductive invariant.                                                       *)

Phase == {"idle", "block", "leadership", "stateinfo", "rest", "sweep"}
Batches == [pc : Phase, todo : SUBSET Msg, org : SUBSET Msg, rest : SUBSET Msg,
            cur : SUBSET Msg, peers : SUBSET Others]

SetsTyped ==
    /\ buff \in [Buffered -> 1 .. Iterations] /\ Buffered \subseteq Msg
    /\ known \subseteq Peer /\ Self \in known
    /\ Peer \subseteq known \cup missing
    /\ secret \subseteq Alive
    /\ rounds \in [Msg -> Nat]
BatchTyped == batch \in Batches
SentTyped == sent \subseteq Msg \X Others

\* A batch is of what is buffered, and one message at a time has its peers.
BatchIsBuffered ==
    /\ batch.todo \cup batch.org \cup batch.rest \cup batch.cur \subseteq Buffered
    /\ batch.cur = {} \/ \E m \in Msg : batch.cur = {m}
    /\ batch.cur = {} => batch.peers = {}

\* Each message that is still buffered is in one batch more than it has iterations
\* less, as long as that batch is under way.
Underway == IF batch.pc = "idle" THEN 0 ELSE 1
CountsFit ==
    /\ \A m \in Buffered : rounds[m] = Iterations - buff[m] + Underway
    /\ \A m \in Msg \ Buffered : rounds[m] \in {0, Iterations}

\* The kinds of message leave the batch in their order.
KindsInOrder ==
    \A m \in batch.todo :
        /\ batch.pc # "block" => Kind[m] # "block"
        /\ batch.pc \notin {"block", "leadership"} => Kind[m] # "leadership"

\* What was not restricted to the organisation may leave it.
MayLeave(m) ==
    /\ m \in Alive
    /\ m \in OwnAlive => Origin[m] \in External \cup missing
RestMayLeave == \A m \in batch.rest \cup batch.cur : MayLeave(m)

\* The peers selected for a message are of an organisation that may have it.
PeersFit ==
    \A m \in batch.cur, p \in batch.peers :
        Org[Origin[m]] \in {Org[Self], Org[p]} \/ Org[p] = Org[Self]

IInv ==
    /\ SetsTyped /\ BatchTyped /\ SentTyped
    /\ BatchIsBuffered /\ CountsFit /\ KindsInOrder
    /\ RestMayLeave /\ PeersFit
    /\ SecretStaysHome /\ StaysWhereItBelongs

\* Nothing is buffered or sent at first, and only the own organisation's messages
\* have secrets.
LEMMA InitIInv == Init => IInv
<1> SUFFICES ASSUME Init PROVE IInv
  OBVIOUS
<1> USE EmitterAssumption DEF Init, Idle, Buffered
<1>1. SetsTyped /\ BatchTyped /\ SentTyped
  BY DEF SetsTyped, BatchTyped, SentTyped, Batches, Phase, OwnAlive, Others
<1>2. BatchIsBuffered /\ CountsFit /\ KindsInOrder /\ RestMayLeave /\ PeersFit
  BY DEF BatchIsBuffered, CountsFit, KindsInOrder, RestMayLeave, PeersFit
<1>3. SecretStaysHome /\ StaysWhereItBelongs
  BY DEF SecretStaysHome, StaysWhereItBelongs
<1> QED
  BY <1>1, <1>2, <1>3 DEF IInv

-------------------------------------------------------------------------------
(* The peers an action may name.                                                  *)

\* Peers selected for the channel are others of the own organisation.
LEMMA ChannelSelected ==
    ASSUME NEW k, NEW s \in ChannelSelections(k)
    PROVE  /\ s \subseteq Others
           /\ \A p \in s : IsInMyorg(p)
BY DEF ChannelSelections, SelectPeers, ChannelPeers

\* Whoever is taken for a peer of the own organisation is one.
LEMMA MyorgIsMine ==
    ASSUME NEW p, IsInMyorg(p), Self \in Peer PROVE p \in known /\ Org[p] = Org[Self]
BY EmitterAssumption DEF IsInMyorg, GetOrgOfPeer

-------------------------------------------------------------------------------
(* What the actions do to the batch.                                              *)

\* emit takes all that is buffered, or nothing.
Begun(b) ==
    /\ batch' = [pc |-> "block", todo |-> DOMAIN b, org |-> {}, rest |-> {}, cur |-> {},
                 peers |-> {}]
    /\ rounds' = [m \in Msg |-> IF m \in DOMAIN b THEN rounds[m] + 1 ELSE rounds[m]]

LEMMA Emission == ASSUME NEW b, Emit(b) PROVE UNCHANGED <<batch, rounds>> \/ Begun(b)
BY DEF Emit, Begun, Idle

\* What is added has all its iterations, and the rest what they had.
Appends(m) ==
    /\ batch.pc = "idle" /\ m \notin Added
    /\ buff' = [n \in Buffered \cup {m} |-> IF n = m THEN Iterations ELSE buff[n]]
    /\ UNCHANGED <<batch, rounds>> \/ Begun(buff')
    /\ UNCHANGED <<known, secret, sent, missing>>

LEMMA Adding == ASSUME NEW m, Add(m) PROVE Appends(m)
<1>1. Emit(buff') \/ UNCHANGED <<batch, rounds>>
  BY DEF Add
<1>2. UNCHANGED <<batch, rounds>> \/ Begun(buff')
  BY <1>1, Emission, Zenon
<1> QED
  BY <1>2 DEF Add, Appends

LEMMA Periodic ==
    ASSUME PeriodicEmit PROVE
    /\ batch.pc = "idle"
    /\ UNCHANGED <<batch, rounds>> \/ Begun(buff)
    /\ UNCHANGED <<buff, known, secret, sent, missing>>
<1>1. UNCHANGED <<batch, rounds>> \/ Begun(buff)
  BY Emission, Zenon DEF PeriodicEmit
<1> QED
  BY <1>1 DEF PeriodicEmit

\* A new batch is one.
LEMMA BegunTyped ==
    ASSUME NEW b, DOMAIN b \subseteq Msg, Begun(b) PROVE batch' \in Batches
BY DEF Begun, Batches, Phase

LEMMA GossipDoes ==
    ASSUME batch \in Batches, NEW k \in DOMAIN NextKind, NEW s, GossipInChan(k, s) PROVE
    /\ batch' = [batch EXCEPT !.pc = NextKind[k], !.todo = batch.todo \ OfKind(k)]
    /\ batch' \in Batches
<1>1. NextKind[k] \in Phase
  BY DEF NextKind, Phase
<1>2. batch' = [batch EXCEPT !.pc = NextKind[k], !.todo = batch.todo \ OfKind(k)]
  BY DEF GossipInChan
<1> QED
  BY <1>1, <1>2 DEF Batches

LEMMA PartitionDoes ==
    ASSUME batch \in Batches, NEW m \in batch.todo, Partition(m) PROVE
    /\ batch' \in Batches /\ batch'.pc = batch.pc /\ batch'.todo = batch.todo \ {m}
    /\ batch'.cur = batch.cur /\ batch'.peers = batch.peers
    /\ IF IsOrgRestricted(m) THEN batch'.org = batch.org \cup {m} /\ batch'.rest = batch.rest
       ELSE batch'.org = batch.org /\ batch'.rest = batch.rest \cup {m}
<1>1. batch' = IF IsOrgRestricted(m)
               THEN [batch EXCEPT !.todo = batch.todo \ {m}, !.org = batch.org \cup {m},
                                  !.rest = batch.rest]
               ELSE [batch EXCEPT !.todo = batch.todo \ {m}, !.org = batch.org,
                                  !.rest = batch.rest \cup {m}]
  BY DEF Partition
<1> QED
  BY <1>1 DEF Batches

LEMMA InOrgDoes == ASSUME batch \in Batches, NEW s, SendInOrg(s) PROVE batch' \in Batches
<1>1. batch' = [batch EXCEPT !.pc = "rest", !.org = {}]
  BY DEF SendInOrg
<1>2. "rest" \in Phase
  BY DEF Phase
<1> QED
  BY <1>1, <1>2 DEF Batches

LEMMA SelectDoes ==
    ASSUME batch \in Batches, NEW m \in batch.rest,
           NEW s \in SUBSET Filtered(m, ByOriginOrg(m)), SelectFor(m, s)
    PROVE
    /\ batch' = [batch EXCEPT !.rest = batch.rest \ {m}, !.cur = {m}, !.peers = s]
    /\ batch' \in Batches
<1>1. m \in Msg /\ s \in SUBSET Others
  BY DEF Batches, Filtered, ByOriginOrg
<1>2. batch' = [batch EXCEPT !.rest = batch.rest \ {m}, !.cur = {m}, !.peers = s]
  BY DEF SelectFor
<1> QED
  BY <1>1, <1>2 DEF Batches

LEMMA DispatchDoes ==
    ASSUME batch \in Batches, NEW m, NEW p, Dispatch(m, p) PROVE
    \E c \in {batch.cur, {}} :
        /\ batch' = [batch EXCEPT !.peers = batch.peers \ {p}, !.cur = c]
        /\ batch' \in Batches
        /\ c = {} => batch.cur = {} \/ batch.peers = {p}
        /\ c # {} => batch.peers # {p} \/ batch.cur = c
<1> DEFINE c == IF batch.peers = {p} THEN {} ELSE batch.cur
<1>1. batch' = [batch EXCEPT !.peers = batch.peers \ {p}, !.cur = c]
  BY DEF Dispatch
<1>2. c \in {batch.cur, {}}
  OBVIOUS
<1>3. batch' \in Batches
  BY <1>1, <1>2 DEF Batches
<1> QED
  BY <1>1, <1>2, <1>3

-------------------------------------------------------------------------------
(* What each step keeps.                                                          *)

\* The sets keep their types.
LEMMA SetsStep ==
    ASSUME SetsTyped, [Next]_vars PROVE SetsTyped'
<1> USE EmitterAssumption, SMTT(20)
    DEF SetsTyped, Buffered
<1>1. ASSUME NEW m \in Msg, Add(m) PROVE SetsTyped'
  <2>1. Appends(m)
    BY <1>1, Adding, Zenon
  <2> QED
    BY <2>1 DEF Appends, Begun
<1>2. CASE PeriodicEmit
  BY <1>2, Periodic DEF Begun
<1>3. ASSUME NEW k \in DOMAIN NextKind, NEW s \in ChannelSelections(k), GossipInChan(k, s)
      PROVE  SetsTyped'
  BY <1>3 DEF GossipInChan
<1>4. ASSUME NEW m \in batch.todo, NEW s \in SUBSET InfoPeers(m), SendStateInfo(m, s)
      PROVE  SetsTyped'
  BY <1>4 DEF SendStateInfo
<1>5. ASSUME NEW m \in batch.todo, Partition(m) PROVE SetsTyped'
  BY <1>5 DEF Partition
<1>6. ASSUME NEW s \in SUBSET OrgPeers, SendInOrg(s) PROVE SetsTyped'
  BY <1>6 DEF SendInOrg
<1>7. ASSUME NEW m \in batch.rest, NEW s \in SUBSET Filtered(m, ByOriginOrg(m)), SelectFor(m, s)
      PROVE  SetsTyped'
  BY <1>7 DEF SelectFor
<1>8. ASSUME NEW m \in batch.cur, NEW p \in batch.peers, Dispatch(m, p) PROVE SetsTyped'
  BY <1>8 DEF Dispatch, Stripped
<1>9. CASE NextMessage
  BY <1>9 DEF NextMessage
<1>10. CASE Sweep
  BY <1>10 DEF Sweep, Swept
<1>11. CASE Stop
  BY <1>11 DEF Stop
<1>12. ASSUME NEW p \in Peer, Respond(p) PROVE SetsTyped'
  BY <1>12 DEF Respond, Others
<1>13. ASSUME NEW p \in Peer, Purge(p) PROVE SetsTyped'
  BY <1>13 DEF Purge, Others
<1>14. ASSUME NEW p \in Peer, Learn(p) PROVE SetsTyped'
  BY <1>14 DEF Learn
<1>15. CASE UNCHANGED vars
  BY <1>15 DEF vars
<1> QED
  BY ZenonT(30), <1>1, <1>2, <1>3, <1>4, <1>5, <1>6, <1>7, <1>8, <1>9, <1>10, <1>11,
     <1>12, <1>13, <1>14, <1>15
  DEF Next, SendBatch, SelectPeers

\* A batch holds messages and the peers selected.
LEMMA BatchStep ==
    ASSUME SetsTyped, BatchTyped, [Next]_vars PROVE BatchTyped'
<1> USE EmitterAssumption, SMTT(20)
    DEF BatchTyped
<1>1. ASSUME NEW m \in Msg, Add(m) PROVE BatchTyped'
  <2>1. Appends(m)
    BY <1>1, Adding, Zenon
  <2>2. DOMAIN buff' \subseteq Msg
    BY <2>1 DEF Appends, SetsTyped
  <2>3. UNCHANGED batch \/ Begun(buff')
    BY <2>1 DEF Appends
  <2> QED
    BY <2>2, <2>3, BegunTyped, Zenon
<1>2. CASE PeriodicEmit
  <2>1. DOMAIN buff \subseteq Msg
    BY DEF SetsTyped, Buffered
  <2> QED
    BY <1>2, <2>1, Periodic, BegunTyped, Zenon
<1>3. ASSUME NEW k \in DOMAIN NextKind, NEW s \in ChannelSelections(k), GossipInChan(k, s)
      PROVE  BatchTyped'
  BY <1>3, GossipDoes, Zenon
<1>4. ASSUME NEW m \in batch.todo, NEW s \in SUBSET InfoPeers(m), SendStateInfo(m, s)
      PROVE  BatchTyped'
  BY <1>4 DEF SendStateInfo, Batches
<1>5. ASSUME NEW m \in batch.todo, Partition(m) PROVE BatchTyped'
  BY <1>5, PartitionDoes, Zenon
<1>6. ASSUME NEW s \in SUBSET OrgPeers, SendInOrg(s) PROVE BatchTyped'
  BY <1>6, InOrgDoes, Zenon
<1>7. ASSUME NEW m \in batch.rest, NEW s \in SUBSET Filtered(m, ByOriginOrg(m)), SelectFor(m, s)
      PROVE  BatchTyped'
  BY <1>7, SelectDoes, Zenon
<1>8. ASSUME NEW m \in batch.cur, NEW p \in batch.peers, Dispatch(m, p)
      PROVE  BatchTyped'
  BY <1>8, DispatchDoes, Zenon
<1>9. CASE NextMessage
  BY <1>9 DEF NextMessage, Batches, Phase
<1>10. CASE Sweep
  BY <1>10 DEF Sweep, Idle, Batches, Phase
<1>11. CASE Stop
  BY <1>11 DEF Stop
<1>12. ASSUME NEW p \in Peer, Respond(p) PROVE BatchTyped'
  BY <1>12 DEF Respond
<1>13. ASSUME NEW p \in Peer, Purge(p) PROVE BatchTyped'
  BY <1>13 DEF Purge
<1>14. ASSUME NEW p \in Peer, Learn(p) PROVE BatchTyped'
  BY <1>14 DEF Learn
<1>15. CASE UNCHANGED vars
  BY <1>15 DEF vars
<1> QED
  BY ZenonT(30), <1>1, <1>2, <1>3, <1>4, <1>5, <1>6, <1>7, <1>8, <1>9, <1>10, <1>11,
     <1>12, <1>13, <1>14, <1>15
  DEF Next, SendBatch, SelectPeers

\* A batch takes what is buffered, and that changes only when none is under way.
LEMMA BufferedStep ==
    ASSUME SetsTyped, BatchTyped, BatchIsBuffered, [Next]_vars PROVE BatchIsBuffered'
<1> USE EmitterAssumption, SMTT(20)
    DEF BatchTyped, Batches, BatchIsBuffered, Buffered
<1>1. ASSUME NEW m \in Msg, Add(m) PROVE BatchIsBuffered'
  <2>1. Appends(m)
    BY <1>1, Adding, Zenon
  <2> QED
    BY <2>1 DEF Appends, Begun
<1>2. CASE PeriodicEmit
  BY <1>2, Periodic DEF Begun
<1>3. ASSUME NEW k \in DOMAIN NextKind, NEW s \in ChannelSelections(k), GossipInChan(k, s)
      PROVE  BatchIsBuffered'
  BY <1>3 DEF GossipInChan
<1>4. ASSUME NEW m \in batch.todo, NEW s \in SUBSET InfoPeers(m), SendStateInfo(m, s)
      PROVE  BatchIsBuffered'
  BY <1>4 DEF SendStateInfo
<1>5. ASSUME NEW m \in batch.todo, Partition(m) PROVE BatchIsBuffered'
  BY <1>5 DEF Partition
<1>6. ASSUME NEW s \in SUBSET OrgPeers, SendInOrg(s) PROVE BatchIsBuffered'
  BY <1>6 DEF SendInOrg
<1>7. ASSUME NEW m \in batch.rest, NEW s \in SUBSET Filtered(m, ByOriginOrg(m)), SelectFor(m, s)
      PROVE  BatchIsBuffered'
  BY <1>7 DEF SelectFor
<1>8. ASSUME NEW m \in batch.cur, NEW p \in batch.peers, Dispatch(m, p)
      PROVE  BatchIsBuffered'
  BY <1>8 DEF Dispatch
<1>9. CASE NextMessage
  BY <1>9 DEF NextMessage
<1>10. CASE Sweep
  BY <1>10 DEF Sweep, Idle
<1>11. CASE Stop
  BY <1>11 DEF Stop
<1>12. ASSUME NEW p \in Peer, Respond(p) PROVE BatchIsBuffered'
  BY <1>12 DEF Respond
<1>13. ASSUME NEW p \in Peer, Purge(p) PROVE BatchIsBuffered'
  BY <1>13 DEF Purge
<1>14. ASSUME NEW p \in Peer, Learn(p) PROVE BatchIsBuffered'
  BY <1>14 DEF Learn
<1>15. CASE UNCHANGED vars
  BY <1>15 DEF vars
<1> QED
  BY ZenonT(30), <1>1, <1>2, <1>3, <1>4, <1>5, <1>6, <1>7, <1>8, <1>9, <1>10, <1>11,
     <1>12, <1>13, <1>14, <1>15
  DEF Next, SendBatch, SelectPeers

\* A batch counts once for what it takes, and the sweep lowers what is left.
LEMMA CountsStep ==
    ASSUME SetsTyped, BatchTyped, CountsFit, [Next]_vars PROVE CountsFit'
<1> USE EmitterAssumption, SMTT(20)
    DEF SetsTyped, BatchTyped, Batches, CountsFit, Underway, Buffered
<1>1. ASSUME NEW m \in Msg, Add(m) PROVE CountsFit'
  <2>1. Appends(m)
    BY <1>1, Adding, Zenon
  <2> QED
    BY <2>1 DEF Appends, Begun, Added
<1>2. CASE PeriodicEmit
  <2>1. batch.pc = "idle" /\ UNCHANGED buff
    BY <1>2, Periodic
  <2>2. CASE UNCHANGED <<batch, rounds>>
    BY <2>1, <2>2
  <2>3. CASE Begun(buff)
    BY <2>1, <2>3 DEF Begun
  <2> QED
    BY <1>2, <2>2, <2>3, Periodic, Zenon
<1>3. ASSUME NEW k \in DOMAIN NextKind, NEW s \in ChannelSelections(k), GossipInChan(k, s)
      PROVE  CountsFit'
  BY <1>3 DEF GossipInChan, NextKind
<1>4. ASSUME NEW m \in batch.todo, NEW s \in SUBSET InfoPeers(m), SendStateInfo(m, s)
      PROVE  CountsFit'
  BY <1>4 DEF SendStateInfo
<1>5. ASSUME NEW m \in batch.todo, Partition(m) PROVE CountsFit'
  BY <1>5 DEF Partition
<1>6. ASSUME NEW s \in SUBSET OrgPeers, SendInOrg(s) PROVE CountsFit'
  BY <1>6 DEF SendInOrg
<1>7. ASSUME NEW m \in batch.rest, NEW s \in SUBSET Filtered(m, ByOriginOrg(m)), SelectFor(m, s)
      PROVE  CountsFit'
  BY <1>7 DEF SelectFor
<1>8. ASSUME NEW m \in batch.cur, NEW p \in batch.peers, Dispatch(m, p) PROVE CountsFit'
  BY <1>8 DEF Dispatch
<1>9. CASE NextMessage
  BY <1>9 DEF NextMessage
<1>10. CASE Sweep
  BY <1>10 DEF Sweep, Idle, Swept
<1>11. CASE Stop
  BY <1>11 DEF Stop
<1>12. ASSUME NEW p \in Peer, Respond(p) PROVE CountsFit'
  BY <1>12 DEF Respond
<1>13. ASSUME NEW p \in Peer, Purge(p) PROVE CountsFit'
  BY <1>13 DEF Purge
<1>14. ASSUME NEW p \in Peer, Learn(p) PROVE CountsFit'
  BY <1>14 DEF Learn
<1>15. CASE UNCHANGED vars
  BY <1>15 DEF vars
<1> QED
  BY ZenonT(30), <1>1, <1>2, <1>3, <1>4, <1>5, <1>6, <1>7, <1>8, <1>9, <1>10, <1>11,
     <1>12, <1>13, <1>14, <1>15
  DEF Next, SendBatch, SelectPeers

\* A kind leaves the batch as a whole.
LEMMA KindsStep ==
    ASSUME SetsTyped, BatchTyped, KindsInOrder, [Next]_vars PROVE KindsInOrder'
<1> USE EmitterAssumption, SMTT(20)
    DEF BatchTyped, Batches, KindsInOrder
<1>1. ASSUME NEW m \in Msg, Add(m) PROVE KindsInOrder'
  <2>1. Appends(m)
    BY <1>1, Adding, Zenon
  <2> QED
    BY <2>1 DEF Appends, Begun
<1>2. CASE PeriodicEmit
  BY <1>2, Periodic DEF Begun
<1>3. ASSUME NEW k \in DOMAIN NextKind, NEW s \in ChannelSelections(k), GossipInChan(k, s)
      PROVE  KindsInOrder'
  BY <1>3 DEF GossipInChan, OfKind, NextKind
<1>4. ASSUME NEW m \in batch.todo, NEW s \in SUBSET InfoPeers(m), SendStateInfo(m, s)
      PROVE  KindsInOrder'
  BY <1>4 DEF SendStateInfo
<1>5. ASSUME NEW m \in batch.todo, Partition(m) PROVE KindsInOrder'
  BY <1>5 DEF Partition
<1>6. ASSUME NEW s \in SUBSET OrgPeers, SendInOrg(s) PROVE KindsInOrder'
  BY <1>6 DEF SendInOrg
<1>7. ASSUME NEW m \in batch.rest, NEW s \in SUBSET Filtered(m, ByOriginOrg(m)), SelectFor(m, s)
      PROVE  KindsInOrder'
  BY <1>7 DEF SelectFor
<1>8. ASSUME NEW m \in batch.cur, NEW p \in batch.peers, Dispatch(m, p)
      PROVE  KindsInOrder'
  BY <1>8 DEF Dispatch
<1>9. CASE NextMessage
  BY <1>9 DEF NextMessage
<1>10. CASE Sweep
  BY <1>10 DEF Sweep, Idle
<1>11. CASE Stop
  BY <1>11 DEF Stop
<1>12. ASSUME NEW p \in Peer, Respond(p) PROVE KindsInOrder'
  BY <1>12 DEF Respond
<1>13. ASSUME NEW p \in Peer, Purge(p) PROVE KindsInOrder'
  BY <1>13 DEF Purge
<1>14. ASSUME NEW p \in Peer, Learn(p) PROVE KindsInOrder'
  BY <1>14 DEF Learn
<1>15. CASE UNCHANGED vars
  BY <1>15 DEF vars
<1> QED
  BY ZenonT(30), <1>1, <1>2, <1>3, <1>4, <1>5, <1>6, <1>7, <1>8, <1>9, <1>10, <1>11,
     <1>12, <1>13, <1>14, <1>15
  DEF Next, SendBatch, SelectPeers

\* A message is sorted by what its origin is taken for, and an origin of the own
\* organisation that is not known is missing.
LEMMA RestStep ==
    ASSUME SetsTyped, BatchTyped, KindsInOrder, RestMayLeave, [Next]_vars PROVE RestMayLeave'
<1> USE EmitterAssumption, SMTT(20)
    DEF BatchTyped, Batches, RestMayLeave, MayLeave
<1>1. ASSUME NEW m \in Msg, Add(m) PROVE RestMayLeave'
  <2>1. Appends(m)
    BY <1>1, Adding, Zenon
  <2> QED
    BY <2>1 DEF Appends, Begun
<1>2. CASE PeriodicEmit
  BY <1>2, Periodic DEF Begun
<1>3. ASSUME NEW k \in DOMAIN NextKind, NEW s \in ChannelSelections(k), GossipInChan(k, s)
      PROVE  RestMayLeave'
  BY <1>3 DEF GossipInChan
<1>4. ASSUME NEW m \in batch.todo, NEW s \in SUBSET InfoPeers(m), SendStateInfo(m, s)
      PROVE  RestMayLeave'
  BY <1>4 DEF SendStateInfo
<1>5. ASSUME NEW m \in batch.todo, Partition(m) PROVE RestMayLeave'
  <2>1. ~IsOrgRestricted(m) => MayLeave(m)
    BY <1>5 DEF Partition, OfKind, IsOrgRestricted, Kinds, Alive, OwnAlive, IsInMyorg,
              GetOrgOfPeer, KindsInOrder, SetsTyped
  <2>2. missing' = missing
    BY <1>5 DEF Partition
  <2> QED
    BY <1>5, <2>1, <2>2, PartitionDoes
<1>6. ASSUME NEW s \in SUBSET OrgPeers, SendInOrg(s) PROVE RestMayLeave'
  BY <1>6 DEF SendInOrg
<1>7. ASSUME NEW m \in batch.rest, NEW s \in SUBSET Filtered(m, ByOriginOrg(m)), SelectFor(m, s)
      PROVE  RestMayLeave'
  BY <1>7 DEF SelectFor
<1>8. ASSUME NEW m \in batch.cur, NEW p \in batch.peers, Dispatch(m, p)
      PROVE  RestMayLeave'
  BY <1>8 DEF Dispatch
<1>9. CASE NextMessage
  BY <1>9 DEF NextMessage
<1>10. CASE Sweep
  BY <1>10 DEF Sweep, Idle
<1>11. CASE Stop
  BY <1>11 DEF Stop
<1>12. ASSUME NEW p \in Peer, Respond(p) PROVE RestMayLeave'
  BY <1>12 DEF Respond
<1>13. ASSUME NEW p \in Peer, Purge(p) PROVE RestMayLeave'
  BY <1>13 DEF Purge
<1>14. ASSUME NEW p \in Peer, Learn(p) PROVE RestMayLeave'
  BY <1>14 DEF Learn
<1>15. CASE UNCHANGED vars
  BY <1>15 DEF vars
<1> QED
  BY ZenonT(30), <1>1, <1>2, <1>3, <1>4, <1>5, <1>6, <1>7, <1>8, <1>9, <1>10, <1>11,
     <1>12, <1>13, <1>14, <1>15
  DEF Next, SendBatch, SelectPeers

\* peersByOriginOrgPolicy.
LEMMA PeersStep ==
    ASSUME SetsTyped, BatchTyped, PeersFit, [Next]_vars PROVE PeersFit'
<1> USE EmitterAssumption, SMTT(20)
    DEF BatchTyped, PeersFit
<1>1. ASSUME NEW m \in Msg, Add(m) PROVE PeersFit'
  <2>1. Appends(m)
    BY <1>1, Adding, Zenon
  <2> QED
    BY <2>1 DEF Appends, Begun
<1>2. CASE PeriodicEmit
  BY <1>2, Periodic DEF Begun
<1>3. ASSUME NEW k \in DOMAIN NextKind, NEW s \in ChannelSelections(k), GossipInChan(k, s)
      PROVE  PeersFit'
  BY <1>3 DEF GossipInChan
<1>4. ASSUME NEW m \in batch.todo, NEW s \in SUBSET InfoPeers(m), SendStateInfo(m, s)
      PROVE  PeersFit'
  BY <1>4 DEF SendStateInfo
<1>5. ASSUME NEW m \in batch.todo, Partition(m) PROVE PeersFit'
  BY <1>5 DEF Partition
<1>6. ASSUME NEW s \in SUBSET OrgPeers, SendInOrg(s) PROVE PeersFit'
  BY <1>6 DEF SendInOrg
<1>7. ASSUME NEW m \in batch.rest, NEW s \in SUBSET Filtered(m, ByOriginOrg(m)), SelectFor(m, s)
      PROVE  PeersFit'
  <2>1. \A p \in s : Org[Origin[m]] \in {Org[Self], Org[p]} \/ Org[p] = Org[Self]
    BY DEF Filtered, ByOriginOrg, GetOrgOfPeer, SetsTyped
  <2>2. batch' = [batch EXCEPT !.rest = batch.rest \ {m}, !.cur = {m}, !.peers = s]
    BY <1>7, SelectDoes, Zenon
  <2> QED
    BY <2>1, <2>2 DEF Batches
<1>8. ASSUME NEW m \in batch.cur, NEW p \in batch.peers, Dispatch(m, p) PROVE PeersFit'
  <2>1. PICK c \in {batch.cur, {}} :
           batch' = [batch EXCEPT !.peers = batch.peers \ {p}, !.cur = c]
    BY <1>8, DispatchDoes, Zenon
  <2> QED
    BY <2>1 DEF Batches
<1>9. CASE NextMessage
  BY <1>9 DEF NextMessage, Batches
<1>10. CASE Sweep
  BY <1>10 DEF Sweep, Idle
<1>11. CASE Stop
  BY <1>11 DEF Stop
<1>12. ASSUME NEW p \in Peer, Respond(p) PROVE PeersFit'
  BY <1>12 DEF Respond
<1>13. ASSUME NEW p \in Peer, Purge(p) PROVE PeersFit'
  BY <1>13 DEF Purge
<1>14. ASSUME NEW p \in Peer, Learn(p) PROVE PeersFit'
  BY <1>14 DEF Learn
<1>15. CASE UNCHANGED vars
  BY <1>15 DEF vars
<1> QED
  BY ZenonT(30), <1>1, <1>2, <1>3, <1>4, <1>5, <1>6, <1>7, <1>8, <1>9, <1>10, <1>11,
     <1>12, <1>13, <1>14, <1>15
  DEF Next, SendBatch, SelectPeers

\* No secret comes back, and a peer that was missing once is remembered.
Shrinks == secret' \subseteq secret /\ missing \subseteq missing'
LEMMA SecretShrinks ==
    ASSUME SetsTyped, [Next]_vars PROVE Shrinks
<1> USE EmitterAssumption, SMTT(20)
    DEF Shrinks
<1>1. ASSUME NEW m \in Msg, Add(m) PROVE Shrinks
  <2>1. Appends(m)
    BY <1>1, Adding, Zenon
  <2> QED
    BY <2>1 DEF Appends
<1>2. CASE PeriodicEmit
  BY <1>2, Periodic
<1>3. ASSUME NEW k \in DOMAIN NextKind, NEW s \in ChannelSelections(k), GossipInChan(k, s)
      PROVE  Shrinks
  BY <1>3 DEF GossipInChan
<1>4. ASSUME NEW m \in batch.todo, NEW s \in SUBSET InfoPeers(m), SendStateInfo(m, s)
      PROVE  Shrinks
  BY <1>4 DEF SendStateInfo
<1>5. ASSUME NEW m \in batch.todo, Partition(m) PROVE Shrinks
  BY <1>5 DEF Partition
<1>6. ASSUME NEW s \in SUBSET OrgPeers, SendInOrg(s) PROVE Shrinks
  BY <1>6 DEF SendInOrg
<1>7. ASSUME NEW m \in batch.rest, NEW s \in SUBSET Filtered(m, ByOriginOrg(m)), SelectFor(m, s)
      PROVE  Shrinks
  BY <1>7 DEF SelectFor
<1>8. ASSUME NEW m \in batch.cur, NEW p \in batch.peers, Dispatch(m, p) PROVE Shrinks
  BY <1>8 DEF Dispatch, Stripped
<1>9. CASE NextMessage
  BY <1>9 DEF NextMessage
<1>10. CASE Sweep
  BY <1>10 DEF Sweep, Idle
<1>11. CASE Stop
  BY <1>11 DEF Stop
<1>12. ASSUME NEW p \in Peer, Respond(p) PROVE Shrinks
  BY <1>12 DEF Respond
<1>13. ASSUME NEW p \in Peer, Purge(p) PROVE Shrinks
  BY <1>13 DEF Purge
<1>14. ASSUME NEW p \in Peer, Learn(p) PROVE Shrinks
  BY <1>14 DEF Learn
<1>15. CASE UNCHANGED vars
  BY <1>15 DEF vars
<1> QED
  BY ZenonT(30), <1>1, <1>2, <1>3, <1>4, <1>5, <1>6, <1>7, <1>8, <1>9, <1>10, <1>11,
     <1>12, <1>13, <1>14, <1>15
  DEF Next, SendBatch, SelectPeers

\* What is sent to another organisation in this step belongs there, and its secret
\* part is gone after it.
Fits(pair) ==
    LET m == pair[1] IN
    /\ pair \in Msg \X Others
    /\ Kind[m] \in {"alive", "stateinfo"}
    /\ m \in OwnAlive => Origin[m] \in External \cup missing
    /\ m \in Alive => Org[Origin[m]] \in {Org[Self], Org[pair[2]]}
FitsNow == \A pair \in sent' \ sent : Fits(pair) /\ pair[1] \notin secret'
LEMMA NewlySent ==
    ASSUME SetsTyped, BatchTyped, RestMayLeave, PeersFit, [Next]_vars PROVE FitsNow
<1> USE EmitterAssumption, SMTT(20)
    DEF BatchTyped, FitsNow
<1>1. ASSUME NEW m \in Msg, Add(m) PROVE FitsNow
  <2>1. Appends(m)
    BY <1>1, Adding, Zenon
  <2> QED
    BY <2>1 DEF Appends
<1>2. CASE PeriodicEmit
  BY <1>2, Periodic
<1>3. ASSUME NEW k \in DOMAIN NextKind, NEW s \in ChannelSelections(k), GossipInChan(k, s)
      PROVE  FitsNow
  <2>1. \A p \in s : Org[p] = Org[Self]
    BY ChannelSelected, MyorgIsMine, EmitterAssumption DEF SetsTyped
  <2>2. sent' \subseteq sent
    BY <1>3, <2>1 DEF GossipInChan, Send, Filtered
  <2> QED
    BY <2>2
<1>4. ASSUME NEW m \in batch.todo, NEW s \in SUBSET InfoPeers(m), SendStateInfo(m, s)
      PROVE  FitsNow
  <2>1. m \in Msg /\ Kind[m] = "stateinfo" /\ s \subseteq Others
    BY <1>4 DEF SendStateInfo, OfKind, Batches, InfoPeers, Filtered
  <2>2. \A pair \in sent' \ sent : pair[1] = m /\ pair \in Msg \X Others
    BY <1>4, <2>1 DEF SendStateInfo, Send
  <2> QED
    BY <1>4, <2>1, <2>2 DEF SendStateInfo, SetsTyped, Fits, Alive, OwnAlive
<1>5. ASSUME NEW m \in batch.todo, Partition(m) PROVE FitsNow
  BY <1>5 DEF Partition
<1>6. ASSUME NEW s \in SUBSET OrgPeers, SendInOrg(s) PROVE FitsNow
  <2>1. \A p \in s : Org[p] = Org[Self]
    BY MyorgIsMine, EmitterAssumption DEF SetsTyped, OrgPeers
  <2>2. sent' \subseteq sent
    BY <1>6, <2>1 DEF SendInOrg, Send, Filtered
  <2> QED
    BY <2>2
<1>7. ASSUME NEW m \in batch.rest, NEW s \in SUBSET Filtered(m, ByOriginOrg(m)), SelectFor(m, s)
      PROVE  FitsNow
  BY <1>7 DEF SelectFor
<1>8. ASSUME NEW m \in batch.cur, NEW p \in batch.peers, Dispatch(m, p) PROVE FitsNow
  <2>1. m \in Msg /\ p \in Others
    BY DEF Batches
  <2>2. sent' = sent \/ (sent' \subseteq sent \cup {<<m, p>>} /\ secret' = Stripped(m, p))
    BY <1>8 DEF Dispatch, Send
  <2>3. ASSUME <<m, p>> \in sent' \ sent PROVE Org[p] # Org[Self] /\ m \notin secret'
    <3>1. Org[p] # Org[Self]
      BY <1>8, <2>3 DEF Dispatch, Send
    <3>2. ~IsInMyorg(p)
      BY <3>1, MyorgIsMine DEF SetsTyped
    <3> QED
      BY <2>2, <2>3, <3>1, <3>2 DEF Stripped
  <2>4. Org[p] # Org[Self] => Fits(<<m, p>>)
    BY <2>1 DEF RestMayLeave, MayLeave, PeersFit, Fits, Alive
  <2> QED
    BY <2>2, <2>3, <2>4
<1>9. CASE NextMessage
  BY <1>9 DEF NextMessage
<1>10. CASE Sweep
  BY <1>10 DEF Sweep, Idle
<1>11. CASE Stop
  BY <1>11 DEF Stop
<1>12. ASSUME NEW p \in Peer, Respond(p) PROVE FitsNow
  <2>1. ASSUME NEW pair \in sent' \ sent
        PROVE  pair[1] \in Disclosed(p) /\ pair[2] = p /\ pair = <<pair[1], p>>
                /\ Org[p] # Org[Self]
    BY <1>12, <2>1 DEF Respond, Send
  <2>2. secret' = IF Org[p] = Org[Self] THEN secret ELSE secret \ Disclosed(p)
    BY <1>12 DEF Respond
  <2>3. ASSUME Org[p] # Org[Self], NEW m \in Disclosed(p) PROVE Fits(<<m, p>>)
    BY <1>12, <2>3 DEF Respond, Disclosed, Fits, Alive, OwnAlive, GetOrgOfPeer
  <2> QED
    BY <2>1, <2>2, <2>3
<1>13. ASSUME NEW p \in Peer, Purge(p) PROVE FitsNow
  BY <1>13 DEF Purge
<1>14. ASSUME NEW p \in Peer, Learn(p) PROVE FitsNow
  BY <1>14 DEF Learn
<1>15. CASE UNCHANGED vars
  BY <1>15 DEF vars
<1> QED
  BY ZenonT(30), <1>1, <1>2, <1>3, <1>4, <1>5, <1>6, <1>7, <1>8, <1>9, <1>10, <1>11,
     <1>12, <1>13, <1>14, <1>15
  DEF Next, SendBatch, SelectPeers

\* What was sent stays where it was and has no secret still.
LEMMA SentStep ==
    ASSUME SetsTyped, BatchTyped, RestMayLeave, PeersFit, SentTyped, SecretStaysHome,
           StaysWhereItBelongs, [Next]_vars
    PROVE  SentTyped' /\ SecretStaysHome' /\ StaysWhereItBelongs'
<1>1. Shrinks /\ FitsNow
  BY SecretShrinks, NewlySent
<1>2. SentTyped'
  BY <1>1 DEF SentTyped, FitsNow, Fits
<1>3. SecretStaysHome'
  BY <1>1 DEF Shrinks, FitsNow, SecretStaysHome
<1>4. StaysWhereItBelongs'
  BY <1>1 DEF Shrinks, FitsNow, Fits, StaysWhereItBelongs
<1> QED
  BY <1>2, <1>3, <1>4

-------------------------------------------------------------------------------
(* What holds of every behaviour.                                                 *)

\* The inductive invariant holds in every reachable state.
THEOREM Invariance == Spec => []IInv
<1>1. IInv /\ [Next]_vars => IInv'
  BY SetsStep, BatchStep, BufferedStep, CountsStep, KindsStep, RestStep, PeersStep, SentStep
  DEF IInv
<1> QED
  BY <1>1, InitIInv, PTL DEF Spec

\* Nothing is sent that is not buffered, one message at a time has its peers, and none
\* is in more batches than it has iterations.
THEOREM TypeCorrect == Spec => []TypeOK
<1>1. IInv => TypeOK
  <2> SUFFICES ASSUME IInv PROVE TypeOK
    OBVIOUS
  <2> USE EmitterAssumption DEF IInv, SetsTyped, BatchTyped, Batches, Phase
  <2>1. Cardinality(batch.cur) <= 1
    <3>1. Cardinality({}) = 0 /\ \A m \in Msg : Cardinality({m}) = 1
      BY FS_EmptySet, FS_Singleton, Zenon
    <3>2. batch.cur = {} \/ \E m \in Msg : batch.cur = {m}
      BY DEF BatchIsBuffered
    <3>3. Cardinality(batch.cur) \in {0, 1}
      BY <3>1, <3>2, Zenon
    <3> QED
      BY <3>3
  <2>2. \A m \in Msg : rounds[m] \in 0 .. Iterations
    BY DEF CountsFit, Underway
  <2> QED
    BY <2>1, <2>2 DEF TypeOK, BatchIsBuffered, SentTyped
<1> QED
  BY <1>1, Invariance, PTL

\* sendGossipBatch, the responses and the purges in any order: the secret part of an
\* envelope never leaves the organisation.
THEOREM SecretAlwaysStaysHome == Spec => []SecretStaysHome
<1>1. IInv => SecretStaysHome
  BY DEF IInv
<1> QED
  BY <1>1, Invariance, PTL

\* What leaves the organisation may, whatever the peers are taken for meanwhile.
THEOREM AlwaysWhereItBelongs == Spec => []StaysWhereItBelongs
<1>1. IInv => StaysWhereItBelongs
  BY DEF IInv
<1> QED
  BY <1>1, Invariance, PTL

\* Each message is in as many batches as it has iterations.
THEOREM AlwaysEmittedOften == Spec => []EmittedOften
<1>1. IInv => EmittedOften
  BY EmitterAssumption DEF IInv, SetsTyped, CountsFit, Underway, EmittedOften, Buffered
<1> QED
  BY <1>1, Invariance, PTL

-------------------------------------------------------------------------------
(* How the batches end.                                                           *)

\* A finite set has subsets of every size up to its own.
LEMMA SubsetOfSize ==
    ASSUME NEW S, IsFiniteSet(S), NEW k \in Nat, k <= Cardinality(S)
    PROVE  \E T \in SUBSET S : Cardinality(T) = k
<1> DEFINE n == Cardinality(S)
<1>1. n \in Nat /\ ExistsBijection(1 .. n, S)
  BY FS_CardinalityType
<1>2. PICK f \in Bijection(1 .. n, S) : TRUE
  BY <1>1 DEF ExistsBijection
<1>3. /\ f \in [1 .. n -> S]
      /\ \A a, b \in 1 .. n : f[a] = f[b] => a = b
  BY <1>2 DEF Bijection, Injection, IsInjective
<1> HIDE DEF n
<1>4. 1 .. k \subseteq 1 .. n
  BY <1>1 DEF n
<1> DEFINE T == {f[i] : i \in 1 .. k}
           g == [i \in 1 .. k |-> f[i]]
<1>5. T \subseteq S
  BY <1>3, <1>4
<1>6. g \in Injection(1 .. k, T)
  <2>1. g \in [1 .. k -> T]
    OBVIOUS
  <2>2. \A a, b \in 1 .. k : g[a] = g[b] => a = b
    BY <1>3, <1>4
  <2> QED
    BY <2>1, <2>2 DEF Injection, IsInjective
<1>7. g \in Surjection(1 .. k, T)
  BY DEF Surjection
<1>8. ExistsBijection(1 .. k, T)
  BY <1>6, <1>7 DEF ExistsBijection, Bijection
<1>9. Cardinality(T) = k
  BY <1>8, FS_CountingElements
<1> QED
  BY <1>5, <1>9

\* Of any finite set of peers some can be selected, or all there are.
LEMMA Selectable ==
    ASSUME NEW fits, IsFiniteSet(fits), NEW k \in Nat PROVE SelectPeers(k, fits) # {}
<1>1. Cardinality(fits) \in Nat
  BY FS_CardinalityType
<1> DEFINE size == IF Cardinality(fits) < k THEN Cardinality(fits) ELSE k
<1>2. size \in Nat /\ size <= Cardinality(fits)
  BY <1>1
<1> HIDE DEF size
<1>3. PICK T \in SUBSET fits : Cardinality(T) = size
  BY <1>2, SubsetOfSize
<1> QED
  BY <1>3 DEF SelectPeers, size

\* For every message of a batch peers can be selected.
LEMMA NothingLacks ==
    /\ \A k \in DOMAIN NextKind : ChannelSelections(k) # {}
    /\ \A m : /\ SelectPeers(PropagatePeerNum, InfoPeers(m)) # {}
              /\ SelectPeers(PropagatePeerNum, Filtered(m, ByOriginOrg(m))) # {}
    /\ SelectPeers(PropagatePeerNum, OrgPeers) # {}
<1>1. ASSUME NEW fits, fits \subseteq Others, NEW k \in Nat PROVE SelectPeers(k, fits) # {}
  BY <1>1, Selectable, FS_Subset, EmitterAssumption DEF Others
<1>2. \A k : HowMany(k) \in Nat
  BY FS_CardinalityType, EmitterAssumption DEF HowMany
<1>3. ChannelPeers \subseteq Others /\ OrgPeers \subseteq Others
  BY DEF ChannelPeers, OrgPeers
<1>4. \A m : InfoPeers(m) \subseteq Others /\ Filtered(m, ByOriginOrg(m)) \subseteq Others
  BY DEF InfoPeers, Filtered, ByOriginOrg
<1>5. \A k : ChannelSelections(k) # {}
  BY <1>1, <1>2, <1>3 DEF ChannelSelections
<1>6. PropagatePeerNum \in Nat
  BY EmitterAssumption
<1> QED
  BY <1>1, <1>3, <1>4, <1>5, <1>6

\* Whatever the peers are taken for meanwhile, every batch is sent to its end, and where
\* the emitter has nothing left to do each message was in all its batches.
THEOREM AllAlwaysLeave == Spec => []AllLeave
<1>1. IInv => AllLeave
  <2> SUFFICES ASSUME IInv, Settled
               PROVE  /\ batch.pc = "idle"
                      /\ stopFlag \/ \A m \in Added : m \notin Buffered /\ rounds[m] = Iterations
    BY DEF AllLeave
  <2>1. batch.pc = "idle"
    <3> SUFFICES ASSUME BatchWaits, batch.pc \in Phase \ {"idle"} PROVE FALSE
      BY DEF Settled, IInv, BatchTyped, Batches
    <3>1. batch.pc \notin {"block", "leadership"}
      BY NothingLacks DEF BatchWaits, NextKind
    <3>2. batch.pc # "stateinfo"
      BY NothingLacks DEF BatchWaits
    <3>3. CASE batch.pc = "rest"
      <4>1. batch.cur # {} \/ batch.rest # {}
        BY <3>3 DEF BatchWaits, IInv, BatchIsBuffered
      <4>2. batch.cur # {}
        BY <3>3, <4>1, NothingLacks DEF BatchWaits
      <4>3. batch.peers = {}
        BY <4>2 DEF BatchWaits
      <4> QED
        BY <3>3, <4>2, <4>3 DEF BatchWaits
    <3> QED
      BY <3>1, <3>2, <3>3 DEF Phase, BatchWaits
  <2>2. ASSUME ~stopFlag, NEW m \in Added
        PROVE  m \notin Buffered /\ rounds[m] = Iterations
    <3>1. Buffered = {}
      BY <2>1, <2>2 DEF Settled
    <3>2. m \in Msg /\ rounds[m] > 0
      BY <2>2, <3>1 DEF Added
    <3> QED
      BY <3>1, <3>2 DEF IInv, CountsFit
  <2> QED
    BY <2>1, <2>2
<1> QED
  BY <1>1, Invariance, PTL
===============================================================================
