------------------------------- MODULE PullProofs -------------------------------
(* Proofs about PullEngine, for any peers, blocks and nonces and any number of    *)
(* overlapping rounds.                                                            *)
(*                                                                                *)
(* Each property is strengthened by what the code relies on without saying so.    *)
(* DeliveredOnce needs that a block the store does not know was not delivered     *)
(* since; RoundsEnd that each flag has a timer of its own that will clear it; and *)
(* RequestsMatchHello that whoever is named as an owner, or as the peer of a       *)
(* nonce, is a peer whose current nonce leads back to it.                          *)
EXTENDS PullEngine, TLAPS

-------------------------------------------------------------------------------
(* The inductive invariant.                                                    *)

\* A hello and the digest that answers it have a nonce.
HelloNonces ==
    /\ digest \in [Peer -> Message \cup {NoMsg}]
    /\ \A m \in net : m.type \in {"hello", "digest"} => m.nonce \in Nonce
    /\ \A p \in Peer : digest[p] # NoMsg => digest[p].nonce \in Nonce

\* A block that the store forgot has not been delivered since.
DeliveredAreKnown ==
    \A p \in Peer, i \in Item : blockMsgStore[p][i] = "none" => delivered[p][i] = 0

\* Each flag has a timer that clears it, and so have the nonces.
TimersEnd ==
    \A p \in Peer :
        /\ acceptingDigests[p] => digestTimers[p] > 0
        /\ acceptingResponses[p] => endTimers[p] > 0
        /\ digestTimers[p] + endTimers[p] = 0 =>
              /\ \A n \in Nonce : nonces2peers[p][n] = NoPeer
              /\ \A q \in Peer : peers2nonces[p][q] = NoNonce

\* The nonce last told to q is outstanding, and q's.
Asked(p, q) ==
    peers2nonces[p][q] \in Nonce /\ nonces2peers[p][peers2nonces[p][q]] = q

\* Whoever has an outstanding nonce or is an owner was asked.
NoncesAgree ==
    \A p \in Peer :
        /\ \A n \in Nonce : nonces2peers[p][n] # NoPeer => Asked(p, nonces2peers[p][n])
        /\ \A i \in Item : \A q \in item2owners[p][i] \ {NoPeer} : Asked(p, q)

IInv ==
    /\ TypeOK /\ HelloNonces
    /\ StoredBlocksAreHeld /\ DeliveredAreKnown /\ DeliveredOnce
    /\ TimersEnd /\ NoncesAgree

\* Before anything: no block, no round, nobody asked.
LEMMA InitIInv == Init => IInv
<1> SUFFICES ASSUME Init PROVE IInv
  OBVIOUS
<1> USE PullAssumption DEF Init
<1>1. TypeOK
  BY DEF TypeOK, NoOwners
<1>2. HelloNonces /\ StoredBlocksAreHeld /\ DeliveredAreKnown /\ DeliveredOnce
  BY DEF HelloNonces, StoredBlocksAreHeld, Fresh, DeliveredAreKnown, DeliveredOnce
<1>3. TimersEnd /\ NoncesAgree
  BY DEF TimersEnd, NoncesAgree, NoOwners
<1> QED
  BY <1>1, <1>2, <1>3 DEF IInv

-------------------------------------------------------------------------------
(* Types.                                                                      *)

\* One round: p asks each peer q of S with the nonce f[q].
Asks(p, S, f) ==
    /\ \A q \in S : f[q] \in Nonce /\ Unused(f[q])
    /\ \A q, r \in S : f[q] = f[r] => q = r
    /\ nonces2peers' \in [Peer -> [Nonce -> Peer \cup {NoPeer}]]
    /\ peers2nonces' \in [Peer -> [Peer -> Nonce \cup {NoNonce}]]
    /\ \A q \in S : nonces2peers'[p][f[q]] = q
    /\ \A n \in Nonce : (\A q \in S : f[q] # n) => nonces2peers'[p][n] = nonces2peers[p][n]
    /\ \A q \in Peer : peers2nonces'[p][q] = IF q \in S THEN f[q] ELSE peers2nonces[p][q]
    /\ \A r \in Peer \ {p} : /\ nonces2peers'[r] = nonces2peers[r]
                             /\ peers2nonces'[r] = peers2nonces[r]
    /\ net' = net \cup {Msg("hello", p, q, f[q], {}) : q \in S}

\* Starting a round asks each selected peer with a nonce that nobody remembers.
LEMMA InitiateStep ==
    ASSUME TypeOK, NEW p \in Peer, InitiatePull(p)
    PROVE  \E S \in SUBSET (Peer \ {p}), f \in [Peer -> Nonce \cup {NoNonce}] : Asks(p, S, f)
<1>1. PICK S \in SUBSET (Peer \ {p}) : \E f \in [S -> {n \in Nonce : Unused(n)}] :
         /\ \A q, r \in S : f[q] = f[r] => q = r
         /\ nonces2peers' = [nonces2peers EXCEPT ![p] =
                [n \in Nonce |-> IF \E q \in S : f[q] = n
                                 THEN CHOOSE q \in S : f[q] = n ELSE @[n]]]
         /\ peers2nonces' = [peers2nonces EXCEPT ![p] =
                [q \in Peer |-> IF q \in S THEN f[q] ELSE @[q]]]
         /\ net' = net \cup {Msg("hello", p, q, f[q], {}) : q \in S}
  BY Zenon DEF InitiatePull, SelectPeers
<1>2. PICK f \in [S -> {n \in Nonce : Unused(n)}] :
         /\ \A q, r \in S : f[q] = f[r] => q = r
         /\ nonces2peers' = [nonces2peers EXCEPT ![p] =
                [n \in Nonce |-> IF \E q \in S : f[q] = n
                                 THEN CHOOSE q \in S : f[q] = n ELSE @[n]]]
         /\ peers2nonces' = [peers2nonces EXCEPT ![p] =
                [q \in Peer |-> IF q \in S THEN f[q] ELSE @[q]]]
         /\ net' = net \cup {Msg("hello", p, q, f[q], {}) : q \in S}
  BY <1>1, Zenon
<1> DEFINE g == [q \in Peer |-> IF q \in S THEN f[q] ELSE NoNonce]
<1>3. g \in [Peer -> Nonce \cup {NoNonce}] /\ \A q \in S : g[q] = f[q]
  OBVIOUS
<1>4. \A q \in S : g[q] \in Nonce /\ Unused(g[q])
  BY <1>3
<1>5. \A q \in S : (CHOOSE r \in S : f[r] = f[q]) = q
  BY <1>2
<1>6. \A n \in Nonce : (\E q \in S : f[q] = n) => (CHOOSE q \in S : f[q] = n) \in S
  OBVIOUS
<1>7. nonces2peers' \in [Peer -> [Nonce -> Peer \cup {NoPeer}]]
  BY <1>2, <1>6 DEF TypeOK
<1>8. \A q \in S : nonces2peers'[p][g[q]] = q
  BY <1>2, <1>3, <1>4, <1>5 DEF TypeOK
<1>9. \A n \in Nonce : (\A q \in S : g[q] # n) => nonces2peers'[p][n] = nonces2peers[p][n]
  BY <1>2, <1>3 DEF TypeOK
<1>10. \A r \in Peer \ {p} : nonces2peers'[r] = nonces2peers[r] /\ peers2nonces'[r] = peers2nonces[r]
  BY <1>2 DEF TypeOK
<1>11. /\ peers2nonces' \in [Peer -> [Peer -> Nonce \cup {NoNonce}]]
       /\ \A q \in Peer : peers2nonces'[p][q] = IF q \in S THEN g[q] ELSE peers2nonces[p][q]
  BY <1>2, <1>3 DEF TypeOK
<1>12. net' = net \cup {Msg("hello", p, q, g[q], {}) : q \in S}
  <2>1. net' = net \cup {Msg("hello", p, q, f[q], {}) : q \in S}
    BY <1>2, Zenon
  <2> HIDE DEF g
  <2>2. {Msg("hello", p, q, f[q], {}) : q \in S} = {Msg("hello", p, q, g[q], {}) : q \in S}
    BY <1>3
  <2> QED
    BY <2>1, <2>2, Zenon
<1>13. \A q, r \in S : g[q] = g[r] => q = r
  BY <1>2, <1>3
<1> HIDE DEF g
<1> QED
  BY <1>3, <1>4, <1>7, <1>8, <1>9, <1>10, <1>11, <1>12, <1>13 DEF Asks

\* The ledger filter changes nothing but the items of a digest.
LEMMA FilteredDigest ==
    ASSUME NEW m \in Message, NEW d \in IngressDigFilter(m)
    PROVE  d \in Message /\ d.type = m.type /\ d.dst = m.dst /\ d.nonce = m.nonce
<1>1. PICK items \in SUBSET m.items : d = [m EXCEPT !.items = items]
  BY DEF IngressDigFilter
<1>2. d = Msg(m.type, m.src, m.dst, m.nonce, items)
  BY <1>1 DEF Message, Msg
<1> QED
  BY <1>2 DEF Message, Msg

\* What enters the network is a message, and what is kept of it stays a digest.
LEMMA TypesStep ==
    ASSUME TypeOK, HelloNonces, [Next]_vars PROVE TypeOK' /\ HelloNonces'
<1>1. ASSUME NEW p \in Peer, InitiatePull(p) PROVE TypeOK' /\ HelloNonces'
  <2>1. PICK S \in SUBSET (Peer \ {p}), f \in [Peer -> Nonce \cup {NoNonce}] : Asks(p, S, f)
    BY <1>1, InitiateStep, Zenon
  <2> USE PullAssumption, SMTT(20) DEF TypeOK, HelloNonces, Message, Msg
  <2>2. net' \subseteq Message /\ \A m \in net' : m.type \in {"hello", "digest"} => m.nonce \in Nonce
    BY <2>1 DEF Asks
  <2> QED
    BY <1>1, <2>1, <2>2 DEF InitiatePull, Asks, store
<1> USE PullAssumption, SMTT(20)
    DEF TypeOK, HelloNonces, Message, Msg, NoOwners, store, rounds
<1>2. ASSUME NEW p \in Peer, DigestTimeout(p) PROVE TypeOK' /\ HelloNonces'
  BY <1>2 DEF DigestTimeout, Fired
<1>3. ASSUME NEW p \in Peer, EndPull(p) PROVE TypeOK' /\ HelloNonces'
  BY <1>3 DEF EndPull, Fired, Wipe
<1>4. ASSUME NEW p \in Peer, AddOwners(p) PROVE TypeOK' /\ HelloNonces'
  BY <1>4 DEF AddOwners
<1>5. ASSUME NEW p \in Peer, NEW i \in Item, PutBlock(p, i) PROVE TypeOK' /\ HelloNonces'
  BY <1>5 DEF PutBlock, Accept, Addable, Filtered
<1>6. ASSUME NEW p \in Peer, NEW i \in Item, AddToMsgStore(p, i) PROVE TypeOK' /\ HelloNonces'
  BY <1>6 DEF AddToMsgStore, Add
<1>7. ASSUME NEW p \in Peer, NEW i \in Item, Expire(p, i) PROVE TypeOK' /\ HelloNonces'
  BY <1>7 DEF Expire, Expired, Remove
<1>8. ASSUME NEW p \in Peer, NEW i \in Item, Drop(p, i) PROVE TypeOK' /\ HelloNonces'
  BY <1>8 DEF Drop
<1>9. ASSUME NEW p \in Peer, NEW i \in Item, Evict(p, i) PROVE TypeOK' /\ HelloNonces'
  BY <1>9 DEF Evict, Remove
<1>10. ASSUME NEW p \in Peer, NEW n \in Nonce, ForgetNonce(p, n) PROVE TypeOK' /\ HelloNonces'
  BY <1>10 DEF ForgetNonce
<1>11. ASSUME NEW m \in net, OnHello(m) PROVE TypeOK' /\ HelloNonces'
  BY <1>11 DEF OnHello
<1>12. ASSUME NEW m \in net, OnDigest(m) PROVE TypeOK' /\ HelloNonces'
  <2>1. m \in Message /\ m.dst \in Peer
    OBVIOUS
  <2>2. digest' = digest \/ \E d \in IngressDigFilter(m) : digest' = [digest EXCEPT ![m.dst] = d]
    BY <1>12, Zenon DEF OnDigest
  <2>3. digest \in [Peer -> Message \cup {NoMsg}]
    OBVIOUS
  <2>4. m.type = "digest" /\ m.nonce \in Nonce
    BY <1>12 DEF OnDigest
  <2>5. /\ digest' \in [Peer -> Message \cup {NoMsg}]
        /\ \A p \in Peer : digest'[p] = digest[p] \/ /\ digest'[p].type = "digest"
                                                     /\ digest'[p].dst = p
                                                     /\ digest'[p].nonce \in Nonce
    <3> HIDE DEF TypeOK, HelloNonces, Message, Msg
    <3>1. ASSUME NEW d \in IngressDigFilter(m), digest' = [digest EXCEPT ![m.dst] = d]
          PROVE  <2>5!1 /\ <2>5!2
      <4>1. d \in Message /\ d.type = "digest" /\ d.dst = m.dst /\ d.nonce \in Nonce
        BY <2>1, <2>4, FilteredDigest
      <4> QED
        BY <2>1, <2>3, <3>1, <4>1
    <3> QED
      BY <2>2, <2>3, <3>1
  <2> QED
    BY <1>12, <2>5 DEF OnDigest
<1>13. ASSUME NEW m \in net, OnReq(m) PROVE TypeOK' /\ HelloNonces'
  BY <1>13 DEF OnReq
<1>14. ASSUME NEW m \in net, OnUpdate(m) PROVE TypeOK' /\ HelloNonces'
  <2>1. m.dst \in Peer /\ m.items \subseteq Item
    OBVIOUS
  <2>2. net' \subseteq net
    BY <1>14 DEF OnUpdate
  <2>3. blockMsgStore' \in [Peer -> [Item -> {"none", "fresh", "expired"}]]
    BY <1>14, <2>1 DEF OnUpdate, Accept
  <2>4. /\ itemID2Msg' = [itemID2Msg EXCEPT ![m.dst] = @ \cup Filtered(m.dst, m.items)]
        /\ \/ state' = [state EXCEPT ![m.dst] = @ \cup Filtered(m.dst, m.items)]
           \/ UNCHANGED state
    BY <1>14, Zenon DEF OnUpdate, Accept
  <2>5. itemID2Msg' \in [Peer -> SUBSET Item] /\ state' \in [Peer -> SUBSET Item]
    <3>1. Filtered(m.dst, m.items) \subseteq Item
      BY <2>1 DEF Filtered, Addable
    <3>2. itemID2Msg \in [Peer -> SUBSET Item] /\ state \in [Peer -> SUBSET Item]
      OBVIOUS
    <3> HIDE DEF TypeOK, HelloNonces
    <3> QED
      BY <2>1, <2>4, <3>1, <3>2
  <2>6. delivered' \in [Peer -> [Item -> Nat]]
    BY <1>14, <2>1 DEF OnUpdate, Accept
  <2> QED
    BY <1>14, <2>2, <2>3, <2>5, <2>6 DEF OnUpdate
<1>15. ASSUME NEW m \in net, Lose(m) PROVE TypeOK' /\ HelloNonces'
  BY <1>15 DEF Lose
<1>16. CASE UNCHANGED vars
  BY <1>16 DEF vars
<1> QED
  BY ZenonT(30), <1>1, <1>2, <1>3, <1>4, <1>5, <1>6, <1>7, <1>8, <1>9, <1>10, <1>11,
     <1>12, <1>13, <1>14, <1>15, <1>16
  DEF Next, Timers

-------------------------------------------------------------------------------
(* The block store and the mediator.                                           *)

StoreInv == StoredBlocksAreHeld /\ DeliveredAreKnown /\ DeliveredOnce

\* Whatever enters the mediator's map was new to the store, or is already live in it.
LEMMA StoreStep ==
    ASSUME TypeOK, StoreInv, [Next]_vars
    PROVE  StoreInv'
<1> USE SMTT(20) DEF TypeOK, StoreInv, StoredBlocksAreHeld, Fresh, DeliveredAreKnown,
        DeliveredOnce, store, rounds
<1>1. ASSUME NEW p \in Peer, InitiatePull(p) PROVE StoreInv'
  BY <1>1 DEF InitiatePull
<1>2. ASSUME NEW p \in Peer, DigestTimeout(p) PROVE StoreInv'
  BY <1>2 DEF DigestTimeout
<1>3. ASSUME NEW p \in Peer, EndPull(p) PROVE StoreInv'
  BY <1>3 DEF EndPull
<1>4. ASSUME NEW p \in Peer, AddOwners(p) PROVE StoreInv'
  BY <1>4 DEF AddOwners
<1>5. ASSUME NEW p \in Peer, NEW i \in Item, PutBlock(p, i) PROVE StoreInv'
  BY <1>5 DEF PutBlock, Accept, Addable, Filtered
<1>6. ASSUME NEW p \in Peer, NEW i \in Item, AddToMsgStore(p, i) PROVE StoreInv'
  BY <1>6 DEF AddToMsgStore, Add
<1>7. ASSUME NEW p \in Peer, NEW i \in Item, Expire(p, i) PROVE StoreInv'
  BY <1>7 DEF Expire, Expired, Remove
<1>8. ASSUME NEW p \in Peer, NEW i \in Item, Drop(p, i) PROVE StoreInv'
  BY <1>8 DEF Drop
<1>9. ASSUME NEW p \in Peer, NEW i \in Item, Evict(p, i) PROVE StoreInv'
  BY <1>9 DEF Evict, Remove
<1>10. ASSUME NEW p \in Peer, NEW n \in Nonce, ForgetNonce(p, n) PROVE StoreInv'
  BY <1>10 DEF ForgetNonce
<1>11. ASSUME NEW m \in net, OnHello(m) PROVE StoreInv'
  BY <1>11 DEF OnHello
<1>12. ASSUME NEW m \in net, OnDigest(m) PROVE StoreInv'
  BY <1>12 DEF OnDigest
<1>13. ASSUME NEW m \in net, OnReq(m) PROVE StoreInv'
  BY <1>13 DEF OnReq
<1>14. ASSUME NEW m \in net, OnUpdate(m) PROVE StoreInv'
  BY <1>14 DEF OnUpdate, Accept, Addable, Filtered, Message
<1>15. ASSUME NEW m \in net, Lose(m) PROVE StoreInv'
  BY <1>15 DEF Lose
<1>16. CASE UNCHANGED vars
  BY <1>16 DEF vars
<1> QED
  BY ZenonT(30), <1>1, <1>2, <1>3, <1>4, <1>5, <1>6, <1>7, <1>8, <1>9, <1>10, <1>11,
     <1>12, <1>13, <1>14, <1>15, <1>16
  DEF Next, Timers

-------------------------------------------------------------------------------
(* The rounds.                                                                 *)

\* A flag goes up with a timer of its own, and the last timer of all is endPull's.
LEMMA TimersStep ==
    ASSUME TypeOK, TimersEnd, [Next]_vars
    PROVE  TimersEnd'
<1> USE SMTT(20) DEF TypeOK, TimersEnd, store, rounds
<1>1. ASSUME NEW p \in Peer, InitiatePull(p) PROVE TimersEnd'
  <2>1. /\ digestTimers' = [digestTimers EXCEPT ![p] = @ + 1]
        /\ acceptingDigests' = [acceptingDigests EXCEPT ![p] = TRUE]
        /\ UNCHANGED <<endTimers, acceptingResponses>>
    BY <1>1 DEF InitiatePull
  <2>2. \A r \in Peer \ {p} : /\ nonces2peers'[r] = nonces2peers[r]
                              /\ peers2nonces'[r] = peers2nonces[r]
    BY <1>1, InitiateStep, Zenon DEF Asks
  <2> QED
    BY <2>1, <2>2
<1>2. ASSUME NEW p \in Peer, DigestTimeout(p) PROVE TimersEnd'
  BY <1>2 DEF DigestTimeout, Fired
<1>3. ASSUME NEW p \in Peer, EndPull(p) PROVE TimersEnd'
  BY <1>3 DEF EndPull, Fired, Wipe
<1>4. ASSUME NEW p \in Peer, AddOwners(p) PROVE TimersEnd'
  BY <1>4 DEF AddOwners
<1>5. ASSUME NEW p \in Peer, NEW i \in Item, PutBlock(p, i) PROVE TimersEnd'
  BY <1>5 DEF PutBlock
<1>6. ASSUME NEW p \in Peer, NEW i \in Item, AddToMsgStore(p, i) PROVE TimersEnd'
  BY <1>6 DEF AddToMsgStore
<1>7. ASSUME NEW p \in Peer, NEW i \in Item, Expire(p, i) PROVE TimersEnd'
  BY <1>7 DEF Expire
<1>8. ASSUME NEW p \in Peer, NEW i \in Item, Drop(p, i) PROVE TimersEnd'
  BY <1>8 DEF Drop
<1>9. ASSUME NEW p \in Peer, NEW i \in Item, Evict(p, i) PROVE TimersEnd'
  BY <1>9 DEF Evict
<1>10. ASSUME NEW p \in Peer, NEW n \in Nonce, ForgetNonce(p, n) PROVE TimersEnd'
  BY <1>10 DEF ForgetNonce
<1>11. ASSUME NEW m \in net, OnHello(m) PROVE TimersEnd'
  BY <1>11 DEF OnHello
<1>12. ASSUME NEW m \in net, OnDigest(m) PROVE TimersEnd'
  BY <1>12 DEF OnDigest
<1>13. ASSUME NEW m \in net, OnReq(m) PROVE TimersEnd'
  BY <1>13 DEF OnReq
<1>14. ASSUME NEW m \in net, OnUpdate(m) PROVE TimersEnd'
  BY <1>14 DEF OnUpdate
<1>15. ASSUME NEW m \in net, Lose(m) PROVE TimersEnd'
  BY <1>15 DEF Lose
<1>16. CASE UNCHANGED vars
  BY <1>16 DEF vars
<1> QED
  BY ZenonT(30), <1>1, <1>2, <1>3, <1>4, <1>5, <1>6, <1>7, <1>8, <1>9, <1>10, <1>11,
     <1>12, <1>13, <1>14, <1>15, <1>16
  DEF Next, Timers

\* A nonce is told to one peer at a time, and endPull forgets both directions at once.
LEMMA NoncesStep ==
    ASSUME TypeOK, HelloNonces, NoncesAgree, [Next]_vars
    PROVE  NoncesAgree'
<1> USE PullAssumption, SMTT(20) DEF NoncesAgree, Asked, store, rounds
<1>1. ASSUME NEW p \in Peer, InitiatePull(p) PROVE NoncesAgree'
  <2>1. PICK S \in SUBSET (Peer \ {p}), f \in [Peer -> Nonce \cup {NoNonce}] : Asks(p, S, f)
    BY <1>1, InitiateStep, Zenon
  <2>2. ASSUME NEW q \in Peer, Asked(p, q) PROVE Asked(p, q)'
    <3>1. CASE q \in S
      BY <2>1, <3>1 DEF Asks
    <3>2. CASE q \notin S
      <4>1. \A r \in S : f[r] # peers2nonces[p][q]
        BY <2>1, <2>2 DEF Asks, Unused
      <4> QED
        BY <2>1, <2>2, <3>2, <4>1 DEF Asks
    <3> QED
      BY <3>1, <3>2
  <2>3. ASSUME NEW n \in Nonce, nonces2peers'[p][n] # NoPeer
        PROVE  Asked(p, nonces2peers[p][n])'
    <3>1. CASE \E q \in S : f[q] = n
      BY <2>1, <3>1 DEF Asks
    <3>2. CASE \A q \in S : f[q] # n
      <4>1. nonces2peers'[p][n] \in Peer /\ Asked(p, nonces2peers'[p][n])
        BY <2>1, <2>3, <3>2 DEF Asks
      <4> QED
        BY <2>2, <4>1
    <3> QED
      BY <3>1, <3>2, Zenon
  <2>4. item2owners \in [Peer -> [Item -> SUBSET (Peer \cup {NoPeer})]] /\ UNCHANGED item2owners
    BY <1>1 DEF InitiatePull, TypeOK
  <2>5. \A i \in Item : \A q \in item2owners'[p][i] \ {NoPeer} : Asked(p, q)'
    BY <2>2, <2>4
  <2>6. ASSUME NEW r \in Peer \ {p}, NEW q \in Peer, Asked(r, q) PROVE Asked(r, q)'
    BY <2>1, <2>6 DEF Asks
  <2>7. ASSUME NEW r \in Peer \ {p}
        PROVE  /\ \A n \in Nonce : nonces2peers'[r][n] # NoPeer => Asked(r, nonces2peers[r][n])'
               /\ \A i \in Item : \A q \in item2owners'[r][i] \ {NoPeer} : Asked(r, q)'
    <3>1. nonces2peers'[r] = nonces2peers[r]
      BY <2>1 DEF Asks
    <3>2. \A n \in Nonce : nonces2peers'[r][n] # NoPeer => nonces2peers[r][n] \in Peer
      BY <3>1 DEF TypeOK
    <3>3. \A i \in Item : item2owners'[r][i] \ {NoPeer} \subseteq Peer
                           /\ item2owners'[r][i] = item2owners[r][i]
      BY <2>4
    <3>4. \A n \in Nonce : nonces2peers'[r][n] # NoPeer => Asked(r, nonces2peers'[r][n])
      BY <3>1 DEF NoncesAgree
    <3>5. \A i \in Item : \A q \in item2owners'[r][i] \ {NoPeer} : Asked(r, q)
      BY <3>3 DEF NoncesAgree
    <3> QED
      BY <2>6, <3>1, <3>2, <3>3, <3>4, <3>5
  <2> QED
    BY <2>3, <2>5, <2>7
<1>2. ASSUME NEW p \in Peer, DigestTimeout(p) PROVE NoncesAgree'
  BY <1>2 DEF DigestTimeout
<1>3. ASSUME NEW p \in Peer, EndPull(p) PROVE NoncesAgree'
  BY <1>3 DEF EndPull, Wipe, NoOwners, TypeOK
<1>4. ASSUME NEW p \in Peer, AddOwners(p) PROVE NoncesAgree'
  BY <1>4 DEF AddOwners, HelloNonces, TypeOK
<1>5. ASSUME NEW p \in Peer, NEW i \in Item, PutBlock(p, i) PROVE NoncesAgree'
  BY <1>5 DEF PutBlock
<1>6. ASSUME NEW p \in Peer, NEW i \in Item, AddToMsgStore(p, i) PROVE NoncesAgree'
  BY <1>6 DEF AddToMsgStore
<1>7. ASSUME NEW p \in Peer, NEW i \in Item, Expire(p, i) PROVE NoncesAgree'
  BY <1>7 DEF Expire
<1>8. ASSUME NEW p \in Peer, NEW i \in Item, Drop(p, i) PROVE NoncesAgree'
  BY <1>8 DEF Drop
<1>9. ASSUME NEW p \in Peer, NEW i \in Item, Evict(p, i) PROVE NoncesAgree'
  BY <1>9 DEF Evict
<1>10. ASSUME NEW p \in Peer, NEW n \in Nonce, ForgetNonce(p, n) PROVE NoncesAgree'
  BY <1>10 DEF ForgetNonce
<1>11. ASSUME NEW m \in net, OnHello(m) PROVE NoncesAgree'
  BY <1>11 DEF OnHello
<1>12. ASSUME NEW m \in net, OnDigest(m) PROVE NoncesAgree'
  BY <1>12 DEF OnDigest
<1>13. ASSUME NEW m \in net, OnReq(m) PROVE NoncesAgree'
  BY <1>13 DEF OnReq
<1>14. ASSUME NEW m \in net, OnUpdate(m) PROVE NoncesAgree'
  BY <1>14 DEF OnUpdate
<1>15. ASSUME NEW m \in net, Lose(m) PROVE NoncesAgree'
  BY <1>15 DEF Lose
<1>16. CASE UNCHANGED vars
  BY <1>16 DEF vars
<1> QED
  BY ZenonT(30), <1>1, <1>2, <1>3, <1>4, <1>5, <1>6, <1>7, <1>8, <1>9, <1>10, <1>11,
     <1>12, <1>13, <1>14, <1>15, <1>16
  DEF Next, Timers

\* What every new request satisfies, the action of RequestsMatchHello.
Matches(m) == m.nonce \in Nonce /\ nonces2peers[m.src][m.nonce] = m.dst

\* Only DigestTimeout sends requests, and every owner it picks was asked.
LEMMA RequestStep ==
    ASSUME TypeOK, NoncesAgree, [Next]_vars, NEW m \in net' \ net, m.type = "req"
    PROVE  Matches(m)
<1> USE SMTT(20) DEF Msg, store, rounds
<1>1. ASSUME NEW p \in Peer, InitiatePull(p) PROVE Matches(m)
  <2>1. PICK S \in SUBSET (Peer \ {p}), f \in [Peer -> Nonce \cup {NoNonce}] : Asks(p, S, f)
    BY <1>1, InitiateStep, Zenon
  <2> QED
    BY <2>1 DEF Asks
<1>2. ASSUME NEW p \in Peer, DigestTimeout(p) PROVE Matches(m)
  <2> DEFINE offered == {i \in Item : item2owners[p][i] # {}}
  <2>1. PICK source \in [offered -> Peer \cup {NoPeer}] :
           /\ \A i \in offered : source[i] \in item2owners[p][i]
           /\ net' = net \cup
                {Msg("req", p, q, peers2nonces[p][q], {i \in offered : source[i] = q}) :
                    q \in {source[i] : i \in offered} \ {NoPeer}}
    BY <1>2, Zenon DEF DigestTimeout
  <2>2. PICK i \in Item :
           /\ source[i] \in item2owners[p][i] \ {NoPeer}
           /\ m.src = p /\ m.dst = source[i] /\ m.nonce = peers2nonces[p][source[i]]
    BY <2>1
  <2>3. Asked(p, source[i])
    BY <2>2 DEF NoncesAgree
  <2> QED
    BY <2>2, <2>3 DEF Asked, Matches
<1>3. ASSUME NEW p \in Peer, EndPull(p) PROVE Matches(m)
  BY <1>3 DEF EndPull
<1>4. ASSUME NEW p \in Peer, AddOwners(p) PROVE Matches(m)
  BY <1>4 DEF AddOwners
<1>5. ASSUME NEW p \in Peer, NEW i \in Item, PutBlock(p, i) PROVE Matches(m)
  BY <1>5 DEF PutBlock
<1>6. ASSUME NEW p \in Peer, NEW i \in Item, AddToMsgStore(p, i) PROVE Matches(m)
  BY <1>6 DEF AddToMsgStore
<1>7. ASSUME NEW p \in Peer, NEW i \in Item, Expire(p, i) PROVE Matches(m)
  BY <1>7 DEF Expire
<1>8. ASSUME NEW p \in Peer, NEW i \in Item, Drop(p, i) PROVE Matches(m)
  BY <1>8 DEF Drop
<1>9. ASSUME NEW p \in Peer, NEW i \in Item, Evict(p, i) PROVE Matches(m)
  BY <1>9 DEF Evict
<1>10. ASSUME NEW p \in Peer, NEW n \in Nonce, ForgetNonce(p, n) PROVE Matches(m)
  BY <1>10 DEF ForgetNonce
<1>11. ASSUME NEW r \in net, OnHello(r) PROVE Matches(m)
  BY <1>11 DEF OnHello
<1>12. ASSUME NEW r \in net, OnDigest(r) PROVE Matches(m)
  BY <1>12 DEF OnDigest
<1>13. ASSUME NEW r \in net, OnReq(r) PROVE Matches(m)
  BY <1>13 DEF OnReq
<1>14. ASSUME NEW r \in net, OnUpdate(r) PROVE Matches(m)
  BY <1>14 DEF OnUpdate
<1>15. ASSUME NEW r \in net, Lose(r) PROVE Matches(m)
  BY <1>15 DEF Lose
<1>16. CASE UNCHANGED vars
  BY <1>16 DEF vars
<1> QED
  BY ZenonT(30), <1>1, <1>2, <1>3, <1>4, <1>5, <1>6, <1>7, <1>8, <1>9, <1>10, <1>11,
     <1>12, <1>13, <1>14, <1>15, <1>16
  DEF Next, Timers

-------------------------------------------------------------------------------
(* What holds of every behaviour.                                              *)

\* The inductive invariant holds in every reachable state.
THEOREM Invariance == Spec => []IInv
<1>1. ASSUME IInv, [Next]_vars PROVE IInv'
  <2>1. TypeOK' /\ HelloNonces'
    BY <1>1, TypesStep DEF IInv
  <2>2. StoreInv'
    BY <1>1, StoreStep DEF IInv, StoreInv
  <2>3. TimersEnd' /\ NoncesAgree'
    BY <1>1, TimersStep, NoncesStep DEF IInv
  <2> QED
    BY <2>1, <2>2, <2>3 DEF IInv, StoreInv
<1> QED
  BY <1>1, InitIInv, PTL DEF Spec

\* However rounds overlap, no more are open than the intervals allow and every
\* message in flight has its form.
THEOREM TypeCorrect == Spec => []TypeOK
<1>1. IInv => TypeOK
  BY DEF IInv
<1> QED
  BY <1>1, Invariance, PTL

\* HandleMessage and the mediator give the application a block at most once while
\* the store remembers it, whoever sends it and however often.
THEOREM DeliveredAtMostOnce == Spec => []DeliveredOnce
<1>1. IInv => DeliveredOnce
  BY DEF IInv
<1> QED
  BY <1>1, Invariance, PTL

\* A live block of the store has its message in the mediator, whatever the store's
\* callbacks took out.
THEOREM StoredBlocksAlwaysHeld == Spec => []StoredBlocksAreHeld
<1>1. IInv => StoredBlocksAreHeld
  BY DEF IInv
<1> QED
  BY <1>1, Invariance, PTL

\* When the last timer of a peer has fired, endPull has left nothing of any round.
THEOREM RoundsAlwaysEnd == Spec => []RoundsEnd
<1>1. IInv => RoundsEnd
  <2> SUFFICES ASSUME IInv, NEW p \in Peer, digestTimers[p] + endTimers[p] = 0
               PROVE  /\ ~acceptingDigests[p] /\ ~acceptingResponses[p]
                      /\ \A n \in Nonce : nonces2peers[p][n] = NoPeer
                      /\ \A q \in Peer : peers2nonces[p][q] = NoNonce
    BY Zenon DEF RoundsEnd
  <2>1. digestTimers[p] = 0 /\ endTimers[p] = 0
    BY DEF IInv, TypeOK
  <2> QED
    BY <2>1 DEF IInv, TimersEnd
<1> QED
  BY <1>1, Invariance, PTL

\* Every request goes to a peer with the nonce of an outstanding hello to it.
THEOREM RequestsAlwaysMatch == Spec => RequestsMatchHello
<1>1. ASSUME IInv, [Next]_vars
      PROVE  [\A m \in net' \ net : m.type = "req" =>
                 m.nonce \in Nonce /\ nonces2peers[m.src][m.nonce] = m.dst]_vars
  BY <1>1, RequestStep, Zenon DEF IInv, Matches
<1> QED
  BY <1>1, Invariance, PTL DEF Spec, RequestsMatchHello
===============================================================================
