---------------------------- MODULE StateInfoProofs ----------------------------
(* Proofs about StateInfo, for any peers, organisations and endpoints.          *)
(*                                                                              *)
(* HiddenStaysHome is about one of the five places a state info can be in; what  *)
(* is invariant is that it is in none of them: the cache, the handler's hands,   *)
(* the emitter, the relay store and the network.                                 *)
(*                                                                              *)
(* CacheAgrees needs to know what the handler is about to put, that whoever is   *)
(* being removed is out of the channel, and that a peer without the channel has  *)
(* an empty cache.  It is proved for a channel that is configured at most once,  *)
(* as it is checked.                                                             *)
EXTENDS StateInfo, TLAPS

-------------------------------------------------------------------------------
(* The inductive invariant.                                                     *)

\* p's state info is none of n's business.
Hidden(n, p) == p \notin External /\ OrgOf[n] # OrgOf[p]

\* Nothing that n holds or is about to get tells of a hidden peer.
Nowhere(n, p) ==
    /\ messages[n][p] = None
    /\ handler[n].infos[p] = None /\ handler[n].of # p
    /\ relayed[n][p] = None
    /\ \A e \in buffer[n] : e.of # p
    /\ \A m \in net : m.to = n => m.infos[p] = None

HiddenIsNowhere == \A n, p \in Peer : Hidden(n, p) => Nowhere(n, p)

\* What n's cache has of p is in order: the two stores agree; a peer without the
\* channel has handled nothing; what is being removed is not of the channel; and
\* between Add and Put the store has what will be put, or nothing any more.
InOrder(n, p) ==
    /\ /\ p # n /\ messages[n][p] # None /\ OrgOf[p] \in orgs[n]
       /\ ~(handler[n].pc = "put" /\ handler[n].of = p)
       => membership[n][p] = messages[n][p]
    /\ orgs[n] = {} => /\ handler[n] = Idle /\ excluded[n] = NotExcluding
                       /\ messages[n][p] = None
    /\ p \in excluded[n].todo \/ p = excluded[n].purged => OrgOf[p] \notin orgs[n]
    /\ p # n /\ handler[n].pc = "put" /\ handler[n].of = p =>
          messages[n][p] \in {None, handler[n].infos[p]}

\* Until the channel is configured everyone is in it.
AllBeforeConfiguring ==
    configurations = 0 => \A n \in Peer : orgs[n] \in {{}, Org}

CacheInv == AllBeforeConfiguring /\ \A n, p \in Peer : InOrder(n, p)

IInv == TypeOK /\ HiddenIsNowhere


-------------------------------------------------------------------------------
(* Infos and what the handler has in hand.                                      *)

\* None, no infos and a single one are infos.
LEMMA InfosAreTyped ==
    /\ None \in Info /\ NoInfos \in Infos
    /\ \A p \in Peer : NoInfos[p] = None
    /\ \A p \in Peer, i \in Info :
          /\ Only(p, i) \in Infos /\ Only(p, i)[p] = i
          /\ \A q \in Peer \ {p} : Only(p, i)[q] = None
<1>1. None \in Info
  BY StateInfoAssumption DEF None, Info
<1> QED
  BY <1>1 DEF NoInfos, Only, Infos

\* Idle hands are empty.
LEMMA IdleHands ==
    Idle \in Hands /\ Idle.pc = "idle" /\ Idle.of = NoPeer /\ Idle.infos = NoInfos
BY InfosAreTyped DEF Hands, Idle

\* The handler takes up the info of one peer.
LEMMA ChosenOne ==
    ASSUME NEW h \in Hands, NEW p \in Peer
    PROVE  LET chosen == [h EXCEPT !.pc = "add", !.of = p]
           IN  /\ chosen \in Hands /\ chosen.pc = "add" /\ chosen.of = p
               /\ chosen.infos = h.infos
BY DEF Hands

\* The handler drops one info and goes on with the others, or is done.
LEMMA WithoutOne ==
    ASSUME NEW h \in Hands, NEW p \in Peer
    PROVE  /\ Without(h, p) \in Hands
           /\ Without(h, p).pc \in {"idle", "next"}
           /\ Without(h, p).pc = "idle" <=> Without(h, p).infos = NoInfos
           /\ Without(h, p).of = NoPeer
           /\ Without(h, p).infos = [h.infos EXCEPT ![p] = None]
<1> DEFINE g == [h EXCEPT !.pc = "next", !.infos[p] = None, !.of = NoPeer]
<1>1. g \in Hands /\ g.pc = "next" /\ g.of = NoPeer /\ g.infos = [h.infos EXCEPT ![p] = None]
  BY InfosAreTyped DEF Hands, Infos
<1>2. Without(h, p) = IF g.infos = NoInfos THEN Idle ELSE g
  BY DEF Without, Loop
<1> HIDE DEF g
<1> QED
  BY <1>1, <1>2, IdleHands

\* Every table keeps its type, and the handler is idle just when its hands are empty.
LEMMA TypesStep == ASSUME TypeOK, [Next]_vars PROVE TypeOK'
<1> USE StateInfoAssumption, SMTT(20)
    DEF TypeOK, own, cache, bounds
<1>1. ASSUME NEW n \in Peer, UpdateLedgerHeight(n) PROVE TypeOK'
  <2> DEFINE i == [ts |-> time + 1, left |-> PreviousLeft(n)]
  <2>1. i \in Info
    BY <1>1 DEF UpdateLedgerHeight, UpdateProperties, PreviousLeft, Info, Infos
  <2>2. [messages[n] EXCEPT ![n] = i] \in Infos /\ [membership[n] EXCEPT ![n] = i] \in Infos
    BY <2>1 DEF Infos
  <2>3. [stateInfoMsg EXCEPT ![n] = i] \in Infos
    BY <2>1 DEF Infos
  <2> HIDE DEF i
  <2> QED
    BY <1>1, <2>2, <2>3 DEF UpdateLedgerHeight, UpdateProperties, i
<1>2. ASSUME NEW n \in Peer, LeaveChannel(n) PROVE TypeOK'
  <2> DEFINE i == [ts |-> time + 1, left |-> TRUE]
  <2>1. i \in Info
    BY <1>2 DEF LeaveChannel, UpdateProperties, Info
  <2>2. [messages[n] EXCEPT ![n] = i] \in Infos /\ [membership[n] EXCEPT ![n] = i] \in Infos
    BY <2>1 DEF Infos
  <2>3. [stateInfoMsg EXCEPT ![n] = i] \in Infos
    BY <2>1 DEF Infos
  <2> HIDE DEF i
  <2> QED
    BY <1>2, <2>2, <2>3 DEF LeaveChannel, UpdateProperties, i
<1>3. ASSUME NEW n \in Peer, Publish(n) PROVE TypeOK'
  <2>1. [of |-> n, info |-> stateInfoMsg[n], from |-> NoPeer] \in Entry
    BY DEF Entry, Infos
  <2> QED
    BY <1>3, <2>1 DEF Publish
<1>4. ASSUME NEW n \in Peer, ClearFlag(n) PROVE TypeOK'
  BY <1>4 DEF ClearFlag
<1>5. ASSUME NEW n \in Peer, Emit(n) PROVE TypeOK'
  <2>1. \A p \in Peer : Audience(n, p) \subseteq members[n]
    BY DEF Audience
  <2>2. PICK e \in buffer[n] :
           /\ buffer' = [buffer EXCEPT ![n] = @ \ {e}]
           /\ \E to \in SUBSET (Audience(n, e.of) \ {e.from}) :
                net' = net \cup {[type |-> "info", from |-> n, to |-> m,
                                  infos |-> Only(e.of, e.info)] : m \in to}
    BY <1>5, Zenon DEF Emit
  <2>3. e.of \in Peer /\ Only(e.of, e.info) \in Infos
    BY InfosAreTyped DEF Entry
  <2>4. net' \subseteq Message
    BY <2>1, <2>2, <2>3 DEF Message
  <2> QED
    BY <1>5, <2>2, <2>4 DEF Emit
<1>6. ASSUME NEW n \in Peer, NEW m \in Peer, RequestStateInfo(n, m) PROVE TypeOK'
  <2>1. [type |-> "req", from |-> n, to |-> m, infos |-> NoInfos] \in Message
    BY InfosAreTyped DEF Message
  <2> QED
    BY <1>6, <2>1 DEF RequestStateInfo
<1>7. ASSUME NEW n \in Peer, NEW m \in net, Answer(n, m) PROVE TypeOK'
  <2>1. Snapshot(n, OrgOf[m.from]) \in Infos
    BY InfosAreTyped DEF Snapshot, Infos
  <2>2. [type |-> "snap", from |-> n, to |-> m.from, infos |-> Snapshot(n, OrgOf[m.from])] \in Message
    BY <2>1 DEF Message
  <2> QED
    BY <1>7, <2>2 DEF Answer
<1>8. ASSUME NEW n \in Peer, NEW m \in net, Unanswered(n, m) PROVE TypeOK'
  BY <1>8 DEF Unanswered
<1>9. ASSUME NEW n \in Peer, NEW m \in net, Relay(n, m) PROVE TypeOK'
  <2> DEFINE new == {p \in Peer : Replaces(m.infos[p], relayed[n][p])}
             seen == [p \in Peer |-> IF p \in new THEN m.infos[p] ELSE relayed[n][p]]
             due == {[of |-> p, info |-> m.infos[p], from |-> m.from] : p \in new}
  <2>1. m.infos \in Infos /\ m.from \in Peer
    BY DEF Message
  <2>2. seen \in Infos /\ due \subseteq Entry
    BY <2>1 DEF Infos, Entry
  <2>3. \/ /\ relayed' = [relayed EXCEPT ![n] = seen]
           /\ buffer' = [buffer EXCEPT ![n] = @ \cup due]
        \/ UNCHANGED <<relayed, buffer>>
    BY <1>9 DEF Relay
  <2> HIDE DEF seen, due
  <2>4. relayed' \in [Peer -> Infos] /\ buffer' \in [Peer -> SUBSET Entry]
    BY <2>2, <2>3
  <2> QED
    BY <1>9, <2>4 DEF Relay
<1>10. ASSUME NEW n \in Peer, NEW m \in net, Receive(n, m) PROVE TypeOK'
  <2> DEFINE h == [pc |-> "next", from |-> m.from, infos |-> m.infos, of |-> NoPeer,
                   forward |-> m.type = "info"]
  <2>1. h \in Hands /\ h.pc = "next" /\ h.of = NoPeer
    BY DEF Message, Hands
  <2>2. /\ Loop(h) \in Hands /\ Loop(h).of = NoPeer /\ Loop(h).pc \in {"idle", "next"}
        /\ Loop(h).pc = "idle" <=> Loop(h).infos = NoInfos
    BY <2>1, IdleHands DEF Loop
  <2> HIDE DEF h
  <2> QED
    BY <1>10, <2>2 DEF Receive, h
<1>11. ASSUME NEW n \in Peer, NEW p \in Peer, NextInfo(n, p) PROVE TypeOK'
  <2> DEFINE h == handler[n]
             chosen == [h EXCEPT !.pc = "add", !.of = p]
             left == Without(h, p)
  <2>1. h \in Hands /\ h.pc = "next" /\ h.infos # NoInfos
    BY <1>11 DEF NextInfo
  <2> HIDE DEF TypeOK
  <2>2. chosen \in Hands /\ chosen.pc = "add" /\ chosen.of = p /\ chosen.infos = h.infos
    BY <2>1, ChosenOne, Zenon
  <2>3. /\ left \in Hands /\ left.pc \in {"idle", "next"} /\ left.of = NoPeer
        /\ left.pc = "idle" <=> left.infos = NoInfos
    BY <2>1, WithoutOne, Zenon
  <2>4. handler' \in {[handler EXCEPT ![n] = Idle], [handler EXCEPT ![n] = chosen],
                      [handler EXCEPT ![n] = left]}
    BY <1>11, Zenon DEF NextInfo
  <2> USE DEF TypeOK
  <2> HIDE DEF h, chosen, left
  <2>5. /\ handler' \in [Peer -> Hands]
        /\ \A q \in Peer : /\ handler'[q].pc = "idle" <=> handler'[q].infos = NoInfos
                           /\ handler'[q].pc \in {"add", "put"} <=> handler'[q].of # NoPeer
    BY <2>1, <2>2, <2>3, <2>4, IdleHands
  <2> QED
    BY <1>11, <2>5 DEF NextInfo
<1>12. ASSUME NEW n \in Peer, Add(n) PROVE TypeOK'
  <2> DEFINE h == handler[n]
             i == h.infos[h.of]
             added == [h EXCEPT !.pc = "put"]
             left == Without(h, h.of)
  <2>1. h \in Hands /\ h.pc = "add" /\ h.of \in Peer /\ i \in Info /\ h.infos # NoInfos
    BY <1>12 DEF Add, Hands, Infos
  <2> HIDE DEF TypeOK
  <2>2. added \in Hands /\ added.pc = "put" /\ added.of = h.of /\ added.infos = h.infos
    BY <2>1 DEF Hands
  <2>3. /\ left \in Hands /\ left.pc \in {"idle", "next"} /\ left.of = NoPeer
        /\ left.pc = "idle" <=> left.infos = NoInfos
    BY <2>1, WithoutOne, Zenon
  <2> HIDE DEF i, added, left
  <2>4. /\ [messages[n] EXCEPT ![h.of] = i] \in Infos
        /\ [membership[n] EXCEPT ![h.of] = IF messages[n][h.of] = None THEN @ ELSE None]
               \in Infos
    <3>1. messages[n] \in Infos /\ membership[n] \in Infos
      BY DEF TypeOK
    <3>2. None \in Info
      BY InfosAreTyped
    <3> HIDE DEF h
    <3> QED
      BY <2>1, <3>1, <3>2 DEF Infos
  <2> USE DEF TypeOK
  <2>5. CASE Replaces(h.infos[h.of], messages[n][h.of])
    <3>1. /\ messages' = [messages EXCEPT ![n][h.of] = i]
          /\ membership' = [membership EXCEPT ![n][h.of] =
                 IF messages[n][h.of] = None THEN @ ELSE None]
          /\ handler' = [handler EXCEPT ![n] = added]
      BY <1>12, <2>5 DEF Add, i, added
    <3>2. messages' \in [Peer -> Infos]
      BY <2>4, <3>1
    <3>3. membership' \in [Peer -> Infos]
      BY <2>4, <3>1
    <3>4. /\ handler' \in [Peer -> Hands]
          /\ \A q \in Peer : /\ handler'[q].pc = "idle" <=> handler'[q].infos = NoInfos
                             /\ handler'[q].pc \in {"add", "put"} <=> handler'[q].of # NoPeer
      BY <2>1, <2>2, <3>1
    <3> QED
      BY <1>12, <3>2, <3>3, <3>4 DEF Add
  <2>6. CASE ~Replaces(h.infos[h.of], messages[n][h.of])
    <3>1. handler' = [handler EXCEPT ![n] = left] /\ UNCHANGED cache
      BY <1>12, <2>6 DEF Add, left
    <3> QED
      BY <1>12, <2>3, <3>1 DEF Add
  <2> QED
    BY <2>5, <2>6
<1>13. ASSUME NEW n \in Peer, Put(n) PROVE TypeOK'
  <2> DEFINE h == handler[n]
  <2>1. /\ h \in Hands /\ h.of \in Peer /\ h.infos[h.of] \in Info
    BY <1>13 DEF Put, Hands, Infos
  <2>2. [membership[n] EXCEPT ![h.of] = h.infos[h.of]] \in Infos
    BY <2>1 DEF Infos
  <2>3. membership' \in [Peer -> Infos]
    BY <1>13, <2>2 DEF Put, PutEntry
  <2>4. [of |-> h.of, info |-> h.infos[h.of], from |-> h.from] \in Entry
    BY <2>1 DEF Entry, Hands
  <2>5. buffer' \in [Peer -> SUBSET Entry]
    BY <1>13, <2>4 DEF Put
  <2> HIDE DEF TypeOK
  <2>6. LET left == Without(h, h.of)
        IN  /\ left \in Hands /\ left.pc \in {"idle", "next"} /\ left.of = NoPeer
            /\ left.pc = "idle" <=> left.infos = NoInfos
    BY <2>1, WithoutOne, Zenon
  <2> USE DEF TypeOK
  <2>7. /\ handler' \in [Peer -> Hands]
        /\ \A q \in Peer : /\ handler'[q].pc = "idle" <=> handler'[q].infos = NoInfos
                           /\ handler'[q].pc \in {"add", "put"} <=> handler'[q].of # NoPeer
    BY <1>13, <2>6 DEF Put
  <2> QED
    BY <1>13, <2>3, <2>5, <2>7 DEF Put
<1>14. ASSUME NEW n \in Peer, Sweep(n) PROVE TypeOK'
  <2>1. \A f \in Infos, gone \in SUBSET Peer : Purged(f, gone) \in Infos
    BY InfosAreTyped DEF Purged, Infos
  <2> QED
    BY <1>14, <2>1 DEF Sweep
<1>15. ASSUME NEW n \in Peer, JoinChannel(n) PROVE TypeOK'
  BY <1>15 DEF JoinChannel
<1>16. ASSUME NEW n \in Peer, ConfigureChannel(n) PROVE TypeOK'
  <2>1. \A new \in Configuration :
            [excluded[n] EXCEPT !.todo = {p \in Peer \ {n} : messages[n][p] # None
                                                             /\ OrgOf[p] \notin new}]
                \in Exclusion
    BY DEF Exclusion
  <2> QED
    BY <1>16, <2>1 DEF ConfigureChannel
<1>17. ASSUME NEW n \in Peer, PurgeExcluded(n) PROVE TypeOK'
  <2>1. PICK p \in excluded[n].todo :
           /\ messages' = [messages EXCEPT ![n][p] = None]
           /\ membership' = [membership EXCEPT ![n][p] =
                  IF messages[n][p] = None THEN @ ELSE None]
           /\ excluded' = [excluded EXCEPT ![n] = [todo |-> @.todo \ {p}, purged |-> p]]
    BY <1>17, Zenon DEF PurgeExcluded
  <2>2. p \in Peer /\ [todo |-> excluded[n].todo \ {p}, purged |-> p] \in Exclusion
    BY <2>1 DEF Exclusion
  <2>3. /\ [messages[n] EXCEPT ![p] = None] \in Infos
        /\ [membership[n] EXCEPT ![p] = IF messages[n][p] = None THEN @ ELSE None] \in Infos
    <3>1. messages[n] \in Infos /\ membership[n] \in Infos
      OBVIOUS
    <3>2. None \in Info
      BY InfosAreTyped
    <3> HIDE DEF TypeOK, None
    <3> QED
      BY <2>2, <3>1, <3>2 DEF Infos
  <2>4. messages' \in [Peer -> Infos] /\ membership' \in [Peer -> Infos]
    BY <2>1, <2>3
  <2>5. excluded' \in [Peer -> Exclusion]
    BY <2>1, <2>2
  <2> QED
    BY <1>17, <2>4, <2>5 DEF PurgeExcluded
<1>18. ASSUME NEW n \in Peer, RemoveExcluded(n) PROVE TypeOK'
  <2>1. excluded[n].purged \in Peer /\ [excluded[n] EXCEPT !.purged = NoPeer] \in Exclusion
    BY <1>18 DEF RemoveExcluded, Exclusion
  <2>2. [membership[n] EXCEPT ![excluded[n].purged] = None] \in Infos
    BY <2>1, InfosAreTyped DEF Infos
  <2> QED
    BY <1>18, <2>1, <2>2 DEF RemoveExcluded
<1>19. ASSUME NEW n \in Peer, NEW p \in Peer, Suspect(n, p) PROVE TypeOK'
  BY <1>19 DEF Suspect
<1>20. ASSUME NEW n \in Peer, NEW p \in Peer, Resurrect(n, p) PROVE TypeOK'
  BY <1>20 DEF Resurrect
<1>21. ASSUME NEW n \in Peer, Restart(n) PROVE TypeOK'
  <2>1. NotExcluding \in Exclusion /\ [stateInfoMsg EXCEPT ![n] = None] \in Infos
    BY InfosAreTyped DEF NotExcluding, Exclusion, Infos
  <2> QED
    BY <1>21, <2>1, InfosAreTyped, IdleHands DEF Restart
<1>22. CASE UNCHANGED vars
  BY <1>22 DEF vars
<1> QED
  BY ZenonT(30), <1>1, <1>2, <1>3, <1>4, <1>5, <1>6, <1>7, <1>8, <1>9, <1>10, <1>11,
     <1>12, <1>13, <1>14, <1>15, <1>16, <1>17, <1>18, <1>19, <1>20, <1>21, <1>22
  DEF Next

-------------------------------------------------------------------------------
(* Hidden infos.                                                                *)

\* A hidden info is nowhere, so that no step has one to pass on.
LEMMA HiddenStep == ASSUME TypeOK, HiddenIsNowhere, [Next]_vars PROVE HiddenIsNowhere'
<1> SUFFICES ASSUME NEW o \in Peer, NEW s \in Peer, Hidden(o, s) PROVE Nowhere(o, s)'
  BY DEF HiddenIsNowhere, Hidden
<1> USE SMTT(20) DEF own, cache, bounds
<1>0. Nowhere(o, s)
  BY DEF HiddenIsNowhere
<1>h. handler \in [Peer -> Hands] /\ NoPeer # s
  BY StateInfoAssumption DEF TypeOK
<1>1. ASSUME NEW n \in Peer, UpdateLedgerHeight(n) PROVE Nowhere(o, s)'
  BY <1>1, <1>0 DEF UpdateLedgerHeight, UpdateProperties, PreviousLeft, Nowhere,
         TypeOK, Infos, Hidden
<1>2. ASSUME NEW n \in Peer, LeaveChannel(n) PROVE Nowhere(o, s)'
  BY <1>2, <1>0 DEF LeaveChannel, UpdateProperties, Nowhere, TypeOK, Infos, Hidden
<1>3. ASSUME NEW n \in Peer, Publish(n) PROVE Nowhere(o, s)'
  BY <1>3, <1>0 DEF Publish, Nowhere, TypeOK, Hidden
<1>4. ASSUME NEW n \in Peer, ClearFlag(n) PROVE Nowhere(o, s)'
  BY <1>4, <1>0 DEF ClearFlag, Nowhere
<1>5. ASSUME NEW n \in Peer, Emit(n) PROVE Nowhere(o, s)'
  <2>1. PICK e \in buffer[n] :
           /\ buffer' = [buffer EXCEPT ![n] = @ \ {e}]
           /\ \E to \in SUBSET (Audience(n, e.of) \ {e.from}) :
                net' = net \cup {[type |-> "info", from |-> n, to |-> m,
                                  infos |-> Only(e.of, e.info)] : m \in to}
    BY <1>5, Zenon DEF Emit
  <2>2. e.of \in Peer /\ e.info \in Info
    BY DEF TypeOK, Entry
  <2>3. e.of = s => o \notin Audience(n, e.of)
    BY <2>1 DEF HiddenIsNowhere, Nowhere, Hidden, Audience
  <2>4. e.of # s => Only(e.of, e.info)[s] = None
    BY <2>2, InfosAreTyped
  <2>5. \A m \in net' : m.to = o => m.infos[s] = None
    BY <2>1, <2>3, <2>4, <1>0 DEF Nowhere
  <2>6. buffer'[o] \subseteq buffer[o]
    BY <2>1 DEF TypeOK
  <2> QED
    BY <1>5, <2>5, <2>6, <1>0 DEF Emit, Nowhere
<1>6. ASSUME NEW n \in Peer, NEW m \in Peer, RequestStateInfo(n, m) PROVE Nowhere(o, s)'
  BY <1>6, <1>0, InfosAreTyped DEF RequestStateInfo, Nowhere
<1>7. ASSUME NEW n \in Peer, NEW m \in net, Answer(n, m) PROVE Nowhere(o, s)'
  <2>1. m.to = n /\ m \in Message
    BY <1>7 DEF Answer, Handles, TypeOK
  <2>2. m.from = o => Snapshot(n, OrgOf[m.from])[s] = None
    BY <2>1 DEF Snapshot, HiddenIsNowhere, Nowhere, Hidden
  <2>3. \A x \in net' : x.to = o => x.infos[s] = None
    BY <1>7, <2>2, <1>0 DEF Answer, Nowhere
  <2> QED
    BY <1>7, <2>3, <1>0 DEF Answer, Nowhere
<1>8. ASSUME NEW n \in Peer, NEW m \in net, Unanswered(n, m) PROVE Nowhere(o, s)'
  BY <1>8, <1>0 DEF Unanswered, Nowhere
<1>9. ASSUME NEW n \in Peer, NEW m \in net, Relay(n, m) PROVE Nowhere(o, s)'
  <2> DEFINE new == {p \in Peer : Replaces(m.infos[p], relayed[n][p])}
             seen == [p \in Peer |-> IF p \in new THEN m.infos[p] ELSE relayed[n][p]]
             due == {[of |-> p, info |-> m.infos[p], from |-> m.from] : p \in new}
  <2>1. \/ /\ relayed' = [relayed EXCEPT ![n] = seen]
           /\ buffer' = [buffer EXCEPT ![n] = @ \cup due]
        \/ UNCHANGED <<relayed, buffer>>
    BY <1>9 DEF Relay
  <2>2. m.to = n
    BY <1>9 DEF Relay
  <2>3. n = o => s \notin new
    BY <2>2, <1>0 DEF Nowhere, Replaces, None
  <2>4. n = o => seen[s] = None /\ \A e \in due : e.of # s
    BY <2>3, <1>0 DEF Nowhere
  <2> HIDE DEF seen, due
  <2>5. relayed'[o][s] = None /\ \A e \in buffer'[o] : e.of # s
    BY <2>1, <2>4, <1>0 DEF Nowhere, TypeOK
  <2>6. net' \subseteq net /\ UNCHANGED <<messages, handler>>
    BY <1>9 DEF Relay, cache
  <2> QED
    BY <2>5, <2>6, <1>0 DEF Nowhere
<1>10. ASSUME NEW n \in Peer, NEW m \in net, Receive(n, m) PROVE Nowhere(o, s)'
  <2> DEFINE h == [pc |-> "next", from |-> m.from, infos |-> m.infos, of |-> NoPeer,
                   forward |-> m.type = "info"]
  <2>1. m.to = n
    BY <1>10 DEF Receive, Handles
  <2>2. n = o => Loop(h).infos[s] = None /\ Loop(h).of # s
    BY <2>1, <1>0, InfosAreTyped, IdleHands, StateInfoAssumption DEF Nowhere, Loop
  <2>3. handler'[o].infos[s] = None /\ handler'[o].of # s
    BY <1>10, <2>2, <1>0 DEF Receive, TypeOK, Nowhere
  <2> QED
    BY <1>10, <2>3, <1>0 DEF Receive, Nowhere
<1>11. ASSUME NEW n \in Peer, NEW p \in Peer, NextInfo(n, p) PROVE Nowhere(o, s)'
  <2> DEFINE left == Without(handler[n], p)
             chosen == [handler[n] EXCEPT !.pc = "add", !.of = p]
  <2>1. handler[n] \in Hands /\ (n = o => p # s)
    BY <1>11, <1>0 DEF NextInfo, TypeOK, Nowhere
  <2>2. left.of = NoPeer /\ left.infos = [handler[n].infos EXCEPT ![p] = None]
    BY <2>1, WithoutOne, Zenon
  <2>3. n = o => left.infos[s] = None
    BY <2>1, <2>2, <1>0 DEF Hands, Infos, Nowhere
  <2>4. handler' \in {[handler EXCEPT ![n] = Idle], [handler EXCEPT ![n] = chosen],
                      [handler EXCEPT ![n] = left]}
    BY <1>11, Zenon DEF NextInfo
  <2>5. chosen.of = p /\ chosen.infos = handler[n].infos
    BY <2>1, ChosenOne, Zenon
  <2>6. Idle.of = NoPeer /\ Idle.infos[s] = None
    BY IdleHands, InfosAreTyped
  <2> HIDE DEF left, chosen
  <2>7. handler'[o].infos[s] = None /\ handler'[o].of # s
    <3>1. CASE n = o
      <4>1. /\ left.of # s /\ left.infos[s] = None
            /\ chosen.of # s /\ chosen.infos[s] = None
            /\ Idle.of # s
        BY <2>1, <2>2, <2>3, <2>5, <2>6, <1>0, <1>h, <3>1 DEF Nowhere
      <4>2. handler'[o] \in {Idle, chosen, left}
        BY <2>4, <1>h, <3>1
      <4> QED
        BY <2>6, <4>1, <4>2
    <3>2. CASE n # o
      BY <2>1, <2>2, <2>3, <2>4, <2>5, <2>6, <1>0, <1>h, <3>2 DEF Nowhere
    <3> QED
      BY <3>1, <3>2
  <2> QED
    BY <1>11, <2>7, <1>0 DEF NextInfo, Nowhere
<1>12. ASSUME NEW n \in Peer, Add(n) PROVE Nowhere(o, s)'
  <2> DEFINE h == handler[n]
             left == Without(h, h.of)
  <2>1. h \in Hands /\ h.of \in Peer /\ (n = o => h.of # s)
    BY <1>12, <1>0 DEF Add, TypeOK, Hands, Nowhere
  <2>2. left.of = NoPeer /\ left.infos = [h.infos EXCEPT ![h.of] = None]
    BY <2>1, WithoutOne, Zenon
  <2>3. n = o => left.infos[s] = None
    BY <2>1, <2>2, <1>0 DEF Hands, Infos, Nowhere
  <2>4. messages' \in {messages, [messages EXCEPT ![n][h.of] = h.infos[h.of]]}
    BY <1>12 DEF Add
  <2>5. messages'[o][s] = None
    BY <2>1, <2>4, <1>0 DEF TypeOK, Infos, Nowhere
  <2>6. handler' \in {[handler EXCEPT ![n].pc = "put"], [handler EXCEPT ![n] = left]}
    BY <1>12, Zenon DEF Add
  <2> HIDE DEF left
  <2>7. handler'[o].infos[s] = None /\ handler'[o].of # s
    <3>1. CASE n = o
      <4>1. CASE handler' = [handler EXCEPT ![n] = left]
        <5>1. handler'[o] = left /\ left.of # s /\ left.infos[s] = None
          BY <4>1, <2>2, <2>3, <1>h, <3>1
        <5> QED
          BY <5>1
      <4>2. CASE handler' = [handler EXCEPT ![n].pc = "put"]
        BY <4>2, <1>0, <1>h, <3>1 DEF Nowhere, Hands
      <4> QED
        BY <2>6, <4>1, <4>2
    <3>2. CASE n # o
      BY <2>1, <2>2, <2>3, <2>6, <1>0, <1>h, <3>2 DEF Nowhere
    <3> QED
      BY <3>1, <3>2
  <2> QED
    BY <1>12, <2>5, <2>7, <1>0 DEF Add, Nowhere
<1>13. ASSUME NEW n \in Peer, Put(n) PROVE Nowhere(o, s)'
  <2> DEFINE h == handler[n]
             left == Without(h, h.of)
  <2>1. h \in Hands /\ h.of \in Peer /\ (n = o => h.of # s)
    BY <1>13, <1>0 DEF Put, TypeOK, Hands, Nowhere
  <2>2. left.of = NoPeer /\ left.infos = [h.infos EXCEPT ![h.of] = None]
    BY <2>1, WithoutOne, Zenon
  <2>3. n = o => left.infos[s] = None
    BY <2>1, <2>2, <1>0 DEF Hands, Infos, Nowhere
  <2>4. handler' = [handler EXCEPT ![n] = left]
    BY <1>13 DEF Put
  <2> HIDE DEF left
  <2>5. handler'[o].infos[s] = None /\ handler'[o].of # s
    <3>1. CASE n = o
      <4>1. handler'[o] = left /\ left.of # s /\ left.infos[s] = None
        BY <2>2, <2>3, <2>4, <1>h, <3>1
      <4> QED
        BY <4>1
    <3>2. CASE n # o
      BY <2>2, <2>3, <2>4, <1>0, <1>h, <3>2 DEF Nowhere
    <3> QED
      BY <3>1, <3>2
  <2>6. \A e \in buffer'[o] : e.of # s
    BY <1>13, <2>1, <1>0 DEF Put, TypeOK, Nowhere
  <2> QED
    BY <1>13, <2>5, <2>6, <1>0 DEF Put, Nowhere
<1>14. ASSUME NEW n \in Peer, Sweep(n) PROVE Nowhere(o, s)'
  BY <1>14, <1>0, InfosAreTyped DEF Sweep, Purged, Nowhere, TypeOK, Infos
<1>15. ASSUME NEW n \in Peer, JoinChannel(n) PROVE Nowhere(o, s)'
  BY <1>15, <1>0 DEF JoinChannel, Nowhere
<1>16. ASSUME NEW n \in Peer, ConfigureChannel(n) PROVE Nowhere(o, s)'
  BY <1>16, <1>0 DEF ConfigureChannel, Nowhere
<1>17. ASSUME NEW n \in Peer, PurgeExcluded(n) PROVE Nowhere(o, s)'
  BY <1>17, <1>0, InfosAreTyped DEF PurgeExcluded, Nowhere, TypeOK, Infos
<1>18. ASSUME NEW n \in Peer, RemoveExcluded(n) PROVE Nowhere(o, s)'
  BY <1>18, <1>0 DEF RemoveExcluded, Nowhere
<1>19. ASSUME NEW n \in Peer, NEW p \in Peer, Suspect(n, p) PROVE Nowhere(o, s)'
  BY <1>19, <1>0 DEF Suspect, Nowhere
<1>20. ASSUME NEW n \in Peer, NEW p \in Peer, Resurrect(n, p) PROVE Nowhere(o, s)'
  BY <1>20, <1>0 DEF Resurrect, Nowhere
<1>21. ASSUME NEW n \in Peer, Restart(n) PROVE Nowhere(o, s)'
  BY <1>21, <1>0, InfosAreTyped, IdleHands, StateInfoAssumption DEF Restart, Nowhere,
         TypeOK
<1>22. CASE UNCHANGED vars
  BY <1>22, <1>0 DEF vars, Nowhere
<1> QED
  BY ZenonT(30), <1>1, <1>2, <1>3, <1>4, <1>5, <1>6, <1>7, <1>8, <1>9, <1>10, <1>11,
     <1>12, <1>13, <1>14, <1>15, <1>16, <1>17, <1>18, <1>19, <1>20, <1>21, <1>22
  DEF Next

-------------------------------------------------------------------------------
(* The cache.                                                                   *)

\* Only the first configuration takes organisations out of a channel of all.
LEMMA ConfigurationsStep ==
    ASSUME TypeOK, AllBeforeConfiguring, [Next]_vars PROVE AllBeforeConfiguring'
<1> USE SMTT(20) DEF AllBeforeConfiguring, TypeOK, own, cache, bounds
<1>1. ASSUME NEW n \in Peer, UpdateLedgerHeight(n) PROVE AllBeforeConfiguring'
  BY <1>1 DEF UpdateLedgerHeight
<1>2. ASSUME NEW n \in Peer, LeaveChannel(n) PROVE AllBeforeConfiguring'
  BY <1>2 DEF LeaveChannel
<1>3. ASSUME NEW n \in Peer, Publish(n) PROVE AllBeforeConfiguring'
  BY <1>3 DEF Publish
<1>4. ASSUME NEW n \in Peer, ClearFlag(n) PROVE AllBeforeConfiguring'
  BY <1>4 DEF ClearFlag
<1>5. ASSUME NEW n \in Peer, Emit(n) PROVE AllBeforeConfiguring'
  BY <1>5 DEF Emit
<1>6. ASSUME NEW n \in Peer, NEW m \in Peer, RequestStateInfo(n, m)
      PROVE  AllBeforeConfiguring'
  BY <1>6 DEF RequestStateInfo
<1>7. ASSUME NEW n \in Peer, NEW m \in net, Answer(n, m) PROVE AllBeforeConfiguring'
  BY <1>7 DEF Answer
<1>8. ASSUME NEW n \in Peer, NEW m \in net, Unanswered(n, m) PROVE AllBeforeConfiguring'
  BY <1>8 DEF Unanswered
<1>9. ASSUME NEW n \in Peer, NEW m \in net, Relay(n, m) PROVE AllBeforeConfiguring'
  BY <1>9 DEF Relay
<1>10. ASSUME NEW n \in Peer, NEW m \in net, Receive(n, m) PROVE AllBeforeConfiguring'
  BY <1>10 DEF Receive
<1>11. ASSUME NEW n \in Peer, NEW p \in Peer, NextInfo(n, p) PROVE AllBeforeConfiguring'
  BY <1>11 DEF NextInfo
<1>12. ASSUME NEW n \in Peer, Add(n) PROVE AllBeforeConfiguring'
  BY <1>12 DEF Add
<1>13. ASSUME NEW n \in Peer, Put(n) PROVE AllBeforeConfiguring'
  BY <1>13 DEF Put
<1>14. ASSUME NEW n \in Peer, Sweep(n) PROVE AllBeforeConfiguring'
  BY <1>14 DEF Sweep
<1>15. ASSUME NEW n \in Peer, JoinChannel(n) PROVE AllBeforeConfiguring'
  BY <1>15 DEF JoinChannel
<1>16. ASSUME NEW n \in Peer, ConfigureChannel(n) PROVE AllBeforeConfiguring'
  BY <1>16 DEF ConfigureChannel
<1>17. ASSUME NEW n \in Peer, PurgeExcluded(n) PROVE AllBeforeConfiguring'
  BY <1>17 DEF PurgeExcluded
<1>18. ASSUME NEW n \in Peer, RemoveExcluded(n) PROVE AllBeforeConfiguring'
  BY <1>18 DEF RemoveExcluded
<1>19. ASSUME NEW n \in Peer, NEW p \in Peer, Suspect(n, p) PROVE AllBeforeConfiguring'
  BY <1>19 DEF Suspect
<1>20. ASSUME NEW n \in Peer, NEW p \in Peer, Resurrect(n, p)
       PROVE  AllBeforeConfiguring'
  BY <1>20 DEF Resurrect
<1>21. ASSUME NEW n \in Peer, Restart(n) PROVE AllBeforeConfiguring'
  BY <1>21 DEF Restart
<1>22. CASE UNCHANGED vars
  BY <1>22 DEF vars
<1> QED
  BY ZenonT(30), <1>1, <1>2, <1>3, <1>4, <1>5, <1>6, <1>7, <1>8, <1>9, <1>10, <1>11,
     <1>12, <1>13, <1>14, <1>15, <1>16, <1>17, <1>18, <1>19, <1>20, <1>21, <1>22
  DEF Next

\* Every step keeps the cache in order, when the channel is configured at most once.
LEMMA CacheStep ==
    ASSUME MaxConfigurations <= 1, TypeOK, CacheInv, [Next]_vars PROVE CacheInv'
<1> SUFFICES ASSUME NEW o \in Peer, NEW q \in Peer PROVE InOrder(o, q)'
  BY ConfigurationsStep DEF CacheInv
<1> USE SMTT(20) DEF own, cache, bounds
<1>0. InOrder(o, q)
  BY DEF CacheInv
<1>t. /\ orgs \in [Peer -> SUBSET Org] /\ handler \in [Peer -> Hands]
      /\ excluded \in [Peer -> Exclusion]
      /\ messages \in [Peer -> [Peer -> Info]] /\ membership \in [Peer -> [Peer -> Info]]
  BY DEF TypeOK, Infos
<1>1. ASSUME NEW n \in Peer, UpdateLedgerHeight(n) PROVE InOrder(o, q)'
  BY <1>1, <1>0, <1>t DEF UpdateLedgerHeight, UpdateProperties, PreviousLeft, InOrder
<1>2. ASSUME NEW n \in Peer, LeaveChannel(n) PROVE InOrder(o, q)'
  BY <1>2, <1>0, <1>t DEF LeaveChannel, UpdateProperties, InOrder
<1>3. ASSUME NEW n \in Peer, Publish(n) PROVE InOrder(o, q)'
  BY <1>3, <1>0, <1>t DEF Publish, InOrder
<1>4. ASSUME NEW n \in Peer, ClearFlag(n) PROVE InOrder(o, q)'
  BY <1>4, <1>0, <1>t DEF ClearFlag, InOrder
<1>5. ASSUME NEW n \in Peer, Emit(n) PROVE InOrder(o, q)'
  BY <1>5, <1>0, <1>t DEF Emit, InOrder
<1>6. ASSUME NEW n \in Peer, NEW m \in Peer, RequestStateInfo(n, m) PROVE InOrder(o, q)'
  BY <1>6, <1>0, <1>t DEF RequestStateInfo, InOrder
<1>7. ASSUME NEW n \in Peer, NEW m \in net, Answer(n, m) PROVE InOrder(o, q)'
  BY <1>7, <1>0, <1>t DEF Answer, InOrder
<1>8. ASSUME NEW n \in Peer, NEW m \in net, Unanswered(n, m) PROVE InOrder(o, q)'
  BY <1>8, <1>0, <1>t DEF Unanswered, InOrder
<1>9. ASSUME NEW n \in Peer, NEW m \in net, Relay(n, m) PROVE InOrder(o, q)'
  BY <1>9, <1>0, <1>t DEF Relay, InOrder
<1>10. ASSUME NEW n \in Peer, NEW m \in net, Receive(n, m) PROVE InOrder(o, q)'
  <2> DEFINE h == [pc |-> "next", from |-> m.from, infos |-> m.infos, of |-> NoPeer,
                   forward |-> m.type = "info"]
  <2>1. Loop(h).pc \in {"idle", "next"} /\ orgs[n] # {}
    BY <1>10, IdleHands DEF Loop, Receive, Handles, NoChannel
  <2>2. handler' = [handler EXCEPT ![n] = Loop(h)] /\ handler[n] = Idle
    BY <1>10 DEF Receive, Handles
  <2> HIDE DEF h
  <2>3. UNCHANGED <<orgs, excluded, messages, membership>>
    BY <1>10 DEF Receive
  <2>4. CASE n = o
    <3>1. handler'[o].pc # "put" /\ orgs'[o] # {}
      BY <2>1, <2>2, <2>3, <2>4, <1>t
    <3> QED
      BY <2>2, <2>3, <2>4, <3>1, <1>0, <1>t, IdleHands DEF InOrder
  <2>5. CASE n # o
    BY <2>2, <2>3, <2>5, <1>0, <1>t DEF InOrder
  <2> QED
    BY <2>4, <2>5
<1>11. ASSUME NEW n \in Peer, NEW p \in Peer, NextInfo(n, p) PROVE InOrder(o, q)'
  <2> DEFINE left == Without(handler[n], p)
             chosen == [handler[n] EXCEPT !.pc = "add", !.of = p]
  <2>1. handler[n] \in Hands /\ handler[n].pc = "next"
    BY <1>11, <1>t DEF NextInfo
  <2>2. left.pc \in {"idle", "next"} /\ chosen.pc = "add" /\ Idle.pc = "idle"
    <3>1. left.pc \in {"idle", "next"}
      BY <2>1, WithoutOne, Zenon
    <3>2. chosen.pc = "add"
      BY <2>1, ChosenOne, Zenon
    <3> QED
      BY <3>1, <3>2, IdleHands, Zenon
  <2>3. handler' \in {[handler EXCEPT ![n] = Idle], [handler EXCEPT ![n] = chosen],
                      [handler EXCEPT ![n] = left]}
    BY <1>11, Zenon DEF NextInfo
  <2> HIDE DEF left, chosen
  <2>4. n = o => handler'[o].pc # "put" /\ orgs[o] # {}
    BY <2>1, <2>2, <2>3, <1>0, <1>t, IdleHands DEF InOrder
  <2>5. n # o => handler'[o] = handler[o]
    BY <2>3, <1>t
  <2>6. handler[n].pc # "put"
    BY <2>1
  <2> QED
    BY <1>11, <2>4, <2>5, <2>6, <1>0, <1>t DEF NextInfo, InOrder
<1>12. ASSUME NEW n \in Peer, Add(n) PROVE InOrder(o, q)'
  <2> DEFINE h == handler[n]
             left == Without(h, h.of)
             added == [h EXCEPT !.pc = "put"]
  <2>1. h \in Hands /\ h.pc = "add" /\ h.of \in Peer
    BY <1>12, TypeOK DEF Add, TypeOK, Hands
  <2>2. orgs[n] # {}
    BY <2>1, IdleHands DEF CacheInv, InOrder
  <2>3. /\ left.pc \in {"idle", "next"}
        /\ added.pc = "put" /\ added.of = h.of /\ added.infos = h.infos
    BY <2>1, WithoutOne, Zenon DEF Hands
  <2>4. CASE Replaces(h.infos[h.of], messages[n][h.of])
    <3>1. /\ messages' = [messages EXCEPT ![n][h.of] = h.infos[h.of]]
          /\ membership' = [membership EXCEPT ![n][h.of] =
                 IF messages[n][h.of] = None THEN @ ELSE None]
          /\ handler' = [handler EXCEPT ![n] = added]
      BY <1>12, <2>4 DEF Add
    <3> QED
      BY <1>12, <2>1, <2>2, <2>3, <3>1, <1>0, <1>t DEF Add, InOrder
  <2>5. CASE ~Replaces(h.infos[h.of], messages[n][h.of])
    <3>1. handler' = [handler EXCEPT ![n] = left] /\ UNCHANGED cache
      BY <1>12, <2>5 DEF Add
    <3> QED
      BY <1>12, <2>1, <2>2, <2>3, <3>1, <1>0, <1>t DEF Add, InOrder
  <2> QED
    BY <2>4, <2>5
<1>13. ASSUME NEW n \in Peer, Put(n) PROVE InOrder(o, q)'
  <2> DEFINE h == handler[n]
             left == Without(h, h.of)
  <2>1. h \in Hands /\ h.pc = "put" /\ h.of \in Peer
    BY <1>13, TypeOK DEF Put, TypeOK, Hands
  <2>2. orgs[n] # {}
    BY <2>1, IdleHands DEF CacheInv, InOrder
  <2>3. left.pc \in {"idle", "next"}
    BY <2>1, WithoutOne, Zenon
  <2>4. /\ handler' = [handler EXCEPT ![n] = left]
        /\ membership' = [membership EXCEPT ![n][h.of] = h.infos[h.of]]
    BY <1>13 DEF Put, PutEntry
  <2> HIDE DEF left
  <2>5. handler'[n] = left /\ (n # o => handler'[o] = handler[o])
    BY <2>4, <1>t
  <2> QED
    BY <1>13, <2>1, <2>2, <2>3, <2>4, <2>5, <1>0, <1>t DEF Put, InOrder
<1>14. ASSUME NEW n \in Peer, Sweep(n) PROVE InOrder(o, q)'
  BY <1>14, <1>0, <1>t DEF Sweep, Purged, InOrder
<1>15. ASSUME NEW n \in Peer, JoinChannel(n) PROVE InOrder(o, q)'
  BY <1>15, <1>0, <1>t, IdleHands, StateInfoAssumption DEF JoinChannel, InOrder, NotExcluding
<1>16. ASSUME NEW n \in Peer, ConfigureChannel(n) PROVE InOrder(o, q)'
  <2>1. configurations = 0
    <3>1. configurations \in 0 .. MaxConfigurations /\ MaxConfigurations \in Nat
      BY StateInfoAssumption DEF TypeOK
    <3>2. configurations < MaxConfigurations
      BY <1>16 DEF ConfigureChannel
    <3> QED
      BY <3>1, <3>2
  <2>2. orgs[n] = Org
    BY <1>16, <2>1 DEF ConfigureChannel, CacheInv, AllBeforeConfiguring
  <2>3. PICK new \in Configuration :
           /\ orgs' = [orgs EXCEPT ![n] = new]
           /\ excluded' = [excluded EXCEPT ![n] = [@ EXCEPT !.todo =
                  {p \in Peer \ {n} : messages[n][p] # None /\ OrgOf[p] \notin new}]]
    BY <1>16, Zenon DEF ConfigureChannel
  <2>4. new # {} /\ OrgOf[q] \in Org /\ NoPeer # q
    BY StateInfoAssumption
  <2>5. excluded[n] = NotExcluding /\ UNCHANGED <<handler, messages, membership>>
    BY <1>16 DEF ConfigureChannel, Unlocked
  <2>6. CASE n = o
    <3>1. /\ orgs'[o] = new /\ excluded'[o].purged = NoPeer
          /\ q \in excluded'[o].todo => OrgOf[q] \notin new
      BY <2>3, <2>5, <2>6, <1>t DEF NotExcluding
    <3> QED
      BY <2>2, <2>4, <2>5, <2>6, <3>1, <1>0 DEF InOrder
  <2>7. CASE n # o
    BY <2>3, <2>5, <2>7, <1>0, <1>t DEF InOrder
  <2> QED
    BY <2>6, <2>7
<1>17. ASSUME NEW n \in Peer, PurgeExcluded(n) PROVE InOrder(o, q)'
  <2>1. PICK p \in excluded[n].todo :
           /\ messages' = [messages EXCEPT ![n][p] = None]
           /\ membership' = [membership EXCEPT ![n][p] =
                  IF messages[n][p] = None THEN @ ELSE None]
           /\ excluded' = [excluded EXCEPT ![n] = [todo |-> @.todo \ {p}, purged |-> p]]
    BY <1>17, Zenon DEF PurgeExcluded
  <2>2. p \in Peer /\ UNCHANGED <<orgs, handler>>
    BY <1>17, <1>t DEF PurgeExcluded, Exclusion
  <2>3. CASE n = o
    <3>1. /\ excluded'[o].todo \subseteq excluded[o].todo /\ excluded'[o].purged = p
          /\ messages'[o][q] = IF p = q THEN None ELSE messages[o][q]
          /\ p # q => membership'[o][q] = membership[o][q]
      BY <2>1, <2>2, <2>3, <1>t
    <3>2. orgs[o] # {}
      BY <2>1, <2>3, <1>0 DEF InOrder, NotExcluding
    <3> QED
      BY <2>1, <2>2, <2>3, <3>1, <3>2, <1>0 DEF InOrder
  <2>4. CASE n # o
    BY <2>1, <2>2, <2>4, <1>0, <1>t DEF InOrder
  <2> QED
    BY <2>3, <2>4
<1>18. ASSUME NEW n \in Peer, RemoveExcluded(n) PROVE InOrder(o, q)'
  <2> DEFINE p == excluded[n].purged
  <2>1. /\ p \in Peer
        /\ membership' = [membership EXCEPT ![n][p] = None]
        /\ excluded' = [excluded EXCEPT ![n] = [@ EXCEPT !.purged = NoPeer]]
        /\ UNCHANGED <<orgs, handler, messages>>
    BY <1>18, <1>t DEF RemoveExcluded, Exclusion
  <2>2. CASE n = o
    <3>1. /\ excluded'[o].todo = excluded[o].todo /\ excluded'[o].purged = NoPeer
          /\ p # q => membership'[o][q] = membership[o][q]
      BY <2>1, <2>2, <1>t DEF Exclusion
    <3>2. orgs[o] # {} /\ NoPeer # q
      BY <2>1, <2>2, <1>0, StateInfoAssumption DEF InOrder, NotExcluding
    <3> QED
      BY <2>1, <2>2, <3>1, <3>2, <1>0 DEF InOrder
  <2>3. CASE n # o
    BY <2>1, <2>3, <1>0, <1>t DEF InOrder
  <2> QED
    BY <2>2, <2>3
<1>19. ASSUME NEW n \in Peer, NEW p \in Peer, Suspect(n, p) PROVE InOrder(o, q)'
  BY <1>19, <1>0, <1>t DEF Suspect, InOrder
<1>20. ASSUME NEW n \in Peer, NEW p \in Peer, Resurrect(n, p) PROVE InOrder(o, q)'
  BY <1>20, <1>0, <1>t DEF Resurrect, InOrder
<1>21. ASSUME NEW n \in Peer, Restart(n) PROVE InOrder(o, q)'
  <2>1. CASE n = o
    <3>1. /\ messages'[o] = NoInfos /\ handler'[o] = Idle /\ excluded'[o] = NotExcluding
      BY <1>21, <2>1, <1>t DEF Restart
    <3> QED
      BY <3>1, IdleHands, InfosAreTyped, StateInfoAssumption DEF InOrder, NotExcluding
  <2>2. CASE n # o
    BY <1>21, <2>2, <1>0, <1>t DEF Restart, InOrder
  <2> QED
    BY <2>1, <2>2
<1>22. CASE UNCHANGED vars
  BY <1>22, <1>0 DEF vars, InOrder
<1> QED
  BY ZenonT(30), <1>1, <1>2, <1>3, <1>4, <1>5, <1>6, <1>7, <1>8, <1>9, <1>10, <1>11,
     <1>12, <1>13, <1>14, <1>15, <1>16, <1>17, <1>18, <1>19, <1>20, <1>21, <1>22
  DEF Next

-------------------------------------------------------------------------------
(* What holds of every behaviour.                                               *)

\* Before anything: every cache is empty and nothing is under way.
LEMMA InitInv == Init => IInv /\ CacheInv
<1> SUFFICES ASSUME Init PROVE IInv /\ CacheInv
  OBVIOUS
<1> USE StateInfoAssumption, InfosAreTyped, IdleHands DEF Init
<1>1. NotExcluding \in Exclusion
  BY DEF NotExcluding, Exclusion
<1>2. TypeOK
  BY <1>1 DEF TypeOK
<1>3. HiddenIsNowhere
  BY DEF HiddenIsNowhere, Nowhere
<1>4. CacheInv
  BY DEF CacheInv, AllBeforeConfiguring, InOrder, NotExcluding
<1> QED
  BY <1>2, <1>3, <1>4 DEF IInv

\* The inductive invariant holds in every reachable state.
THEOREM Invariance == Spec => []IInv
<1>1. IInv /\ [Next]_vars => IInv'
  BY TypesStep, HiddenStep DEF IInv
<1> QED
  BY <1>1, InitInv, PTL DEF Spec

\* Messages, entries and the handler's hands have their form, and no bound is passed.
THEOREM TypeCorrect == Spec => []TypeOK
<1>1. IInv => TypeOK
  BY DEF IInv
<1> QED
  BY <1>1, Invariance, PTL

\* No gossip, forward, relay or snapshot takes the info of a peer without an external
\* endpoint to another organisation.
THEOREM HiddenAlwaysHome == Spec => []HiddenStaysHome
<1>1. IInv => HiddenStaysHome
  BY DEF IInv, HiddenIsNowhere, Nowhere, Hidden, HiddenStaysHome
<1> QED
  BY <1>1, Invariance, PTL

\* The two stores of the cache agree, as long as the organisations of a channel change
\* at most once: a second change may readmit a peer whose info was added during its
\* removal, and that only the membership store has lost.
THEOREM CacheAlwaysAgrees ==
    ASSUME MaxConfigurations <= 1 PROVE Spec => []CacheAgrees
<1>1. IInv /\ CacheInv /\ [Next]_vars => CacheInv'
  BY CacheStep DEF IInv
<1>2. CacheInv => CacheAgrees
  BY DEF CacheInv, InOrder, CacheAgrees
<1> QED
  BY <1>1, <1>2, InitInv, Invariance, PTL DEF Spec
===============================================================================
