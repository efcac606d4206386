---------------------------- MODULE DiscoveryProofs ----------------------------
(* Proofs about Discovery, for any set of peers, incarnations and sequence     *)
(* numbers.                                                                    *)
(*                                                                             *)
(* The safety argument is one induction.  TablesAgree alone is not inductive:  *)
(* that LearnAlive leaves the tables in agreement depends on what the handler  *)
(* found out some steps before, which is HandlerInv; and HandlerInv survives   *)
(* the failure detectors and the expiration because of TablesAgree.  Timestamps *)
(* are never unfolded before ViewSetAlive: Before is just a relation.          *)
EXTENDS Discovery, TLAPS

-------------------------------------------------------------------------------
(* The inductive invariant.                                                    *)

StateTyped ==
    /\ TablesTyped
    /\ HandlerTyped
    /\ deadFound \subseteq Peer
    /\ presumedDead \subseteq Peer

PanicInv == panicked \in BOOLEAN /\ AliveMessageNeverPanics

IInv == StateTyped /\ TablesAgree /\ HandlerInv /\ PanicInv

\* Before any message: the tables and the store are empty, the handler is idle.
LEMMA InitIInv == Init => IInv
<1> SUFFICES ASSUME Init PROVE IInv
  OBVIOUS
<1> USE DEF Init
<1>1. StateTyped
  BY DiscoveryAssumption DEF StateTyped, TablesTyped, HandlerTyped, MaybeTime, Alive
<1>2. PanicInv
  BY Zenon DEF PanicInv, AliveMessageNeverPanics
<1>3. TablesAgree
  BY DiscoveryAssumption DEF TablesAgree, Alive, Dead
<1>4. HandlerInv
  BY DEF HandlerInv, Alive, Deciding
<1> QED
  BY <1>1, <1>2, <1>3, <1>4 DEF IInv

\* Every step keeps the maps maps and the handler's registers in step.
LEMMA TypesStep == ASSUME StateTyped, [Next]_vars PROVE StateTyped'
<1> USE DiscoveryAssumption, SMTT(20)
    DEF StateTyped, TablesTyped, HandlerTyped, MaybeTime, Alive, AliveMsg,
        Running, tables, store, handler, detectors
<1>1. CASE ReceiveAlive
  BY <1>1 DEF ReceiveAlive, AddToStore, Handle
<1>2. CASE ReceiveMemReq
  BY <1>2 DEF ReceiveMemReq, Handle
<1>3. CASE ReceiveMemRes
  BY <1>3 DEF ReceiveMemRes
<1>4. CASE NextAliveEntry
  BY <1>4 DEF NextAliveEntry, Handle
<1>5. CASE AliveEntriesDone
  BY <1>5 DEF AliveEntriesDone
<1>6. CASE NextDeadEntry
  BY <1>6 DEF NextDeadEntry
<1>7. CASE MemResDone
  BY <1>7 DEF MemResDone
<1>8. CASE CheckKnown
  BY <1>8 DEF CheckKnown, Return, Goto
<1>9. CASE CheckStatus
  BY <1>9 DEF CheckStatus, Return, Goto
<1>10. CASE Resurrect
  BY <1>10 DEF Resurrect, SetAlive, Goto
<1>11. CASE Recheck
  BY <1>11 DEF Recheck, Return, Goto
<1>12. CASE Refresh
  BY <1>12 DEF Refresh, SetAlive, Return
<1>13. CASE LearnAlive
  BY <1>13 DEF LearnAlive, SetAlive, Return
<1>14. CASE CheckDeadKnown
  BY <1>14 DEF CheckDeadKnown, Goto
<1>15. CASE LearnDead
  BY <1>15 DEF LearnDead, SetDead
<1>16. ASSUME NEW p \in Peer, Age(p) PROVE StateTyped'
  BY <1>16 DEF Age
<1>17. ASSUME NEW p \in Peer, PresumeDead(p) PROVE StateTyped'
  BY <1>17 DEF PresumeDead
<1>18. CASE CheckAlive
  BY <1>18 DEF CheckAlive, GetDeadMembers
<1>19. CASE ExpireFound
  BY <1>19 DEF ExpireFound, ExpireDeadMembers
<1>20. CASE ExpirePresumed
  BY <1>20 DEF ExpirePresumed, ExpireDeadMembers
<1>21. ASSUME NEW E \in SUBSET Peer, NEW D \in SUBSET Peer,
              ExpireMessages(E, D)
       PROVE  StateTyped'
  BY <1>21 DEF ExpireMessages, Forget, MayExpire, Bury
<1>22. CASE UNCHANGED vars
  BY <1>22 DEF vars
<1>23. QED
  BY ZenonT(30), <1>1, <1>2, <1>3, <1>4, <1>5, <1>6, <1>7, <1>8, <1>9, <1>10, <1>11,
     <1>12, <1>13, <1>14, <1>15, <1>16, <1>17, <1>18, <1>19, <1>20,
     <1>21, <1>22
  DEF Next, HandleMessages

\* Every critical section leaves the five tables in agreement.
LEMMA TablesStep ==
    ASSUME StateTyped, StateTyped', TablesAgree, HandlerInv, [Next]_vars
    PROVE  TablesAgree'
<1> USE DiscoveryAssumption, SMTT(20)
    DEF StateTyped, TablesTyped, HandlerTyped, MaybeTime, Alive, Dead, AliveMsg,
        Running, TablesAgree, HandlerInv, Deciding, tables, store, handler,
        detectors
<1>1. CASE ReceiveAlive
  BY <1>1 DEF ReceiveAlive, AddToStore, Handle
<1>2. CASE ReceiveMemReq
  BY <1>2 DEF ReceiveMemReq, Handle
<1>3. CASE ReceiveMemRes
  BY <1>3 DEF ReceiveMemRes
<1>4. CASE NextAliveEntry
  BY <1>4 DEF NextAliveEntry, Handle
<1>5. CASE AliveEntriesDone
  BY <1>5 DEF AliveEntriesDone
<1>6. CASE NextDeadEntry
  BY <1>6 DEF NextDeadEntry
<1>7. CASE MemResDone
  BY <1>7 DEF MemResDone
<1>8. CASE CheckKnown
  BY <1>8 DEF CheckKnown, Return, Goto
<1>9. CASE CheckStatus
  BY <1>9 DEF CheckStatus, Return, Goto
<1>10. CASE Resurrect
  BY <1>10 DEF Resurrect, SetAlive, Goto
<1>11. CASE Recheck
  BY <1>11 DEF Recheck, Return, Goto
<1>12. CASE Refresh
  BY <1>12 DEF Refresh, SetAlive, Return
<1>13. CASE LearnAlive
  BY <1>13 DEF LearnAlive, SetAlive, Return
<1>14. CASE CheckDeadKnown
  BY <1>14 DEF CheckDeadKnown, Goto
<1>15. CASE LearnDead
  BY <1>15 DEF LearnDead, SetDead
<1>16. ASSUME NEW p \in Peer, Age(p) PROVE TablesAgree'
  BY <1>16 DEF Age
<1>17. ASSUME NEW p \in Peer, PresumeDead(p) PROVE TablesAgree'
  BY <1>17 DEF PresumeDead
<1>18. CASE CheckAlive
  BY <1>18 DEF CheckAlive, GetDeadMembers
<1>19. CASE ExpireFound
  BY <1>19 DEF ExpireFound, ExpireDeadMembers
<1>20. CASE ExpirePresumed
  BY <1>20 DEF ExpirePresumed, ExpireDeadMembers
<1>21. ASSUME NEW E \in SUBSET Peer, NEW D \in SUBSET Peer,
              ExpireMessages(E, D)
       PROVE  TablesAgree'
  BY <1>21 DEF ExpireMessages, Forget, MayExpire, Bury
<1>22. CASE UNCHANGED vars
  BY <1>22 DEF vars
<1>23. QED
  BY ZenonT(30), <1>1, <1>2, <1>3, <1>4, <1>5, <1>6, <1>7, <1>8, <1>9, <1>10, <1>11,
     <1>12, <1>13, <1>14, <1>15, <1>16, <1>17, <1>18, <1>19, <1>20,
     <1>21, <1>22
  DEF Next, HandleMessages

\* No other goroutine takes away what the handler found out.
LEMMA HandlerStep ==
    ASSUME StateTyped, StateTyped', TablesAgree, TablesAgree', HandlerInv, [Next]_vars
    PROVE  HandlerInv'
<1> USE DiscoveryAssumption, SMTT(20)
    DEF StateTyped, TablesTyped, HandlerTyped, MaybeTime, Alive, Dead, AliveMsg,
        Running, TablesAgree, HandlerInv, Deciding, CheckValid, tables, store, handler,
        detectors
<1>1. CASE ReceiveAlive
  BY <1>1 DEF ReceiveAlive, AddToStore, Handle
<1>2. CASE ReceiveMemReq
  BY <1>2 DEF ReceiveMemReq, Handle
<1>3. CASE ReceiveMemRes
  BY <1>3 DEF ReceiveMemRes
<1>4. CASE NextAliveEntry
  BY <1>4 DEF NextAliveEntry, Handle
<1>5. CASE AliveEntriesDone
  BY <1>5 DEF AliveEntriesDone
<1>6. CASE NextDeadEntry
  BY <1>6 DEF NextDeadEntry
<1>7. CASE MemResDone
  BY <1>7 DEF MemResDone
<1>8. CASE CheckKnown
  BY <1>8 DEF CheckKnown, Return, Goto
<1>9. CASE CheckStatus
  BY <1>9 DEF CheckStatus, Return, Goto
<1>10. CASE Resurrect
  BY <1>10 DEF Resurrect, SetAlive, Goto
<1>11. CASE Recheck
  BY <1>11 DEF Recheck, Return, Goto
<1>12. CASE Refresh
  BY <1>12 DEF Refresh, SetAlive, Return
<1>13. CASE LearnAlive
  BY <1>13 DEF LearnAlive, SetAlive, Return
<1>14. CASE CheckDeadKnown
  BY <1>14 DEF CheckDeadKnown, Goto
<1>15. CASE LearnDead
  BY <1>15 DEF LearnDead, SetDead
<1>16. ASSUME NEW p \in Peer, Age(p) PROVE HandlerInv'
  BY <1>16 DEF Age
<1>17. ASSUME NEW p \in Peer, PresumeDead(p) PROVE HandlerInv'
  BY <1>17 DEF PresumeDead
<1>18. CASE CheckAlive
  BY <1>18 DEF CheckAlive, GetDeadMembers
<1>19. CASE ExpireFound
  BY <1>19 DEF ExpireFound, ExpireDeadMembers
<1>20. CASE ExpirePresumed
  BY <1>20 DEF ExpirePresumed, ExpireDeadMembers
<1>21. ASSUME NEW E \in SUBSET Peer, NEW D \in SUBSET Peer,
              ExpireMessages(E, D)
       PROVE  HandlerInv'
  BY <1>21 DEF ExpireMessages, Forget, MayExpire, Bury
<1>22. CASE UNCHANGED vars
  BY <1>22 DEF vars
<1>23. QED
  BY ZenonT(30), <1>1, <1>2, <1>3, <1>4, <1>5, <1>6, <1>7, <1>8, <1>9, <1>10, <1>11,
     <1>12, <1>13, <1>14, <1>15, <1>16, <1>17, <1>18, <1>19, <1>20,
     <1>21, <1>22
  DEF Next, HandleMessages

\* Only Refresh can panic, and not on a gossiped alive message: its record is
\* there.  The records expireDeadMembers collects are there too.
LEMMA PanicStep == ASSUME IInv, [Next]_vars PROVE PanicInv'
<1>0. StateTyped /\ TablesAgree /\ HandlerInv /\ PanicInv
  BY DEF IInv
<1>1. CASE Running
  BY <1>1, Zenon DEF Running, PanicInv, AliveMessageNeverPanics
<1>2. CASE Refresh
  <2>1. CASE panicked'
    <3>1. via # "alive" /\ via' = via
      BY <1>0, <1>2, <2>1
      DEF Refresh, TablesAgree, HandlerInv, Deciding, StateTyped, HandlerTyped,
          TablesTyped, AliveMsg, Alive, Dead, handler, PanicInv, AliveMessageNeverPanics
    <3>2. panicked' \in BOOLEAN
      BY <1>0, <1>2, Zenon DEF Refresh, PanicInv
    <3> QED
      BY <3>1, <3>2 DEF PanicInv, AliveMessageNeverPanics
  <2> QED
    BY <1>0, <1>2, <2>1, Zenon DEF Refresh, PanicInv, AliveMessageNeverPanics
<1>3. ASSUME NEW S \in SUBSET Peer, ExpireDeadMembers(S) PROVE PanicInv'
  <2>1. S \cap Alive \subseteq id2Member
    BY <1>0 DEF TablesAgree
  <2>2. ~panicked' /\ panicked' \in BOOLEAN
    BY <1>3, <2>1, Zenon DEF ExpireDeadMembers
  <2> QED
    BY <2>2 DEF PanicInv, AliveMessageNeverPanics
<1>4. CASE UNCHANGED vars
  BY <1>0, <1>4 DEF vars, handler, PanicInv, AliveMessageNeverPanics
<1> QED
  BY <1>0, <1>1, <1>2, <1>3, <1>4
  DEF Next, HandleMessages, ReceiveAlive, ReceiveMemReq, ReceiveMemRes, NextAliveEntry,
      AliveEntriesDone, NextDeadEntry, MemResDone, CheckKnown, CheckStatus, Resurrect,
      Recheck, LearnAlive, CheckDeadKnown, LearnDead, Age, PresumeDead, CheckAlive,
      ExpireFound, ExpirePresumed, ExpireMessages, StateTyped

\* IInv is an inductive invariant of the specification.
THEOREM Invariance == Spec => []IInv
<1>1. Init => IInv
  BY InitIInv
<1>2. IInv /\ [Next]_vars => IInv'
  BY TypesStep, TablesStep, HandlerStep, PanicStep DEF IInv
<1> QED
  BY <1>1, <1>2, PTL DEF Spec

\* Every variable keeps its type, in every reachable state of the tables, the
\* store, the handler and the detectors.
THEOREM TypeCorrect == Spec => []TypeOK
<1>1. IInv => TypeOK
  BY DEF IInv, StateTyped, PanicInv, TypeOK
<1> QED
  BY <1>1, Invariance, PTL

\* A known member is alive or dead, once, in all the tables that record it, and
\* this peer never lists itself (the d.lock sections of discovery.go).
THEOREM TablesAlwaysAgree == Spec => []TablesAgree
<1>1. IInv => TablesAgree
  BY DEF IInv
<1> QED
  BY <1>1, Invariance, PTL

\* What handleAliveMessage learned under earlier locks still holds, in the sense
\* of HandlerInv, whatever ran in between.
THEOREM HandlerAlwaysInformed == Spec => []HandlerInv
<1>1. IInv => HandlerInv
  BY DEF IInv
<1> QED
  BY <1>1, Invariance, PTL

\* Handling a gossiped alive message never dereferences a forgotten member
\* (learnExistingMembers).
THEOREM NoPanicOnAliveMessage == Spec => []AliveMessageNeverPanics
<1>1. IInv => AliveMessageNeverPanics
  BY DEF IInv, PanicInv
<1> QED
  BY <1>1, Invariance, PTL

-------------------------------------------------------------------------------
(* Steps, seen through StatusOf, TimeOf and TombstoneOf.                       *)

\* learnExistingMembers writes the tables only for an alive member.
LEMMA RefreshCases ==
    ASSUME Refresh
    PROVE  \/ UNCHANGED tables
           \/ am.id \in Alive \ Dead /\ SetAlive(am) /\ UNCHANGED <<deadLastTS, deadMembership>>
<1>1. \/ UNCHANGED <<handler, tables>>
      \/ UNCHANGED <<tables, panicked>>
      \/ /\ am.id \in Alive \ Dead
         /\ SetAlive(am)
         /\ UNCHANGED <<deadLastTS, deadMembership, panicked>>
  BY Zenon DEF Refresh
<1>2. ASSUME UNCHANGED <<handler, tables>> PROVE UNCHANGED tables
  BY <1>2
<1>3. ASSUME UNCHANGED <<tables, panicked>> PROVE UNCHANGED tables
  BY <1>3
<1>4. ASSUME UNCHANGED <<deadLastTS, deadMembership, panicked>>
      PROVE  UNCHANGED <<deadLastTS, deadMembership>>
  BY <1>4
<1> QED
  BY <1>1, <1>2, <1>3, <1>4, Zenon

\* A step that brings back a forgotten member carries a message newer than its
\* tombstone.
LEMMA GhostStep == ASSUME IInv, [Next]_vars, NEW p \in Peer PROVE NoGhost(p)
<1>0. StateTyped /\ TablesAgree /\ HandlerInv
  BY DEF IInv
<1> USE DiscoveryAssumption, <1>0
    DEF StateTyped, TablesTyped, HandlerTyped, MaybeTime, AliveMsg, NoGhost,
        StatusOf, TimeOf, Alive, Dead
<1>1. ASSUME UNCHANGED <<aliveLastTS, deadLastTS>> PROVE NoGhost(p)
  BY <1>1
<1>2. CASE Resurrect \/ LearnAlive
  BY <1>2 DEF Resurrect, LearnAlive, SetAlive, TablesAgree, HandlerInv, CheckValid
<1>3. CASE Refresh
  <2>1. CASE am.id \in Alive \ Dead /\ SetAlive(am) /\ UNCHANGED <<deadLastTS, deadMembership>>
    BY <2>1 DEF SetAlive, TablesAgree
  <2> QED
    BY <2>1, <1>1, <1>3, RefreshCases DEF tables
<1>4. CASE LearnDead
  BY <1>4 DEF LearnDead, SetDead, TablesAgree, HandlerInv, CheckValid
<1>5. ASSUME NEW S \in SUBSET Peer, ExpireDeadMembers(S) PROVE NoGhost(p)
  BY <1>5 DEF ExpireDeadMembers
<1>6. ASSUME NEW E \in SUBSET Peer, Forget(E) PROVE NoGhost(p)
  BY <1>6 DEF Forget
<1>7. CASE Next
  BY <1>1, <1>2, <1>3, <1>4, <1>5, <1>6, <1>7
  DEF Next, HandleMessages, ReceiveAlive, ReceiveMemReq, ReceiveMemRes, NextAliveEntry,
      AliveEntriesDone, NextDeadEntry, MemResDone, CheckKnown, CheckStatus, Recheck,
      CheckDeadKnown, Age, PresumeDead, CheckAlive, ExpireFound, ExpirePresumed,
      ExpireMessages, tables
<1> QED
  BY <1>1, <1>7 DEF vars, tables

\* A forgotten member comes back only by news (the tombstones of the store).
THEOREM GhostsStayAway == Spec => NoGhosts
<1>1. IInv /\ [Next]_vars => [\A p \in Peer : NoGhost(p)]_vars
  BY GhostStep
<1> QED
  BY <1>1, Invariance, PTL DEF Spec, NoGhosts

\* The empty tables know nobody.
LEMMA InitView == Init => View!Init
  BY DiscoveryAssumption DEF Init, View!Init, StatusOf, TimeOf, TombstoneOf, Alive, Dead

\* Reads, and writes to other variables, do not show.
LEMMA ViewUnchanged ==
    ASSUME UNCHANGED <<aliveLastTS, deadLastTS, msgStore, expired>>
    PROVE  UNCHANGED View!vars
  BY DEF View!vars, StatusOf, TimeOf, TombstoneOf, Alive, Dead

\* MessageStore.Add replaces a tombstone.
LEMMA ViewLift ==
    ASSUME StateTyped, NEW m \in AliveMsg, AddToStore(m), UNCHANGED tables
    PROVE  View!Next
<1>1. \A p \in Peer : StatusOf(p)' = StatusOf(p) /\ TimeOf(p)' = TimeOf(p)
  BY DEF tables, StatusOf, TimeOf, Alive, Dead
<1>2. \A p \in Peer : TombstoneOf(p)' = IF p = m.id THEN Absent ELSE TombstoneOf(p)
  BY DEF AddToStore, TombstoneOf, StateTyped, TablesTyped
<1>3. m.id \in Peer
  BY DEF AliveMsg
<1> QED
  BY <1>1, <1>2, <1>3 DEF View!Next, View!LiftTombstone

\* resurrectMember, learnNewMembers and learnExistingMembers: a member is
\* learned or heard of.
LEMMA ViewSetAlive ==
    ASSUME StateTyped, TablesAgree, am \in AliveMsg, am.id # Self, SetAlive(am), UNCHANGED store,
           deadLastTS' = [deadLastTS EXCEPT ![am.id] = Absent],
           am.id \in Alive \cup Dead => Before(TimeOf(am.id), am.ts),
           am.id \in expired => Before(msgStore[am.id], am.ts)
    PROVE  View!Next
<1>1. am.id \in Peer /\ am.ts \in PeerTime /\ am.ts # Absent
  BY DiscoveryAssumption DEF AliveMsg
<1>2. \A p \in Peer : StatusOf(p)' = IF p = am.id THEN "alive" ELSE StatusOf(p)
  BY <1>1 DEF SetAlive, StatusOf, Alive, Dead, StateTyped, TablesTyped
<1>3. \A p \in Peer : TimeOf(p)' = IF p = am.id THEN am.ts ELSE TimeOf(p)
  BY <1>1 DEF SetAlive, TimeOf, Alive, Dead, StateTyped, TablesTyped
<1>4. \A p \in Peer : TombstoneOf(p)' = TombstoneOf(p)
  BY DEF store, TombstoneOf
<1>5. CASE am.id \in Alive \cup Dead
  <2>1. StatusOf(am.id) # "unknown" /\ View!Newer(am.ts, TimeOf(am.id))
    BY <1>5 DEF StatusOf, View!Newer, Before
  <2>2. View!Hear(am.id, am.ts)
    BY <1>1, <1>2, <1>3, <1>4, <2>1 DEF View!Hear
  <2> QED
    BY <1>1, <2>2 DEF View!Next, View!PeerTime, PeerTime
<1>6. CASE am.id \notin Alive \cup Dead
  <2>1. StatusOf(am.id) = "unknown"
    BY <1>6 DEF StatusOf
  <2>2. TombstoneOf(am.id) # Absent => View!Newer(am.ts, TombstoneOf(am.id))
    BY DEF TombstoneOf, View!Newer, Before
  <2>3. View!Learn(am.id, "alive", am.ts)
    BY <1>1, <1>2, <1>3, <1>4, <2>1, <2>2 DEF View!Learn
  <2> QED
    BY <1>1, <2>3 DEF View!Next, View!PeerTime, PeerTime
<1> QED
  BY <1>5, <1>6

\* learnNewMembers with a dead member: it is learned.
LEMMA ViewSetDead ==
    ASSUME StateTyped, am \in AliveMsg, am.id # Self, am.id \notin Alive \cup Dead,
           SetDead(am), UNCHANGED <<aliveLastTS, store>>,
           am.id \in expired => Before(msgStore[am.id], am.ts)
    PROVE  View!Next
<1>1. am.id \in Peer /\ am.ts \in PeerTime /\ am.ts # Absent
  BY DiscoveryAssumption DEF AliveMsg
<1>2. \A p \in Peer : StatusOf(p)' = IF p = am.id THEN "dead" ELSE StatusOf(p)
  BY <1>1 DEF SetDead, StatusOf, Alive, Dead, StateTyped, TablesTyped
<1>3. \A p \in Peer : TimeOf(p)' = IF p = am.id THEN am.ts ELSE TimeOf(p)
  BY <1>1 DEF SetDead, TimeOf, Alive, Dead, StateTyped, TablesTyped
<1>4. \A p \in Peer : TombstoneOf(p)' = TombstoneOf(p)
  BY DEF store, TombstoneOf
<1>5. StatusOf(am.id) = "unknown"
  BY DEF StatusOf
<1>6. TombstoneOf(am.id) # Absent => View!Newer(am.ts, TombstoneOf(am.id))
  BY DEF TombstoneOf, View!Newer, Before
<1>7. View!Learn(am.id, "dead", am.ts)
  BY <1>1, <1>2, <1>3, <1>4, <1>5, <1>6 DEF View!Learn
<1> QED
  BY <1>1, <1>7 DEF View!Next, View!PeerTime, PeerTime

\* expireDeadMembers: the members of the list that are alive are declared dead.
LEMMA ViewExpire ==
    ASSUME StateTyped, NEW S \in SUBSET Peer, ExpireDeadMembers(S)
    PROVE  View!Next
<1> DEFINE dying == S \cap Alive
<1>1. \A p \in Peer : StatusOf(p)' = IF p \in dying THEN "dead" ELSE StatusOf(p)
  BY DEF ExpireDeadMembers, StatusOf, Alive, Dead
<1>2. \A p \in Peer : TimeOf(p)' = TimeOf(p)
  BY DEF ExpireDeadMembers, TimeOf, Alive
<1>3. \A p \in Peer : TombstoneOf(p)' = TombstoneOf(p)
  BY DEF ExpireDeadMembers, store, TombstoneOf
<1>4. \A p \in dying : p \in Peer /\ StatusOf(p) = "alive"
  BY DEF StatusOf
<1>5. dying \in SUBSET Peer
  BY <1>4
<1> HIDE DEF dying
<1>6. View!DeclareDead(dying)
  BY <1>1, <1>2, <1>3, <1>4, <1>5 DEF View!DeclareDead
<1> QED
  BY <1>5, <1>6 DEF View!Next

\* expireMessages: members are forgotten, tombstones removed.
LEMMA ViewForget ==
    ASSUME StateTyped, NEW E \in SUBSET Peer, NEW D \in SUBSET Peer, ExpireMessages(E, D)
    PROVE  View!Next
<1> DEFINE ts == [p \in E |-> msgStore[p]]
<1>1. ts \in [E -> View!PeerTime]
  BY DEF ExpireMessages, MayExpire, StateTyped, TablesTyped, MaybeTime, PeerTime, View!PeerTime
<1>2. \A p \in Peer : StatusOf(p)' = IF p \in E THEN "unknown" ELSE StatusOf(p)
  BY DEF ExpireMessages, Forget, StatusOf, Alive, Dead
<1>3. \A p \in Peer : TimeOf(p)' = IF p \in E THEN Absent ELSE TimeOf(p)
  BY DEF ExpireMessages, Forget, TimeOf, Alive
<1>4. \A p \in Peer : TombstoneOf(p)' = IF p \in D THEN Absent
                                        ELSE IF p \in E THEN ts[p] ELSE TombstoneOf(p)
  BY DEF ExpireMessages, Bury, TombstoneOf
<1> HIDE DEF ts
<1>5. View!Forget(E, D, ts)
  BY <1>2, <1>3, <1>4 DEF View!Forget
<1> QED
  BY <1>1, <1>5, Zenon DEF View!Next

\* Every step of Discovery is a step of MembershipView or invisible to it.
LEMMA ViewStep == ASSUME IInv, [Next]_vars PROVE [View!Next]_(View!vars)
<1>0. StateTyped /\ TablesAgree /\ HandlerInv
  BY DEF IInv
<1> DEFINE Idle == UNCHANGED <<aliveLastTS, deadLastTS, msgStore, expired>>
<1>1. CASE ReceiveAlive
  BY <1>0, <1>1, ViewLift DEF ReceiveAlive
<1>2. CASE Resurrect
  <2>1. am \in AliveMsg /\ am.id # Self /\ (am.id \in expired => Before(msgStore[am.id], am.ts))
    BY <1>0, <1>2 DEF Resurrect, HandlerInv, Deciding, CheckValid, StateTyped, HandlerTyped, TablesTyped
  <2>2. am.id \in Alive \cup Dead => Before(TimeOf(am.id), am.ts)
    BY <1>0, <1>2 DEF Resurrect, HandlerInv, TimeOf
  <2> QED
    BY <1>0, <1>2, <2>1, <2>2, ViewSetAlive DEF Resurrect
<1>3. CASE LearnAlive
  <2>1. am \in AliveMsg /\ am.id # Self /\ (am.id \in expired => Before(msgStore[am.id], am.ts))
    BY <1>0, <1>3 DEF LearnAlive, HandlerInv, Deciding, CheckValid, StateTyped, HandlerTyped, TablesTyped
  <2>2. am.id \notin Alive \cup Dead
    BY <1>0, <1>3, <2>1 DEF LearnAlive, HandlerInv, TablesAgree, AliveMsg
  <2>3. deadLastTS' = [deadLastTS EXCEPT ![am.id] = Absent]
    BY <1>0, <1>3, <2>1, <2>2 DEF LearnAlive, StateTyped, TablesTyped, Dead, AliveMsg
  <2> QED
    BY <1>0, <1>3, <2>1, <2>2, <2>3, ViewSetAlive DEF LearnAlive
<1>4. CASE Refresh
  <2>1. CASE UNCHANGED tables
    BY <2>1, <1>4, ViewUnchanged DEF tables, Refresh, store
  <2>2. CASE am.id \in Alive \ Dead /\ SetAlive(am) /\ UNCHANGED <<deadLastTS, deadMembership>>
    <3>1. am \in AliveMsg /\ am.id # Self /\ (am.id \in expired => Before(msgStore[am.id], am.ts))
      BY <1>0, <1>4 DEF Refresh, HandlerInv, Deciding, CheckValid, StateTyped, HandlerTyped, TablesTyped
    <3>2. Before(TimeOf(am.id), am.ts)
      BY <1>0, <1>4, <2>2 DEF Refresh, HandlerInv, TimeOf
    <3>3. deadLastTS' = [deadLastTS EXCEPT ![am.id] = Absent]
      BY <1>0, <2>2, <3>1 DEF TablesAgree, StateTyped, TablesTyped, Dead, AliveMsg
    <3> QED
      BY <1>0, <1>4, <2>2, <3>1, <3>2, <3>3, ViewSetAlive DEF Refresh
  <2> QED
    BY <1>4, <2>1, <2>2, RefreshCases
<1>5. CASE LearnDead
  <2>1. CASE am.id = Self
    BY <1>5, <2>1, ViewUnchanged DEF LearnDead, SetDead, store
  <2>2. CASE am.id # Self
    <3>1. /\ am \in AliveMsg /\ am.id \notin Alive \cup Dead
          /\ am.id \in expired => Before(msgStore[am.id], am.ts)
      BY <1>0, <1>5, <2>2 DEF LearnDead, HandlerInv, TablesAgree, CheckValid, StateTyped, HandlerTyped, TablesTyped
    <3> QED
      BY <1>0, <1>5, <2>2, <3>1, ViewSetDead DEF LearnDead
  <2> QED BY <2>1, <2>2
<1>6. CASE ExpireFound \/ ExpirePresumed
  BY <1>0, <1>6, ViewExpire DEF ExpireFound, ExpirePresumed, StateTyped
<1>7. ASSUME NEW E \in SUBSET Peer, NEW D \in SUBSET Peer, ExpireMessages(E, D) 
      PROVE  View!Next
  BY <1>0, <1>7, ViewForget
<1>8. CASE UNCHANGED vars
  BY <1>8, ViewUnchanged DEF vars, tables, store
<1> QED
  BY <1>1, <1>2, <1>3, <1>4, <1>5, <1>6, <1>7, <1>8, ViewUnchanged DEF Next, HandleMessages, ReceiveMemReq, ReceiveMemRes,
     NextAliveEntry, AliveEntriesDone, NextDeadEntry, MemResDone, CheckKnown, CheckStatus, 
     Recheck, CheckDeadKnown, Age, PresumeDead, CheckAlive, 
     tables, store

\* The tables, with the goroutines that share them, implement the membership
\* view: Discovery refines MembershipView.
THEOREM Refinement == Spec => ImplementsView
<1>1. Init => View!Init
  BY InitView
<1>2. IInv /\ [Next]_vars => [View!Next]_(View!vars)
  BY ViewStep
<1> QED
  BY <1>1, <1>2, Invariance, PTL DEF Spec, ImplementsView, View!Spec
=============================================================================
