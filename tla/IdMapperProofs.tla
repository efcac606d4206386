---------------------------- MODULE IdMapperProofs ----------------------------
(* Proofs about IdMapper, for any identities, goroutines and numbers of stores.   *)
(*                                                                                *)
(* A timer names an identity and not what was stored, so that an old timer may    *)
(* delete a later version.  That none is left without a timer rests on two facts:  *)
(* every timer, stopped timer and found entry is of a version already stored, so  *)
(* that a new version has a timer nobody can have stopped; and what a suspecter    *)
(* was last busy with, once it is done, is not stored any more.                    *)
EXTENDS IdMapper, TLAPS

-------------------------------------------------------------------------------
(* The inductive invariant.                                                       *)

Entries == Id \X Version
Ats == Entries \cup {<<NoId, 0>>}
LearnerStates == [pc : {"idle", "checked", "put", "verified"}, id : Id \cup {NoId}, way : Way]
SuspecterStates == [pc : {"idle", "stopping", "deleting"}, found : SUBSET Entries, at : Ats]

MapsTyped ==
    /\ versions \in [Id -> 0 .. MaxStores]
    /\ pkiID2Cert \in [Id -> 0 .. MaxStores]
    /\ fresh \subseteq Id /\ revoked \subseteq Id
    /\ connections \subseteq Id /\ itemID2Msg \subseteq Id
    /\ timers \subseteq Entries /\ firing \subseteq Entries

GoroutinesTyped ==
    /\ learner \in [Learner -> LearnerStates]
    /\ \A w \in Learner : learner[w].pc # "idle" => learner[w].id \in Id
    /\ suspecter \in [Suspecter -> SuspecterStates]
    /\ \A s \in Suspecter : suspecter[s].pc = "deleting" => suspecter[s].at \in Entries

\* What is stored is the last version, and nobody names a later one.
NoneIsAhead ==
    /\ \A i \in Id : pkiID2Cert[i] \in {0, versions[i]}
    /\ \A i \in Id, v \in Version :
          \/ <<i, v>> \in timers \cup firing
          \/ \E s \in Suspecter : <<i, v>> \in suspecter[s].found \cup {suspecter[s].at}
          => v <= versions[i]
    /\ timers \cap firing = {}

\* Whoever is not deleting has deleted what it was at.
DoneIsGone ==
    \A s \in Suspecter, i \in Id :
        suspecter[s].pc # "deleting" /\ pkiID2Cert[i] # 0 =>
            suspecter[s].at # <<i, pkiID2Cert[i]>>

IInv == MapsTyped /\ GoroutinesTyped /\ NoneIsAhead /\ DoneIsGone /\ EveryIdentityExpires

\* Only the own identity is stored, with its timer.
LEMMA InitIInv == Init => IInv
<1> SUFFICES ASSUME Init PROVE IInv
  OBVIOUS
<1> USE IdMapperAssumption DEF Init, Version
<1>1. MapsTyped
  BY DEF MapsTyped, Entries, OwnIdentity
<1>2. GoroutinesTyped
  BY DEF GoroutinesTyped, LearnerStates, SuspecterStates, Ats, Idle, NotSuspecting, Way
<1>3. NoneIsAhead /\ DoneIsGone
  BY DEF NoneIsAhead, DoneIsGone, NotSuspecting
<1>4. EveryIdentityExpires
  BY DEF EveryIdentityExpires
<1> QED
  BY <1>1, <1>2, <1>3, <1>4 DEF IInv

-------------------------------------------------------------------------------
(* What each step keeps.                                                          *)

\* The maps and sets keep their types.
LEMMA MapsStep ==
    ASSUME MapsTyped, GoroutinesTyped, [Next]_vars PROVE MapsTyped'
<1> USE IdMapperAssumption, SMTT(20)
    DEF MapsTyped, GoroutinesTyped, LearnerStates, SuspecterStates, Entries, Ats, Version
<1>1. ASSUME NEW w \in Learner, Insert(w) PROVE MapsTyped'
  <2> DEFINE i == learner[w].id
             v == versions[i] + 1
  <2>1. i \in Id
    BY <1>1 DEF Insert
  <2>2. CASE pkiID2Cert[i] # 0
    BY <1>1, <2>2 DEF Insert
  <2>3. CASE pkiID2Cert[i] = 0
    <3>1. v \in Version
      BY <1>1, <2>1, <2>3 DEF Insert
    <3>2. /\ pkiID2Cert' = [pkiID2Cert EXCEPT ![i] = v]
          /\ versions' = [versions EXCEPT ![i] = v]
          /\ fresh' = fresh \cup {i} /\ timers' = timers \cup {<<i, v>>}
          /\ UNCHANGED <<firing, revoked, connections, itemID2Msg>>
      BY <1>1, <2>3 DEF Insert, ExpirationTimer
    <3> HIDE DEF i, v, GoroutinesTyped
    <3> QED
      BY <2>1, <3>1, <3>2
  <2> QED
    BY <2>2, <2>3
<1>2. ASSUME NEW w \in Learner, Authenticate(w) PROVE MapsTyped'
  BY <1>2 DEF Authenticate, Used
<1>3. ASSUME NEW w \in Learner, Connected(w) PROVE MapsTyped'
  BY <1>3 DEF Connected
<1>4. ASSUME NEW w \in Learner, Pulled(w) PROVE MapsTyped'
  BY <1>4 DEF Pulled
<1>5. ASSUME NEW w \in Learner, NEW i \in Id, NEW way \in Way, Validate(w, i, way)
      PROVE  MapsTyped'
  BY <1>5 DEF Validate
<1>6. ASSUME NEW i \in Id, Revoke(i) PROVE MapsTyped'
  BY <1>6 DEF Revoke
<1>7. ASSUME NEW i \in Id, Get(i) PROVE MapsTyped'
  BY <1>7 DEF Get, Used
<1>8. ASSUME NEW i \in Id, Age(i) PROVE MapsTyped'
  BY <1>8 DEF Age
<1>9. ASSUME NEW i \in Id, NEW v \in Version, Fire(i, v) PROVE MapsTyped'
  BY <1>9 DEF Fire
<1>10. ASSUME NEW i \in Id, NEW v \in Version, Expire(i, v) PROVE MapsTyped'
  BY <1>10 DEF Expire, Delete, OnPurge
<1>11. ASSUME NEW s \in Suspecter, Purge(s) PROVE MapsTyped'
  BY <1>11 DEF Purge, Delete, OnPurge, NotSuspecting
<1>12. ASSUME NEW s \in Suspecter, NEW e \in suspecter[s].found, StopTimer(s, e)
       PROVE  MapsTyped'
  BY <1>12 DEF StopTimer
<1>13. ASSUME NEW s \in Suspecter, NEW suspected \in SUBSET Id, ValidateIds(s, suspected)
       PROVE  MapsTyped'
  BY <1>13 DEF ValidateIds, Unused, Used
<1>14. CASE UNCHANGED vars
  BY <1>14 DEF vars
<1> QED
  BY ZenonT(30), <1>1, <1>2, <1>3, <1>4, <1>5, <1>6, <1>7, <1>8, <1>9, <1>10, <1>11,
     <1>12, <1>13, <1>14
  DEF Next, Learning, Timer, Suspecting

\* What a suspecter becomes is a state of a suspecter.
LEMMA Updated ==
    ASSUME NEW r \in SuspecterStates PROVE
    /\ \A e \in Entries : [r EXCEPT !.pc = "deleting", !.at = e] \in SuspecterStates
    /\ \A f \in SUBSET Entries :
          [r EXCEPT !.pc = "stopping", !.found = f] \in SuspecterStates
BY DEF SuspecterStates, Ats

\* One suspecter moves: the rest keep their types.
LEMMA OneMoves ==
    ASSUME GoroutinesTyped, NEW s \in Suspecter, NEW new \in SuspecterStates,
           new.pc = "deleting" => new.at \in Entries,
           suspecter' = [suspecter EXCEPT ![s] = new], learner' = learner
    PROVE  GoroutinesTyped'
<1>1. suspecter' \in [Suspecter -> SuspecterStates]
  BY DEF GoroutinesTyped
<1> QED
  BY <1>1 DEF GoroutinesTyped

\* A goroutine that is under way has an identity, or an entry, in hand.
LEMMA GoroutinesStep ==
    ASSUME MapsTyped, GoroutinesTyped, NoneIsAhead, [Next]_vars PROVE GoroutinesTyped'
<1> USE IdMapperAssumption, SMTT(20)
    DEF MapsTyped, GoroutinesTyped, LearnerStates, Version
<1>1. ASSUME NEW w \in Learner, Insert(w) PROVE GoroutinesTyped'
  BY <1>1 DEF Insert, Idle, Way
<1>2. ASSUME NEW w \in Learner, Authenticate(w) PROVE GoroutinesTyped'
  BY <1>2 DEF Authenticate, Idle, Way
<1>3. ASSUME NEW w \in Learner, Connected(w) PROVE GoroutinesTyped'
  BY <1>3 DEF Connected, Idle, Way
<1>4. ASSUME NEW w \in Learner, Pulled(w) PROVE GoroutinesTyped'
  BY <1>4 DEF Pulled, Idle, Way
<1>5. ASSUME NEW w \in Learner, NEW i \in Id, NEW way \in Way, Validate(w, i, way)
      PROVE  GoroutinesTyped'
  BY <1>5 DEF Validate
<1>6. ASSUME NEW i \in Id, Revoke(i) PROVE GoroutinesTyped'
  BY <1>6 DEF Revoke
<1>7. ASSUME NEW i \in Id, Get(i) PROVE GoroutinesTyped'
  BY <1>7 DEF Get, Used
<1>8. ASSUME NEW i \in Id, Age(i) PROVE GoroutinesTyped'
  BY <1>8 DEF Age
<1>9. ASSUME NEW i \in Id, NEW v \in Version, Fire(i, v) PROVE GoroutinesTyped'
  BY <1>9 DEF Fire
<1>10. ASSUME NEW i \in Id, NEW v \in Version, Expire(i, v) PROVE GoroutinesTyped'
  BY <1>10 DEF Expire, Delete, OnPurge
<1>11. ASSUME NEW s \in Suspecter, Purge(s) PROVE GoroutinesTyped'
  <2> DEFINE e == suspecter[s].at
             left == suspecter[s].found \ {e}
             rest == [suspecter[s] EXCEPT !.pc = "stopping", !.found = left]
             new == IF left = {} THEN NotSuspecting ELSE rest
  <2>1. suspecter[s] \in SuspecterStates
    OBVIOUS
  <2>2. rest \in SuspecterStates
    <3>1. left \in SUBSET Entries
      BY <2>1 DEF SuspecterStates
    <3> QED
      BY <2>1, <3>1, Updated, Zenon
  <2>3. NotSuspecting \in SuspecterStates /\ NotSuspecting.pc = "idle"
    BY DEF NotSuspecting, SuspecterStates, Ats
  <2>4. suspecter' = [suspecter EXCEPT ![s] = new] /\ learner' = learner
    BY <1>11 DEF Purge
  <2>5. rest.pc = "stopping"
    BY <2>1 DEF SuspecterStates
  <2> HIDE DEF rest
  <2>6. new \in SuspecterStates /\ new.pc # "deleting"
    BY <2>2, <2>3, <2>5
  <2> QED
    BY <2>4, <2>6, OneMoves
<1>12. ASSUME NEW s \in Suspecter, NEW e \in suspecter[s].found, StopTimer(s, e)
       PROVE  GoroutinesTyped'
  <2> DEFINE new == [suspecter[s] EXCEPT !.pc = "deleting", !.at = e]
  <2>1. suspecter[s] \in SuspecterStates /\ e \in Entries
    BY DEF SuspecterStates
  <2>2. new \in SuspecterStates
    BY <2>1, Updated, Zenon
  <2>3. new.pc = "deleting" => new.at \in Entries
    BY <2>1 DEF SuspecterStates
  <2>4. suspecter' = [suspecter EXCEPT ![s] = new] /\ learner' = learner
    BY <1>12 DEF StopTimer
  <2> QED
    BY <2>2, <2>3, <2>4, OneMoves
<1>13. ASSUME NEW s \in Suspecter, NEW suspected \in SUBSET Id, ValidateIds(s, suspected)
       PROVE  GoroutinesTyped'
  <2> DEFINE asked == {i \in suspected \ Unused : pkiID2Cert[i] # 0}
             found == Unused \cup {i \in asked : Refused(i)}
             entries == {<<i, pkiID2Cert[i]>> : i \in found}
             new == [suspecter[s] EXCEPT !.pc = "stopping", !.found = entries]
  <2>1. \A i \in found : i \in Id /\ pkiID2Cert[i] \in Version
    BY DEF Unused
  <2>2. entries \in SUBSET Entries
    BY <2>1 DEF Entries
  <2>3. suspecter' = [suspecter EXCEPT ![s] = new] /\ learner' = learner
    BY <1>13 DEF ValidateIds
  <2>4. suspecter[s] \in SuspecterStates
    OBVIOUS
  <2> HIDE DEF entries
  <2>5. new \in SuspecterStates
    BY <2>2, <2>4, Updated, Zenon
  <2>6. new.pc # "deleting"
    BY <2>4 DEF SuspecterStates
  <2> QED
    BY <2>3, <2>5, <2>6, OneMoves
<1>14. CASE UNCHANGED vars
  BY <1>14 DEF vars
<1> QED
  BY ZenonT(30), <1>1, <1>2, <1>3, <1>4, <1>5, <1>6, <1>7, <1>8, <1>9, <1>10, <1>11,
     <1>12, <1>13, <1>14
  DEF Next, Learning, Timer, Suspecting

\* A version is new when it is stored: nobody can name it before.
LEMMA AheadStep ==
    ASSUME MapsTyped, GoroutinesTyped, NoneIsAhead, [Next]_vars PROVE NoneIsAhead'
<1> USE IdMapperAssumption, SMTT(20)
    DEF MapsTyped, GoroutinesTyped, LearnerStates, SuspecterStates, Version, Entries, Ats,
        NoneIsAhead
<1>1. ASSUME NEW w \in Learner, Insert(w) PROVE NoneIsAhead'
  BY <1>1 DEF Insert, ExpirationTimer
<1>2. ASSUME NEW w \in Learner, Authenticate(w) PROVE NoneIsAhead'
  BY <1>2 DEF Authenticate, Used
<1>3. ASSUME NEW w \in Learner, Connected(w) PROVE NoneIsAhead'
  BY <1>3 DEF Connected
<1>4. ASSUME NEW w \in Learner, Pulled(w) PROVE NoneIsAhead'
  BY <1>4 DEF Pulled
<1>5. ASSUME NEW w \in Learner, NEW i \in Id, NEW way \in Way, Validate(w, i, way)
      PROVE  NoneIsAhead'
  BY <1>5 DEF Validate
<1>6. ASSUME NEW i \in Id, Revoke(i) PROVE NoneIsAhead'
  BY <1>6 DEF Revoke
<1>7. ASSUME NEW i \in Id, Get(i) PROVE NoneIsAhead'
  BY <1>7 DEF Get, Used
<1>8. ASSUME NEW i \in Id, Age(i) PROVE NoneIsAhead'
  BY <1>8 DEF Age
<1>9. ASSUME NEW i \in Id, NEW v \in Version, Fire(i, v) PROVE NoneIsAhead'
  BY <1>9 DEF Fire
<1>10. ASSUME NEW i \in Id, NEW v \in Version, Expire(i, v) PROVE NoneIsAhead'
  BY <1>10 DEF Expire, Delete, OnPurge
<1>11. ASSUME NEW s \in Suspecter, Purge(s) PROVE NoneIsAhead'
  <2> DEFINE e == suspecter[s].at
             left == suspecter[s].found \ {e}
             rest == [suspecter[s] EXCEPT !.pc = "stopping", !.found = left]
  <2>1. suspecter' = [suspecter EXCEPT ![s] =
                         IF left = {} THEN NotSuspecting ELSE rest]
    BY <1>11 DEF Purge
  <2>2. rest.found \subseteq suspecter[s].found /\ rest.at = suspecter[s].at
    OBVIOUS
  <2> HIDE DEF rest
  <2>3. \A t \in Suspecter : /\ suspecter'[t].found \subseteq suspecter[t].found
                             /\ suspecter'[t].at \in {suspecter[t].at, <<NoId, 0>>}
    BY <2>1, <2>2 DEF NotSuspecting
  <2>4. \A t \in Suspecter, i \in Id, v \in Version :
           <<i, v>> \in suspecter'[t].found \cup {suspecter'[t].at} => v <= versions[i]
    <3>1. \A t \in Suspecter, i \in Id, v \in Version :
             <<i, v>> \in suspecter[t].found \cup {suspecter[t].at} => v <= versions[i]
      OBVIOUS
    <3>2. \A i \in Id, v \in Version : <<i, v>> # <<NoId, 0>>
      OBVIOUS
    <3> HIDE DEF MapsTyped, GoroutinesTyped, NoneIsAhead
    <3> QED
      BY <2>3, <3>1, <3>2
  <2>5. UNCHANGED <<versions, timers, firing>>
    BY <1>11 DEF Purge
  <2>6. \A i \in Id : pkiID2Cert'[i] \in {0, pkiID2Cert[i]}
    BY <1>11 DEF Purge, Delete
  <2> QED
    BY <2>4, <2>5, <2>6
<1>12. ASSUME NEW s \in Suspecter, NEW e \in suspecter[s].found, StopTimer(s, e)
       PROVE  NoneIsAhead'
  <2> DEFINE new == [suspecter[s] EXCEPT !.pc = "deleting", !.at = e]
  <2>1. suspecter' = [suspecter EXCEPT ![s] = new] /\ timers' \subseteq timers
    BY <1>12 DEF StopTimer
  <2>2. new.found = suspecter[s].found /\ new.at \in suspecter[s].found
    OBVIOUS
  <2> HIDE DEF new
  <2>3. \A t \in Suspecter :
           suspecter'[t].found \cup {suspecter'[t].at}
               \subseteq suspecter[t].found \cup {suspecter[t].at}
    BY <2>1, <2>2
  <2>4. UNCHANGED <<versions, pkiID2Cert, firing>>
    BY <1>12 DEF StopTimer
  <2> HIDE DEF MapsTyped, GoroutinesTyped
  <2> QED
    BY <2>1, <2>3, <2>4
<1>13. ASSUME NEW s \in Suspecter, NEW suspected \in SUBSET Id, ValidateIds(s, suspected)
       PROVE  NoneIsAhead'
  <2> DEFINE asked == {i \in suspected \ Unused : pkiID2Cert[i] # 0}
             found == Unused \cup {i \in asked : Refused(i)}
             entries == {<<i, pkiID2Cert[i]>> : i \in found}
  <2>1. \A i \in Id, v \in Version : <<i, v>> \in entries => v <= versions[i]
    BY DEF Unused
  <2>2. suspecter' = [suspecter EXCEPT ![s] =
                         [suspecter[s] EXCEPT !.pc = "stopping", !.found = entries]]
    BY <1>13 DEF ValidateIds
  <2>3. UNCHANGED <<pkiID2Cert, versions, timers, firing>>
    BY <1>13 DEF ValidateIds
  <2> HIDE DEF entries
  <2>4. \A t \in Suspecter : /\ suspecter'[t].at = suspecter[t].at
                             /\ suspecter'[t].found \in {suspecter[t].found, entries}
    BY <2>2
  <2>5. \A t \in Suspecter, i \in Id, v \in Version :
           <<i, v>> \in suspecter'[t].found \cup {suspecter'[t].at} => v <= versions[i]
    BY <2>1, <2>4
  <2> QED
    BY <2>3, <2>5
<1>14. CASE UNCHANGED vars
  BY <1>14 DEF vars
<1> QED
  BY ZenonT(30), <1>1, <1>2, <1>3, <1>4, <1>5, <1>6, <1>7, <1>8, <1>9, <1>10, <1>11,
     <1>12, <1>13, <1>14
  DEF Next, Learning, Timer, Suspecting

\* A suspecter stops deleting by deleting, and what is stored again is newer.
LEMMA DoneStep ==
    ASSUME MapsTyped, GoroutinesTyped, NoneIsAhead, DoneIsGone, [Next]_vars PROVE DoneIsGone'
<1> USE IdMapperAssumption, SMTT(20)
    DEF MapsTyped, GoroutinesTyped, LearnerStates, SuspecterStates, Version, Entries, Ats,
        DoneIsGone
<1>1. ASSUME NEW w \in Learner, Insert(w) PROVE DoneIsGone'
  <2> DEFINE i == learner[w].id
             v == versions[i] + 1
  <2>1. UNCHANGED suspecter
    BY <1>1 DEF Insert
  <2>2. CASE pkiID2Cert[i] # 0
    BY <1>1, <2>1, <2>2 DEF Insert
  <2>3. CASE pkiID2Cert[i] = 0
    <3>1. i \in Id /\ v \in Version /\ pkiID2Cert' = [pkiID2Cert EXCEPT ![i] = v]
      BY <1>1, <2>3 DEF Insert
    <3>2. ~(v <= versions[i])
      BY <3>1
    <3> HIDE DEF i, v, GoroutinesTyped
    <3>3. \A s \in Suspecter : <<i, v>> \notin suspecter[s].found \cup {suspecter[s].at}
      BY <3>1, <3>2 DEF NoneIsAhead
    <3> QED
      BY <2>1, <3>1, <3>3
  <2> QED
    BY <2>2, <2>3
<1>2. ASSUME NEW w \in Learner, Authenticate(w) PROVE DoneIsGone'
  BY <1>2 DEF Authenticate, Used
<1>3. ASSUME NEW w \in Learner, Connected(w) PROVE DoneIsGone'
  BY <1>3 DEF Connected
<1>4. ASSUME NEW w \in Learner, Pulled(w) PROVE DoneIsGone'
  BY <1>4 DEF Pulled
<1>5. ASSUME NEW w \in Learner, NEW i \in Id, NEW way \in Way, Validate(w, i, way)
      PROVE  DoneIsGone'
  BY <1>5 DEF Validate
<1>6. ASSUME NEW i \in Id, Revoke(i) PROVE DoneIsGone'
  BY <1>6 DEF Revoke
<1>7. ASSUME NEW i \in Id, Get(i) PROVE DoneIsGone'
  BY <1>7 DEF Get, Used
<1>8. ASSUME NEW i \in Id, Age(i) PROVE DoneIsGone'
  BY <1>8 DEF Age
<1>9. ASSUME NEW i \in Id, NEW v \in Version, Fire(i, v) PROVE DoneIsGone'
  BY <1>9 DEF Fire
<1>10. ASSUME NEW i \in Id, NEW v \in Version, Expire(i, v) PROVE DoneIsGone'
  BY <1>10 DEF Expire, Delete, OnPurge
<1>11. ASSUME NEW s \in Suspecter, Purge(s) PROVE DoneIsGone'
  BY <1>11 DEF Purge, Delete, NotSuspecting
<1>12. ASSUME NEW s \in Suspecter, NEW e \in suspecter[s].found, StopTimer(s, e)
       PROVE  DoneIsGone'
  BY <1>12 DEF StopTimer
<1>13. ASSUME NEW s \in Suspecter, NEW suspected \in SUBSET Id, ValidateIds(s, suspected)
       PROVE  DoneIsGone'
  BY <1>13 DEF ValidateIds, Unused, Used
<1>14. CASE UNCHANGED vars
  BY <1>14 DEF vars
<1> QED
  BY ZenonT(30), <1>1, <1>2, <1>3, <1>4, <1>5, <1>6, <1>7, <1>8, <1>9, <1>10, <1>11,
     <1>12, <1>13, <1>14
  DEF Next, Learning, Timer, Suspecting

\* Who takes a timer away deletes the identity, or is about to.
LEMMA ExpiresStep ==
    ASSUME MapsTyped, GoroutinesTyped, NoneIsAhead, DoneIsGone, EveryIdentityExpires,
           [Next]_vars
    PROVE  EveryIdentityExpires'
<1> USE IdMapperAssumption, SMTT(20)
    DEF MapsTyped, GoroutinesTyped, LearnerStates, SuspecterStates, Version, Entries, Ats,
        EveryIdentityExpires
<1>1. ASSUME NEW w \in Learner, Insert(w) PROVE EveryIdentityExpires'
  BY <1>1 DEF Insert, ExpirationTimer
<1>2. ASSUME NEW w \in Learner, Authenticate(w) PROVE EveryIdentityExpires'
  BY <1>2 DEF Authenticate, Used
<1>3. ASSUME NEW w \in Learner, Connected(w) PROVE EveryIdentityExpires'
  BY <1>3 DEF Connected
<1>4. ASSUME NEW w \in Learner, Pulled(w) PROVE EveryIdentityExpires'
  BY <1>4 DEF Pulled
<1>5. ASSUME NEW w \in Learner, NEW i \in Id, NEW way \in Way, Validate(w, i, way)
      PROVE  EveryIdentityExpires'
  BY <1>5 DEF Validate
<1>6. ASSUME NEW i \in Id, Revoke(i) PROVE EveryIdentityExpires'
  BY <1>6 DEF Revoke
<1>7. ASSUME NEW i \in Id, Get(i) PROVE EveryIdentityExpires'
  BY <1>7 DEF Get, Used
<1>8. ASSUME NEW i \in Id, Age(i) PROVE EveryIdentityExpires'
  BY <1>8 DEF Age
<1>9. ASSUME NEW i \in Id, NEW v \in Version, Fire(i, v) PROVE EveryIdentityExpires'
  BY <1>9 DEF Fire
<1>10. ASSUME NEW i \in Id, NEW v \in Version, Expire(i, v) PROVE EveryIdentityExpires'
  BY <1>10 DEF Expire, Delete, OnPurge
<1>11. ASSUME NEW s \in Suspecter, Purge(s) PROVE EveryIdentityExpires'
  BY <1>11 DEF Purge, Delete, NotSuspecting
<1>12. ASSUME NEW s \in Suspecter, NEW e \in suspecter[s].found, StopTimer(s, e)
       PROVE  EveryIdentityExpires'
  BY <1>12 DEF StopTimer, DoneIsGone
<1>13. ASSUME NEW s \in Suspecter, NEW suspected \in SUBSET Id, ValidateIds(s, suspected)
       PROVE  EveryIdentityExpires'
  BY <1>13 DEF ValidateIds, Unused, Used
<1>14. CASE UNCHANGED vars
  BY <1>14 DEF vars
<1> QED
  BY ZenonT(30), <1>1, <1>2, <1>3, <1>4, <1>5, <1>6, <1>7, <1>8, <1>9, <1>10, <1>11,
     <1>12, <1>13, <1>14
  DEF Next, Learning, Timer, Suspecting

-------------------------------------------------------------------------------
(* What holds of every behaviour.                                                 *)

\* The inductive invariant holds in every reachable state.
THEOREM Invariance == Spec => []IInv
<1>1. IInv /\ [Next]_vars => IInv'
  BY MapsStep, GoroutinesStep, AheadStep, DoneStep, ExpiresStep DEF IInv
<1> QED
  BY <1>1, InitIInv, PTL DEF Spec

\* What is stored is the last version put, and every timer is of one that was.
THEOREM TypeCorrect == Spec => []TypeOK
<1>1. IInv => TypeOK
  BY IdMapperAssumption
  DEF IInv, MapsTyped, GoroutinesTyped, NoneIsAhead, TypeOK, LearnerStates,
      SuspecterStates, Entries, Ats, Version
<1> QED
  BY <1>1, Invariance, PTL

\* Put, the timers, SuspectPeers and the purge of unused identities never leave an
\* identity in the mapper that nobody will delete.
THEOREM EveryIdentityAlwaysExpires == Spec => []EveryIdentityExpires
<1>1. IInv => EveryIdentityExpires
  BY DEF IInv
<1> QED
  BY <1>1, Invariance, PTL
===============================================================================
