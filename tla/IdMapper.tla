------------------------------- MODULE IdMapper -------------------------------
(* The identities a peer knows: IdMapper in src/gossip/mapper.go, with the three  *)
(* ways an identity is learned, from a stream, an alive message or by pulling, and *)
(* what a purge takes along: the connection and the pulled message.                *)
(*                                                                                 *)
(* Every identity expires (the crypto service gives each an hour), unused ones are *)
(* purged, and SuspectPeers removes the revoked ones.  A use makes an identity     *)
(* fresh; Age stands for the threshold passing without one.  Hashes and signatures *)
(* fit: the identities here are those that pass the checks that look at nothing    *)
(* else.                                                                           *)
EXTENDS Naturals, FiniteSets

CONSTANTS Id, Self, NoId,
          Learner,    \* goroutines that learn identities
          MaxStores   \* bound: how often an identity is stored

ASSUME IdMapperAssumption == Self \in Id /\ NoId \notin Id /\ MaxStores \in Nat \ {0}

\* SuspectPeers is called by the purge of unused identities, which suspects none,
\* and by the application, which may suspect all.
Suspecter == {"purge", "application"}
Way == {"stream", "alive", "pull"}
Version == 1 .. MaxStores

VARIABLES
    pkiID2Cert,  \* Id -> the version stored; 0: none
    versions,    \* Id -> how often it was stored
    fresh,       \* the identities of others used within the threshold
    timers,      \* the expiration timers that run
    firing,      \* those that fired and wait for the lock
    revoked,     \* the identities the crypto service does not accept any more
    learner,     \* Learner -> what it puts
    suspecter,   \* Suspecter -> what it still removes
    connections, \* the peers with a connection
    itemID2Msg   \* the identities the puller holds

vars == <<pkiID2Cert, versions, fresh, timers, firing, revoked, learner, suspecter,
          connections, itemID2Msg>>

Idle == [pc |-> "idle", id |-> NoId, way |-> "alive"]
NotSuspecting == [pc |-> "idle", found |-> {}, at |-> <<NoId, 0>>]

\* newCertStore stores the own identity and offers it to others.
OwnIdentity == {Self}

Init ==
    /\ pkiID2Cert = [i \in Id |-> IF i = Self THEN 1 ELSE 0]
    /\ versions = pkiID2Cert
    /\ fresh = {} /\ timers = {<<Self, 1>>} /\ firing = {}
    /\ revoked = {}
    /\ learner = [w \in Learner |-> Idle]
    /\ suspecter = [s \in Suspecter |-> NotSuspecting]
    /\ connections = {}
    /\ itemID2Msg = OwnIdentity

Revoke(i) ==
    /\ i \notin revoked /\ revoked' = revoked \cup {i}
    /\ UNCHANGED <<pkiID2Cert, versions, fresh, timers, firing, learner, suspecter,
                   connections, itemID2Msg>>

\* fetchId: a use.  That of the own identity, which is never unused, is left out.
Used(ids) == fresh' = fresh \cup (ids \ {Self})

\* ValidateIdType.
Refused(i) == i \in revoked

-------------------------------------------------------------------------------
(* Learning an identity                                                         *)

\* certConsumer ignores what Put says, so a pulled message is kept even if its
\* identity is refused.
KeptIfRefused(way) == way = "pull"

\* Put: the checks, before the lock is taken.
\* A peer has no stream to itself and skips its own alive messages, and the engine
\* never asks for the own identity, which stays in its state.
Validate(w, i, way) ==
    /\ learner[w].pc = "idle" /\ i # Self
    /\ Refused(i) => KeptIfRefused(way)
    /\ learner' = [learner EXCEPT ![w] =
           [pc |-> IF Refused(i) THEN "put" ELSE "checked", id |-> i, way |-> way]]
    /\ UNCHANGED <<pkiID2Cert, versions, fresh, timers, firing, revoked, suspecter,
                   connections, itemID2Msg>>

\* A faulty form: no timer, as for an identity without an expiration date.
NoTimer(i, v) == {}
ExpirationTimer(i, v) == {<<i, v>>}

\* Put, under the lock: a stored identity stays as it is.
Insert(w) ==
    LET i == learner[w].id
        v == versions[i] + 1
    IN  /\ learner[w].pc = "checked"
        /\ IF pkiID2Cert[i] # 0
           THEN UNCHANGED <<pkiID2Cert, versions, fresh, timers>>
           ELSE /\ v <= MaxStores
                /\ pkiID2Cert' = [pkiID2Cert EXCEPT ![i] = v]
                /\ versions' = [versions EXCEPT ![i] = v]
                /\ fresh' = fresh \cup {i}
                /\ timers' = timers \cup ExpirationTimer(i, v)
        /\ learner' = [learner EXCEPT ![w] =
                          IF @.way = "alive" THEN Idle ELSE [@ EXCEPT !.pc = "put"]]
        /\ UNCHANGED <<firing, revoked, suspecter, connections, itemID2Msg>>

\* authenticateRemotePeer verifies with the stored identity, if it is still there ...
Authenticate(w) ==
    LET i == learner[w].id IN
    /\ learner[w].pc = "put" /\ learner[w].way = "stream"
    /\ Used(IF pkiID2Cert[i] # 0 THEN {i} ELSE {})
    /\ learner' = [learner EXCEPT ![w] =
           IF pkiID2Cert[i] # 0 THEN [@ EXCEPT !.pc = "verified"] ELSE Idle]
    /\ UNCHANGED <<pkiID2Cert, versions, timers, firing, revoked, suspecter,
                   connections, itemID2Msg>>

\* ... and then the connection is stored.
Connected(w) ==
    /\ learner[w].pc = "verified"
    /\ connections' = connections \cup {learner[w].id}
    /\ learner' = [learner EXCEPT ![w] = Idle]
    /\ UNCHANGED <<pkiID2Cert, versions, fresh, timers, firing, revoked, suspecter,
                   itemID2Msg>>

\* HandleMessage stores the pulled message.
Pulled(w) ==
    /\ learner[w].pc = "put" /\ learner[w].way = "pull"
    /\ itemID2Msg' = itemID2Msg \cup {learner[w].id}
    /\ learner' = [learner EXCEPT ![w] = Idle]
    /\ UNCHANGED <<pkiID2Cert, versions, fresh, timers, firing, revoked, suspecter,
                   connections>>

\* Get, Verify: a use.
Get(i) ==
    /\ pkiID2Cert[i] # 0
    /\ Used({i})
    /\ UNCHANGED <<pkiID2Cert, versions, timers, firing, revoked, learner, suspecter,
                   connections, itemID2Msg>>

Age(i) ==
    /\ fresh' = fresh \ {i}
    /\ UNCHANGED <<pkiID2Cert, versions, timers, firing, revoked, learner, suspecter,
                   connections, itemID2Msg>>

-------------------------------------------------------------------------------
(* Removing                                                                     *)

\* The purge trigger.  PullMediator.Remove removes the letters of the identity from
\* the engine's state, and so nothing: that state, not modelled here, keeps it.
OnPurge(i) ==
    /\ connections' = connections \ {i}
    /\ itemID2Msg' = itemID2Msg \ {i}

\* delete, under the lock.
Delete(i) == pkiID2Cert' = [pkiID2Cert EXCEPT ![i] = 0] /\ OnPurge(i)

Fire(i, v) ==
    /\ <<i, v>> \in timers
    /\ timers' = timers \ {<<i, v>>} /\ firing' = firing \cup {<<i, v>>}
    /\ UNCHANGED <<pkiID2Cert, versions, fresh, revoked, learner, suspecter,
                   connections, itemID2Msg>>

\* The timer knows the identity and not the version: it deletes what is there.
Expire(i, v) ==
    /\ <<i, v>> \in firing
    /\ firing' = firing \ {<<i, v>>}
    /\ Delete(i)
    /\ UNCHANGED <<versions, fresh, timers, revoked, learner, suspecter>>

Unused == {i \in Id \ {Self} : pkiID2Cert[i] # 0 /\ i \notin fresh}

\* validateIds, under the read lock; what is suspected is thereby used.
ValidateIds(s, suspected) ==
    LET asked == {i \in suspected \ Unused : pkiID2Cert[i] # 0}
        found == Unused \cup {i \in asked : Refused(i)}
    IN  /\ suspecter[s].pc = "idle" /\ (s = "purge" => suspected = {})
        /\ found # {}
        /\ suspecter' = [suspecter EXCEPT ![s] =
               [@ EXCEPT !.pc = "stopping",
                         !.found = {<<i, pkiID2Cert[i]>> : i \in found}]]
        /\ Used(asked)
        /\ UNCHANGED <<pkiID2Cert, versions, timers, firing, revoked, learner,
                       connections, itemID2Msg>>

\* For each that was found: its timer is stopped, ...
StopTimer(s, e) ==
    /\ suspecter[s].pc = "stopping" /\ e \in suspecter[s].found
    /\ suspecter' = [suspecter EXCEPT ![s] = [@ EXCEPT !.pc = "deleting", !.at = e]]
    /\ timers' = timers \ {e}
    /\ UNCHANGED <<pkiID2Cert, versions, fresh, firing, revoked, learner,
                   connections, itemID2Msg>>

\* ... and the identity deleted.
Purge(s) ==
    LET e == suspecter[s].at
        left == suspecter[s].found \ {e}
    IN  /\ suspecter[s].pc = "deleting"
        /\ Delete(e[1])
        /\ suspecter' = [suspecter EXCEPT ![s] =
               IF left = {} THEN NotSuspecting
               ELSE [@ EXCEPT !.pc = "stopping", !.found = left]]
        /\ UNCHANGED <<versions, fresh, timers, firing, revoked, learner>>

-------------------------------------------------------------------------------
Learning(w) == Insert(w) \/ Authenticate(w) \/ Connected(w) \/ Pulled(w)
Timer == \E i \in Id, v \in Version : Fire(i, v) \/ Expire(i, v)
Suspecting(s) == Purge(s) \/ \E e \in suspecter[s].found : StopTimer(s, e)

Next ==
    \/ \E w \in Learner :
          Learning(w) \/ \E i \in Id, way \in Way : Validate(w, i, way)
    \/ \E i \in Id : Revoke(i) \/ Get(i) \/ Age(i)
    \/ Timer
    \/ \E s \in Suspecter :
          Suspecting(s) \/ \E suspected \in SUBSET Id : ValidateIds(s, suspected)

Spec == Init /\ [][Next]_vars

\* Timers fire and what was begun is ended; nobody need suspect anybody.
FairSpec ==
    /\ Spec /\ WF_vars(Timer)
    /\ \A w \in Learner : WF_vars(Learning(w))
    /\ \A s \in Suspecter : WF_vars(Suspecting(s))

-------------------------------------------------------------------------------
(* Properties                                                                   *)

\* The stored identities are versions that were stored; timers belong to versions.
TypeOK ==
    /\ versions \in [Id -> 0 .. MaxStores]
    /\ DOMAIN pkiID2Cert = Id
    /\ \A i \in Id : pkiID2Cert[i] \in {0, versions[i]}
    /\ fresh \cup revoked \cup connections \cup itemID2Msg \subseteq Id
    /\ \A e \in timers \cup firing : e[2] \in 1 .. versions[e[1]]
    /\ timers \cap firing = {}
    /\ \A w \in Learner : learner[w].pc \in {"idle", "checked", "put", "verified"}
    /\ \A s \in Suspecter :
          \A e \in suspecter[s].found : e[2] \in 1 .. versions[e[1]]

\* No identity stays for ever: the timer of the version stored runs, or has fired,
\* or a goroutine that stopped it is about to delete the identity.
EveryIdentityExpires ==
    \A i \in Id :
        pkiID2Cert[i] # 0 =>
            LET e == <<i, pkiID2Cert[i]>> IN
            e \in timers \cup firing \/ \E s \in Suspecter : suspecter[s].at = e

\* Once revoked, an identity is gone for good sooner or later, also one that was
\* checked before it was revoked and stored after everybody was suspected.
RevokedLeave ==
    <>[](\A i \in revoked : pkiID2Cert[i] = 0)
===============================================================================
