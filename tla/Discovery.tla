------------------------------- MODULE Discovery -------------------------------
(* The membership tables of one peer: GossipDiscovery in                       *)
(* src/gossip/discovery.go, with the alive-message store it consults           *)
(* (MessageStore in src/gossip/msg.go under the alive-message policy).         *)
(*                                                                             *)
(* Four goroutines share the tables.  handleMessages is the only consumer of   *)
(* incoming messages; it takes d.lock several times for one message, and every *)
(* critical section is one action here, so the other goroutines can step in    *)
(* between.  periodicalCheckAlive and handlePresumedDeadPeers each look under  *)
(* the read lock and act under the write lock; the store's expirationRoutine   *)
(* forgets members under both locks.                                           *)
(*                                                                             *)
(* Time is abstracted to what the code asks of it: "lastSeen is older than     *)
(* aliveExpirationTimeout" is membership in overdue, which Age sets and a      *)
(* refresh clears.  A member is its PKI-ID: endpoints, metadata, envelopes and *)
(* signatures are data the tables carry and never branch on, except that       *)
(* ValidateAliveMsg may reject any message.                                    *)
EXTENDS Naturals

CONSTANTS Peer,     \* PKI-IDs, this peer's own among them
          Self,     \* d.self.PKIid
          IncNums,  \* incarnations: a process's start time
          SeqNums,  \* sequence numbers of alive messages
          Absent    \* "not in the map"

PeerTime == [IncNum : IncNums, SeqNum : SeqNums]
AliveMsg == [id : Peer, ts : PeerTime]

ASSUME DiscoveryAssumption ==
    /\ Self \in Peer
    /\ IncNums \subseteq Nat
    /\ SeqNums \subseteq Nat
    /\ Absent \notin PeerTime
    /\ Absent \notin AliveMsg

VARIABLES
    id2Member,        \* the PKI-IDs that have a record in d.id2Member
    aliveLastTS, deadLastTS,            \* PKI-ID -> timestamp, or Absent
    aliveMembership, deadMembership,    \* PKI-ID -> time of the kept message
    overdue,          \* alive members not heard of for aliveExpirationTimeout
    msgStore,         \* PKI-ID -> time of the one message the store keeps
    expired,          \* the PKI-IDs whose stored message is an expired tombstone
    pc, via, am,      \* handleMessages: next step, kind of message, alive message
    deadFound,        \* periodicalCheckAlive: what getDeadMembers returned
    presumedDead,     \* handlePresumedDeadPeers: the peer isAlive said yes to
    panicked          \* the process died of a nil dereference

tables    == <<id2Member, aliveLastTS, deadLastTS, aliveMembership, deadMembership, overdue>>
store     == <<msgStore, expired>>
handler   == <<pc, via, am>>
detectors == <<deadFound, presumedDead>>
vars      == <<tables, store, handler, detectors, panicked>>

Alive == {p \in Peer : aliveLastTS[p] # Absent}
Dead  == {p \in Peer : deadLastTS[p] # Absent}

-------------------------------------------------------------------------------
(* Timestamps and the alive-message store.                                     *)

\* A faulty form of Before: the incarnation is ignored.
BeforeBySeq(a, b) == a.SeqNum < b.SeqNum

\* before: a precedes b.  incTime's trip through time.Unix and UnixNano is exact.
Before(a, b) == \/ a.IncNum < b.IncNum
                \/ a.IncNum = b.IncNum /\ a.SeqNum < b.SeqNum

\* A faulty form of CheckValid: a message that has expired no longer counts.
CheckValidFresh(m) ==
    msgStore[m.id] # Absent /\ m.id \notin expired => Before(msgStore[m.id], m.ts)

\* MessageStore.CheckValid under aliveInvalidationPolicy: a message not newer
\* than the stored one of its sender is invalidated, expired or not.
CheckValid(m) == msgStore[m.id] # Absent => Before(msgStore[m.id], m.ts)

\* A faulty form of AddToStore: an older message stays and the new one is not kept.
KeepOlder(m) ==
    /\ CheckValid(m)
    /\ msgStore' = [msgStore EXCEPT ![m.id] = IF @ = Absent THEN m.ts ELSE @]
    /\ UNCHANGED expired

\* MessageStore.Add, when it returns true: the sender's older message, which m
\* invalidates, makes way for m.  The store holds one message per sender.
AddToStore(m) ==
    /\ CheckValid(m)
    /\ msgStore' = [msgStore EXCEPT ![m.id] = m.ts]
    /\ expired' = expired \ {m.id}

Init ==
    /\ id2Member = {}
    /\ aliveLastTS = [p \in Peer |-> Absent]
    /\ deadLastTS = [p \in Peer |-> Absent]
    /\ aliveMembership = [p \in Peer |-> Absent]
    /\ deadMembership = [p \in Peer |-> Absent]
    /\ overdue = {}
    /\ msgStore = [p \in Peer |-> Absent]
    /\ expired = {}
    /\ pc = "idle" /\ via = "none" /\ am = Absent
    /\ deadFound = {}
    /\ presumedDead = {}
    /\ panicked = FALSE


\* A nil dereference ends the process; these steps contain none.
Running == ~panicked /\ panicked' = FALSE

-------------------------------------------------------------------------------
(* handleMsgFromComm: what arrives.  A message the store refuses changes        *)
(* nothing, so only accepted ones are steps.                                   *)

Handle(m, kind) == pc' = "known" /\ via' = kind /\ am' = m

\* A gossiped alive message is added to the store before it is handled.
ReceiveAlive ==
    /\ Running
    /\ pc = "idle"
    /\ \E m \in AliveMsg : AddToStore(m) /\ Handle(m, "alive")
    /\ UNCHANGED <<tables, detectors>>

\* A membership request carries its sender's alive message, which the store is
\* asked about and never keeps.
ReceiveMemReq ==
    /\ Running
    /\ pc = "idle"
    /\ \E m \in AliveMsg : CheckValid(m) /\ Handle(m, "memReq")
    /\ UNCHANGED <<tables, store, detectors>>

\* A membership response: a list of alive messages, then a list of dead ones.
\* Its entries are chosen when their turn comes.
ReceiveMemRes ==
    /\ Running
    /\ pc = "idle"
    /\ pc' = "alives" /\ via' = "memRes" /\ am' = Absent
    /\ UNCHANGED <<tables, store, detectors>>

NextAliveEntry ==
    /\ Running
    /\ pc = "alives"
    /\ \E m \in AliveMsg : CheckValid(m) /\ Handle(m, "memRes")
    /\ UNCHANGED <<tables, store, detectors>>

AliveEntriesDone ==
    /\ Running
    /\ pc = "alives"
    /\ pc' = "deads"
    /\ UNCHANGED <<via, am, tables, store, detectors>>

\* A dead entry must pass ValidateAliveMsg (or it is skipped) and CheckValid.
NextDeadEntry ==
    /\ Running
    /\ pc = "deads"
    /\ \E m \in AliveMsg : CheckValid(m) /\ am' = m
    /\ pc' = "deadKnown"
    /\ UNCHANGED <<via, tables, store, detectors>>

\* The response ends: at the end of the dead list, at an entry that does not
\* decode, or at a dead entry that fails CheckValid, which drops the rest.
MemResDone ==
    /\ Running
    /\ pc \in {"alives", "deads"}
    /\ pc' = "idle" /\ via' = "none" /\ am' = Absent
    /\ UNCHANGED <<tables, store, detectors>>

-------------------------------------------------------------------------------
(* handleAliveMessage, one critical section at a time, and the dead entries.   *)

\* Back to handleMsgFromComm: the next entry of a response, or the end (an alive
\* message is forwarded, a request answered by a goroutine that only reads).
Return ==
    IF via = "memRes" THEN pc' = "alives" /\ am' = Absent /\ UNCHANGED via
                      ELSE pc' = "idle" /\ am' = Absent /\ via' = "none"

Goto(step) == pc' = step /\ UNCHANGED <<via, am>>

\* ValidateAliveMsg may reject m; m may be about this peer; is its sender known?
CheckKnown ==
    /\ Running
    /\ pc = "known"
    /\ \/ Return
       \/ am.id # Self /\ am.id \notin id2Member /\ Goto("learnAlive")
       \/ am.id # Self /\ am.id \in id2Member /\ Goto("status")
    /\ UNCHANGED <<tables, store, detectors>>

\* Alive or dead?  A dead member comes back only with a newer message; one that
\* is neither (forgotten meanwhile) or both is left alone.
CheckStatus ==
    /\ Running
    /\ pc = "status"
    /\ \/ am.id \in Alive /\ am.id \notin Dead /\ Goto("recheck")
       \/ /\ am.id \in Dead /\ am.id \notin Alive
          /\ Before(deadLastTS[am.id], am.ts)
          /\ Goto("resurrect")
       \/ /\ am.id \in Dead /\ am.id \notin Alive
          /\ ~Before(deadLastTS[am.id], am.ts)
          /\ Return
       \/ (am.id \in Alive <=> am.id \in Dead) /\ Return
    /\ UNCHANGED <<tables, store, detectors>>

\* What resurrectMember and learnNewMembers write for an alive member.
SetAlive(m) ==
    /\ aliveLastTS' = [aliveLastTS EXCEPT ![m.id] = m.ts]
    /\ aliveMembership' = [aliveMembership EXCEPT ![m.id] = m.ts]
    /\ id2Member' = id2Member \cup {m.id}
    /\ overdue' = overdue \ {m.id}

\* resurrectMember, whatever has become of the member since CheckStatus.
Resurrect ==
    /\ Running
    /\ pc = "resurrect"
    /\ SetAlive(am)
    /\ deadLastTS' = [deadLastTS EXCEPT ![am.id] = Absent]
    /\ deadMembership' = [deadMembership EXCEPT ![am.id] = Absent]
    /\ Goto("recheck")
    /\ UNCHANGED <<store, detectors>>

Recheck ==
    /\ Running
    /\ pc = "recheck"
    /\ IF am.id \in Alive /\ Before(aliveLastTS[am.id], am.ts)
       THEN Goto("refresh")
       ELSE Return
    /\ UNCHANGED <<tables, store, detectors>>

\* learnExistingMembers.  The member's record is dereferenced before its status
\* is looked at, and a member without a kept message is dereferenced too.
Refresh ==
    /\ ~panicked
    /\ pc = "refresh"
    /\ \/ /\ \/ am.id \notin id2Member
             \/ am.id \in Alive \ Dead /\ aliveMembership[am.id] = Absent
          /\ panicked' = TRUE
          /\ UNCHANGED <<handler, tables>>
       \/ /\ am.id \in id2Member
          /\ am.id \notin Alive \ Dead
          /\ Return
          /\ UNCHANGED <<tables, panicked>>
       \/ /\ am.id \in id2Member
          /\ am.id \in Alive \ Dead
          /\ aliveMembership[am.id] # Absent
          /\ SetAlive(am)
          /\ Return
          /\ UNCHANGED <<deadLastTS, deadMembership, panicked>>
    /\ UNCHANGED <<store, detectors>>

\* learnNewMembers with one alive message.
LearnAlive ==
    /\ Running
    /\ pc = "learnAlive"
    /\ SetAlive(am)
    /\ Return
    /\ UNCHANGED <<deadLastTS, deadMembership, store, detectors>>

\* A dead entry is passed to learnNewMembers only if its sender is unknown.
CheckDeadKnown ==
    /\ Running
    /\ pc = "deadKnown"
    /\ \/ am.id \notin id2Member /\ Goto("learnDead")
       \/ am.id \in id2Member /\ pc' = "deads" /\ am' = Absent /\ UNCHANGED via
    /\ UNCHANGED <<tables, store, detectors>>

\* A faulty form of SetDead: this peer itself is not skipped.
SetDeadEvenSelf(m) ==
    /\ deadLastTS' = [deadLastTS EXCEPT ![m.id] = m.ts]
    /\ deadMembership' = [deadMembership EXCEPT ![m.id] = m.ts]

SetDead(m) ==
    IF m.id = Self THEN UNCHANGED <<deadLastTS, deadMembership>>
    ELSE /\ deadLastTS' = [deadLastTS EXCEPT ![m.id] = m.ts]
         /\ deadMembership' = [deadMembership EXCEPT ![m.id] = m.ts]

\* learnNewMembers with one dead message: its last loop records the member, and
\* unlike the loops before it does not skip this peer itself.
LearnDead ==
    /\ Running
    /\ pc = "learnDead"
    /\ SetDead(am)
    /\ id2Member' = id2Member \cup {am.id}
    /\ pc' = "deads" /\ am' = Absent
    /\ UNCHANGED <<via, aliveLastTS, aliveMembership, overdue, store, detectors>>

-------------------------------------------------------------------------------
(* The failure detectors and the expiration of messages.                       *)

\* Time passes: an alive member's lastSeen falls behind.
Age(p) ==
    /\ Running
    /\ p \in Alive \ overdue
    /\ overdue' = overdue \cup {p}
    /\ UNCHANGED <<id2Member, aliveLastTS, deadLastTS, aliveMembership,
                   deadMembership, store, handler, detectors>>

\* expireDeadMembers: only whether a member is still alive is looked at again.
\* CloseConn, after the unlock, dereferences the records collected under it.
ExpireDeadMembers(dead) ==
    LET dying == dead \cap Alive
        moved == {p \in dying : aliveMembership[p] # Absent}
    IN  /\ deadLastTS' =
               [p \in Peer |-> IF p \in dying THEN aliveLastTS[p] ELSE deadLastTS[p]]
        /\ aliveLastTS' = [p \in Peer |-> IF p \in dying THEN Absent ELSE aliveLastTS[p]]
        /\ deadMembership' =
               [p \in Peer |-> IF p \in moved THEN aliveMembership[p]
                                              ELSE deadMembership[p]]
        /\ aliveMembership' =
               [p \in Peer |-> IF p \in moved THEN Absent ELSE aliveMembership[p]]
        /\ overdue' = overdue \ dying
        /\ panicked' = ~(dying \subseteq id2Member)
        /\ UNCHANGED <<id2Member, store, handler>>

\* A faulty form of GetDeadMembers: the dead table is searched.
GetDeadMembersAmongDead == overdue \cap Dead

\* getDeadMembers, read under the read lock by periodicalCheckAlive.
GetDeadMembers == overdue

CheckAlive ==
    /\ Running
    /\ deadFound = {}
    /\ GetDeadMembers # {}
    /\ deadFound' = GetDeadMembers
    /\ UNCHANGED <<tables, store, handler, presumedDead>>

ExpireFound ==
    /\ ~panicked
    /\ deadFound # {}
    /\ ExpireDeadMembers(deadFound)
    /\ deadFound' = {}
    /\ UNCHANGED presumedDead

\* handlePresumedDeadPeers: the communication layer lost p; is p alive?
PresumeDead(p) ==
    /\ Running
    /\ presumedDead = {}
    /\ p \in Alive
    /\ presumedDead' = {p}
    /\ UNCHANGED <<tables, store, handler, deadFound>>

ExpirePresumed ==
    /\ ~panicked
    /\ presumedDead # {}
    /\ ExpireDeadMembers(presumedDead)
    /\ presumedDead' = {}
    /\ UNCHANGED deadFound

\* The messages that can have outlived msgTTL, 20 times aliveExpirationTimeout.
\* A gossiped message in the handler was stored a moment ago.  A member that was
\* refreshed from its stored message and not since is overdue by then; one that
\* is not overdue was refreshed by a newer message the store never got.
MayExpire(p) ==
    /\ msgStore[p] # Absent /\ p \notin expired
    /\ ~(via = "alive" /\ am.id = p /\ am.ts = msgStore[p])
    /\ p \in Alive => p \in overdue \/ Before(msgStore[p], aliveLastTS[p])

\* A faulty form of Forget: the dead table keeps its entry.
ForgetAlive(E) ==
    /\ id2Member' = id2Member \ E
    /\ aliveLastTS' = [p \in Peer |-> IF p \in E THEN Absent ELSE aliveLastTS[p]]
    /\ aliveMembership' =
           [p \in Peer |-> IF p \in E THEN Absent ELSE aliveMembership[p]]
    /\ overdue' = overdue \ E
    /\ UNCHANGED <<deadLastTS, deadMembership>>

\* The store's callback: the members whose message expired leave every table.
Forget(E) ==
    /\ id2Member' = id2Member \ E
    /\ aliveLastTS' = [p \in Peer |-> IF p \in E THEN Absent ELSE aliveLastTS[p]]
    /\ deadLastTS' = [p \in Peer |-> IF p \in E THEN Absent ELSE deadLastTS[p]]
    /\ aliveMembership' =
           [p \in Peer |-> IF p \in E THEN Absent ELSE aliveMembership[p]]
    /\ deadMembership' =
           [p \in Peer |-> IF p \in E THEN Absent ELSE deadMembership[p]]
    /\ overdue' = overdue \ E

\* The messages E become tombstones and the tombstones D go.
Bury(E, D) ==
    /\ expired' = (expired \cup E) \ D
    /\ msgStore' = [p \in Peer |-> IF p \in D THEN Absent ELSE msgStore[p]]

\* expireMessages: under both locks, messages older than msgTTL become
\* tombstones (E) and tombstones older than twice that are removed (D).
ExpireMessages(E, D) ==
    /\ Running
    /\ E \cup D # {}
    /\ \A p \in E : MayExpire(p)
    /\ D \subseteq expired
    /\ Forget(E)
    /\ Bury(E, D)
    /\ UNCHANGED <<handler, detectors>>

-------------------------------------------------------------------------------
HandleMessages ==
    \/ ReceiveAlive \/ ReceiveMemReq \/ ReceiveMemRes
    \/ NextAliveEntry \/ AliveEntriesDone \/ NextDeadEntry \/ MemResDone
    \/ CheckKnown \/ CheckStatus \/ Resurrect \/ Recheck \/ Refresh
    \/ LearnAlive \/ CheckDeadKnown \/ LearnDead

Next ==
    \/ HandleMessages
    \/ \E p \in Peer : Age(p) \/ PresumeDead(p)
    \/ CheckAlive \/ ExpireFound \/ ExpirePresumed
    \/ \E E, D \in SUBSET Peer : ExpireMessages(E, D)

Spec == Init /\ [][Next]_vars

\* periodicalCheckAlive wakes up every aliveExpirationCheckInterval and its
\* locks are held by others only for the length of one critical section.
Fairness == WF_vars(CheckAlive) /\ WF_vars(ExpireFound)
FairSpec == Spec /\ Fairness

-------------------------------------------------------------------------------
(* Properties.                                                                 *)

MaybeTime == PeerTime \cup {Absent}

\* The tables are maps from PKI-IDs to timestamps; only alive members can be
\* overdue and only a stored message can have expired.
TablesTyped ==
    /\ id2Member \subseteq Peer
    /\ aliveLastTS \in [Peer -> MaybeTime]
    /\ deadLastTS \in [Peer -> MaybeTime]
    /\ aliveMembership \in [Peer -> MaybeTime]
    /\ deadMembership \in [Peer -> MaybeTime]
    /\ overdue \subseteq Alive
    /\ msgStore \in [Peer -> MaybeTime]
    /\ expired \subseteq {p \in Peer : msgStore[p] # Absent}

\* The handler holds an alive message exactly between taking one and returning.
HandlerTyped ==
    /\ pc \in {"idle", "alives", "deads", "known", "learnAlive", "status",
               "resurrect", "recheck", "refresh", "deadKnown", "learnDead"}
    /\ via \in {"none", "alive", "memReq", "memRes"}
    /\ am \in AliveMsg \cup {Absent}
    /\ via = "none" <=> pc = "idle"
    /\ am = Absent <=> pc \in {"idle", "alives", "deads"}
    /\ pc \in {"alives", "deads", "deadKnown", "learnDead"} => via = "memRes"

\* Type correctness of every variable.
TypeOK ==
    /\ TablesTyped
    /\ HandlerTyped
    /\ deadFound \subseteq Peer
    /\ presumedDead \subseteq Peer
    /\ panicked \in BOOLEAN

\* The five tables tell one story (every d.lock section rewrites several of them,
\* and lookups such as id2Member[pkiID].InternalEndpoint take it for granted): a
\* known member is alive or dead and never both, the message kept for it is the
\* one its timestamp came from, only known members are either, and this peer
\* itself is neither, whatever a membership response says about it.
TablesAgree ==
    /\ Alive \cap Dead = {}
    /\ id2Member \ {Self} = Alive \cup Dead
    /\ Self \notin Alive \cup Dead
    /\ aliveMembership = aliveLastTS
    /\ deadMembership = deadLastTS

\* What the handler may rely on across its critical sections, though the failure
\* detectors and the expiration run between any two of them: the answers that
\* led it to its present step (handleAliveMessage) and to the store's verdict.
Deciding == pc \in {"status", "resurrect", "recheck", "refresh"}

HandlerInv ==
    /\ pc \in {"learnAlive", "learnDead"} => am.id \notin id2Member
    /\ pc = "learnAlive" \/ Deciding => am.id # Self
    /\ pc = "resurrect" =>
           /\ am.id \notin Alive
           /\ am.id \in Dead => Before(deadLastTS[am.id], am.ts)
    /\ pc = "refresh" /\ am.id \in Alive => Before(aliveLastTS[am.id], am.ts)
    /\ via = "alive" => msgStore[am.id] = am.ts /\ am.id \notin expired
    /\ am # Absent /\ via # "alive" => CheckValid(am)
    /\ via = "alive" /\ Deciding => am.id \in id2Member

\* learnExistingMembers dereferences a record that was looked up two critical
\* sections earlier.  A gossiped alive message renewed its store entry first, so
\* the record cannot expire in between: the process can die of it only while it
\* handles the alive message of a membership request or response.
AliveMessageNeverPanics == panicked => via # "alive"

\* periodicalCheckAlive: a member nobody hears from does not stay in Peers().
\* It is heard again, declared dead or forgotten, unless the process dies.
SilentMembersLeave ==
    \A p \in Peer : p \in overdue ~> p \notin overdue \/ panicked

\* What the tables say of p.
StatusOf(p) == IF p \in Alive THEN "alive" ELSE IF p \in Dead THEN "dead" ELSE "unknown"
TimeOf(p)   == IF p \in Alive THEN aliveLastTS[p] ELSE deadLastTS[p]
TombstoneOf(p) == IF p \in expired THEN msgStore[p] ELSE Absent

\* A forgotten member stays forgotten while its tombstone stands: only a message
\* newer than the tombstone brings it back, whichever of the three kinds of
\* message carries it and whatever expired while it was being handled.
NoGhost(p) == p \in expired /\ StatusOf(p) = "unknown" /\ StatusOf(p)' # "unknown"
                  => Before(msgStore[p], TimeOf(p)')
NoGhosts == [][\A p \in Peer : NoGhost(p)]_vars

\* What this peer reports of the others (MembershipView): a member is known by
\* one timestamp that only a strictly newer message replaces, it comes back from
\* the dead only so, and a tombstone keeps old messages from teaching it again.
View == INSTANCE MembershipView WITH
            status    <- [p \in Peer |-> StatusOf(p)],
            time      <- [p \in Peer |-> TimeOf(p)],
            tombstone <- [p \in Peer |-> TombstoneOf(p)]
ImplementsView == View!Spec
=============================================================================
