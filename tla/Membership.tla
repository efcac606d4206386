------------------------------ MODULE Membership ------------------------------
(* Discovery across peers: how the periodic senders of src/gossip/discovery.go     *)
(* (alive messages, reconnection to the dead, requests to the bootstrap peers and   *)
(* to members) bring peers together, and back together, over links that go down     *)
(* and up, with peers that crash and restart.                                      *)
(*                                                                                 *)
(* Discovery has the inside of one peer, step by step; here a peer handles a        *)
(* message in one step, and a message sent over a link that is up arrives.  Of       *)
(* timestamps only their order matters: each peer's are kept as ranks, without       *)
(* gaps, so that peers may go on for ever.  All are of one organisation.            *)
EXTENDS Naturals, FiniteSets

CONSTANTS Peer,
          Bootstrap, \* Peer -> the peers it connects to when it starts
          Cuts,      \* the sets of links that may go down
          MayCrash,  \* the peers that may
          MaxFaults  \* bound: how often links are cut or a peer crashes

Link == {l \in SUBSET Peer : Cardinality(l) = 2}

ASSUME MembershipAssumption ==
    /\ IsFiniteSet(Peer)
    /\ \A p \in Peer : Bootstrap[p] \subseteq Peer \ {p}
    /\ Cuts \subseteq SUBSET Link /\ MayCrash \subseteq Peer /\ MaxFaults \in Nat

\* The time of a new alive message: newer than any rank.
Newest == Cardinality(Peer) + 1

VARIABLES
    view,      \* view[p][q]: what p knows of q, alive or dead, and as of when
    selfAlive, \* the time of the peer's selfAliveMessage; 0: none
    asking,    \* the bootstrap peers that have not answered
    running,   \* the peers that run
    down,      \* the links that are down
    faults     \* the faults there were

vars == <<view, selfAlive, asking, running, down, faults>>

Unknown == [is |-> "unknown", ts |-> 0]
Nobody == [q \in Peer |-> Unknown]

Init ==
    /\ view = [p \in Peer |-> Nobody]
    /\ selfAlive = [p \in Peer |-> 0]
    /\ asking = Bootstrap
    /\ running = Peer /\ down = {} /\ faults = 0

-------------------------------------------------------------------------------
(* Views and times                                                              *)

Alive(p) == {q \in Peer : view[p][q].is = "alive"}
Dead(p) == {q \in Peer : view[p][q].is = "dead"}

\* A faulty form: a message as old as what is known counts.
NotOlder(a, b) == a <= b
\* before.
Before(a, b) == a < b

\* handleAliveMessage: unknown peers are learned, the dead resurrected, the living
\* refreshed, each of the latter by a newer message only.
Heard(known, ts) ==
    IF known.is = "unknown" \/ Before(known.ts, ts)
    THEN [is |-> "alive", ts |-> ts] ELSE known

\* The tables v after p handled alive messages about the peers of msgs, and learned
\* of the peers of deads, as dead as another knows them.
Told(v, p, msgs, deads, other) ==
    [v EXCEPT ![p] = [q \in Peer |->
        IF q = p THEN @[q]
        ELSE IF q \in DOMAIN msgs THEN Heard(@[q], msgs[q])
        ELSE IF q \in deads /\ @[q].is = "unknown" THEN v[other][q]
        ELSE @[q]]]

\* The times of each peer that are anywhere, and their ranks.
Ranked(v, self) ==
    LET times == [t \in Peer |->
                     ({self[t]} \cup {v[p][t].ts : p \in Peer}) \ {0}]
        rank(t, ts) == Cardinality({x \in times[t] : x <= ts})
    IN  /\ view' = [p \in Peer |-> [t \in Peer |->
                       [v[p][t] EXCEPT !.ts = rank(t, @)]]]
        /\ selfAlive' = [t \in Peer |-> rank(t, self[t])]

-------------------------------------------------------------------------------
(* The network                                                                  *)

CanTalk(p, q) == {p, q} \subseteq running /\ {p, q} \notin down

\* The peers that can be reached from s when each passes on to those of next.
Closure(s, next) ==
    LET far[n \in 0 .. Cardinality(Peer)] ==
            IF n = 0 THEN s
            ELSE LET near == far[n - 1] IN near \cup UNION {next[q] : q \in near}
    IN  far[Cardinality(Peer) - 1]

\* Those an alive message of p comes to: every peer forwards it to its members.
Reached(p) ==
    Closure({p}, [q \in Peer |-> {r \in Alive(q) : CanTalk(q, r)}])

-------------------------------------------------------------------------------
(* The senders                                                                  *)

\* periodicalSendAlive.
SendAlive(p) ==
    /\ p \in running
    /\ LET to == Reached(p) \ {p} IN
       Ranked([q \in Peer |-> IF q \in to
                              THEN [view[q] EXCEPT ![p] = Heard(@, Newest)]
                              ELSE view[q]],
              [selfAlive EXCEPT ![p] = Newest])
    /\ UNCHANGED <<asking, running, down, faults>>

\* createMembershipRequest: a new alive message of p.
Request(p) == [x \in {p} |-> Newest]

\* A membership request of p to q, with a new alive message that is not gossiped, and
\* the response: q's own last alive message, the living and the dead it knows.  The
\* list of the dead may be given up before its end.
Requested(p, q, deads) ==
    LET v == Told(view, q, Request(p), {}, p)
        living == {t \in Peer \ {q} : v[q][t].is = "alive"}
        own == IF selfAlive[q] = 0 THEN Newest ELSE selfAlive[q]
        msgs == [t \in living \cup {q} |-> IF t = q THEN own ELSE v[q][t].ts]
    IN  Ranked(Told(v, p, msgs, deads, q), selfAlive)

\* What p may learn of the dead from q.
NewlyDead(p, q) == {t \in Dead(q) \ {p} : view[p][t] = Unknown}

\* Connect: asked until answered.
Connect(p, q, deads) ==
    /\ q \in asking[p] /\ CanTalk(p, q)
    /\ Requested(p, q, deads)
    /\ asking' = [asking EXCEPT ![p] = @ \ {q}]
    /\ UNCHANGED <<running, down, faults>>

\* InitiateSync.
InitiateSync(p, q, deads) ==
    /\ q \in Alive(p) /\ CanTalk(p, q)
    /\ Requested(p, q, deads)
    /\ UNCHANGED <<asking, running, down, faults>>

\* periodicalReconnectToDead, if the ping is answered.
Reconnect(p, q, deads) ==
    /\ q \in Dead(p) /\ CanTalk(p, q)
    /\ Requested(p, q, deads)
    /\ UNCHANGED <<asking, running, down, faults>>

-------------------------------------------------------------------------------
(* Failure detection                                                            *)

Expired(p, gone) ==
    view' = [view EXCEPT ![p] = [q \in Peer |->
                IF q \in gone THEN [@[q] EXCEPT !.is = "dead"] ELSE @[q]]]

\* Those whose alive messages come to p, or will when the next ones are sent: if one of
\* two peers has the other for alive, its own message makes that mutual.
Joined(p) ==
    Closure({p}, [q \in Peer |-> {r \in Peer :
                     CanTalk(q, r) /\ (r \in Alive(q) \/ q \in Alive(r))}])

\* A faulty form: the timeout is shorter than the interval of the messages.
TooSoon(p) == {q \in Alive(p) : q \notin running \/ p \notin Reached(q)}

\* periodicalCheckAlive: members whose alive messages come no more.  The timeout is
\* several times the interval of the messages.
Overdue(p) == Alive(p) \ (running \cap Joined(p))

CheckAlive(p) ==
    /\ p \in running
    /\ LET gone == Overdue(p) IN gone # {} /\ Expired(p, gone)
    /\ UNCHANGED <<selfAlive, asking, running, down, faults>>

\* handlePresumedDeadPeers: a connection broke.
PresumeDead(p, q) ==
    /\ p \in running /\ q \in Alive(p) /\ ~CanTalk(p, q)
    /\ Expired(p, {q})
    /\ UNCHANGED <<selfAlive, asking, running, down, faults>>

\* The expiration of the alive message of a peer that is dead for long: for so long
\* that nobody believes it alive who does not hear from it.
Forget(p, q) ==
    /\ p \in running /\ q \in Dead(p) /\ ~CanTalk(p, q)
    /\ \A r \in running : q \in Alive(r) => q \in running /\ r \in Joined(q)
    /\ Ranked([view EXCEPT ![p][q] = Unknown], selfAlive)
    /\ UNCHANGED <<asking, running, down, faults>>

-------------------------------------------------------------------------------
(* Faults                                                                       *)

Cut(links) ==
    /\ faults < MaxFaults /\ down = {}
    /\ down' = links /\ faults' = faults + 1
    /\ UNCHANGED <<view, selfAlive, asking, running>>

Heal ==
    /\ down # {} /\ down' = {}
    /\ UNCHANGED <<view, selfAlive, asking, running, faults>>

Crash(p) ==
    /\ faults < MaxFaults /\ p \in running \cap MayCrash
    /\ running' = running \ {p} /\ faults' = faults + 1
    /\ Ranked([view EXCEPT ![p] = Nobody], [selfAlive EXCEPT ![p] = 0])
    /\ asking' = [asking EXCEPT ![p] = {}]
    /\ UNCHANGED down

\* A new incarnation: it knows nobody, and its messages are newer than the old ones.
Restart(p) ==
    /\ p \notin running
    /\ running' = running \cup {p}
    /\ asking' = [asking EXCEPT ![p] = Bootstrap[p]]
    /\ UNCHANGED <<view, selfAlive, down, faults>>

-------------------------------------------------------------------------------
Next ==
    \/ \E p \in Peer : SendAlive(p) \/ CheckAlive(p) \/ Crash(p) \/ Restart(p)
    \/ \E p, q \in Peer :
          \/ \E deads \in SUBSET NewlyDead(p, q) :
                Connect(p, q, deads) \/ Reconnect(p, q, deads)
                \/ InitiateSync(p, q, deads)
          \/ PresumeDead(p, q) \/ Forget(p, q)
    \/ \E links \in Cuts : Cut(links)
    \/ Heal

Spec == Init /\ [][Next]_vars

\* The goroutines of the peers that run go on.  Each formula is what the weak fairness
\* of one sender gives (an action that is always enabled is taken again and again, and
\* right after it the formula holds): those an alive message comes to have it; bootstrap
\* peers have answered; a dead peer that can be talked to has been told that this one
\* lives; the detector has caught up.  Nothing need break or be repaired, and nobody
\* need be forgotten or synchronised with.
Announced(p) ==
    \A q \in Reached(p) \ {p} : view[q][p] = [is |-> "alive", ts |-> selfAlive[p]]
AnnouncedFair(p) == []<>(p \notin running \/ Announced(p))
CheckAliveFair(p) == []<>(p \notin running \/ Overdue(p) = {})
ConnectFair(p, q) == []<>(q \notin asking[p] \/ ~CanTalk(p, q))
ReconnectFair(p, q) == []<>(q \notin Dead(p) \/ ~CanTalk(p, q) \/ p \in Alive(q))

FairSpec ==
    /\ Spec
    /\ \A p \in Peer : AnnouncedFair(p) /\ CheckAliveFair(p)
    /\ \A p, q \in Peer : ConnectFair(p, q) /\ ReconnectFair(p, q)

-------------------------------------------------------------------------------
(* Properties                                                                   *)

Up == running = Peer /\ down = {}
AllAlive == \A p \in Peer : Alive(p) = Peer \ {p}

\* Peers of which no one on either side knows or asks anyone on the other.
Split ==
    \E s \in SUBSET Peer \ {{}, Peer} :
        \A p \in s, q \in Peer \ s :
            view[p][q] = Unknown /\ view[q][p] = Unknown
            /\ q \notin asking[p] /\ p \notin asking[q]

\* When links and peers stay up, everybody is and stays alive to everybody, whatever
\* was cut, crashed and forgotten before, unless two parts forgot each other.
Converges == <>[]Up => <>[](AllAlive \/ Split)

\* A peer that stays down is dead, and stays dead, to all, though they tell each other
\* of it and may have forgotten it.
CrashedLeave ==
    \A p \in Peer :
        <>[](p \notin running) => <>[](\A q \in running : p \notin Alive(q))
===============================================================================
