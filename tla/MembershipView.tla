---------------------------- MODULE MembershipView ----------------------------
(* What a peer's membership tables promise to their readers (Peers, Lookup,    *)
(* membership responses), with the goroutines, the locks and the five tables   *)
(* of discovery.go abstracted away: for every peer a status and the timestamp  *)
(* of the alive message it rests on, and while it lasts a tombstone that keeps *)
(* a forgotten peer from being learned again from an old message.              *)
EXTENDS Naturals

CONSTANTS Peer, Self, IncNums, SeqNums, Absent

PeerTime == [IncNum : IncNums, SeqNum : SeqNums]

VARIABLES status,     \* peer -> "unknown", "alive" or "dead"
          time,       \* peer -> time of the newest message acted on, or Absent
          tombstone   \* peer -> time of the expired message, or Absent

vars == <<status, time, tombstone>>

Newer(a, b) == \/ b.IncNum < a.IncNum
               \/ b.IncNum = a.IncNum /\ b.SeqNum < a.SeqNum

Init == /\ status = [p \in Peer |-> "unknown"]
        /\ time = [p \in Peer |-> Absent]
        /\ tombstone = [p \in Peer |-> Absent]

\* An unknown peer is learned, as alive or as dead, unless a tombstone objects.
Learn(p, s, t) ==
    /\ p # Self
    /\ status[p] = "unknown"
    /\ tombstone[p] # Absent => Newer(t, tombstone[p])
    /\ status' = [status EXCEPT ![p] = s]
    /\ time' = [time EXCEPT ![p] = t]
    /\ UNCHANGED tombstone

\* A known peer, alive or dead, is alive as of a strictly newer message.
Hear(p, t) ==
    /\ status[p] # "unknown"
    /\ Newer(t, time[p])
    /\ status' = [status EXCEPT ![p] = "alive"]
    /\ time' = [time EXCEPT ![p] = t]
    /\ UNCHANGED tombstone

\* Alive peers are declared dead, and remain known by the same timestamp.
DeclareDead(S) ==
    /\ \A p \in S : status[p] = "alive"
    /\ status' = [p \in Peer |-> IF p \in S THEN "dead" ELSE status[p]]
    /\ UNCHANGED <<time, tombstone>>

\* Peers are forgotten and leave a tombstone; old tombstones are removed.
Forget(E, D, ts) ==
    /\ status' = [p \in Peer |-> IF p \in E THEN "unknown" ELSE status[p]]
    /\ time' = [p \in Peer |-> IF p \in E THEN Absent ELSE time[p]]
    /\ tombstone' = [p \in Peer |-> IF p \in D THEN Absent
                                    ELSE IF p \in E THEN ts[p] ELSE tombstone[p]]

\* A new message from p was accepted, which the tombstone is older than.
LiftTombstone(p) ==
    /\ tombstone' = [tombstone EXCEPT ![p] = Absent]
    /\ UNCHANGED <<status, time>>

Next ==
    \/ \E p \in Peer, t \in PeerTime :
          \/ \E s \in {"alive", "dead"} : Learn(p, s, t)
          \/ Hear(p, t)
    \/ \E S \in SUBSET Peer : DeclareDead(S)
    \/ \E E, D \in SUBSET Peer : \E ts \in [E -> PeerTime] : Forget(E, D, ts)
    \/ \E p \in Peer : LiftTombstone(p)

Spec == Init /\ [][Next]_vars
=============================================================================
