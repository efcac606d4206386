----------------------------- MODULE Connections -----------------------------
(* How a peer keeps one connection to each other peer: Communicate,             *)
(* connectionStore and Connection in src/gossip/communicate.go.                 *)
(*                                                                              *)
(* Sender goroutines run sendToEndpoint; each connection has a goroutine that   *)
(* serves it and one that writes; the end of a stream, a failed write, the      *)
(* membership and Stop close connections.  An action is one critical section,   *)
(* one channel operation or one dial.                                           *)
(*                                                                              *)
(* Connection.close waits on channels while its caller holds the store's lock:  *)
(* `store' is the connection being closed under that lock.  A caller of         *)
(* closeByPKIid that has nothing left to do is not followed any further.  The   *)
(* peer that answers a dial is the one expected.                                *)
(* Contents of messages, reading, and what a handler does are left out.         *)
EXTENDS Naturals

CONSTANTS Peer, Sender,
          Remote,            \* the peers that open streams to this one
          MayStop,           \* whether Stop is called
          Conn,              \* the connections made: none is used twice
          Lock,              \* the locks; those nobody refers to are reused
          SendBuffSize,      \* capacity of outBuff
          DeadEndpoints,     \* capacity of deadEndpoints
          NoPeer, NoConn, NoLock, NoSender

ASSUME ConnectionsAssumption ==
    /\ Remote \subseteq Peer /\ MayStop \in BOOLEAN
    /\ SendBuffSize \in Nat \ {0} /\ DeadEndpoints \in Nat \ {0}
    /\ NoPeer \notin Peer /\ NoConn \notin Conn
    /\ NoLock \notin Lock /\ NoSender \notin Sender

VARIABLES
    sender,            \* Sender -> where its send is
    conn,              \* Conn -> the connection objects
    pki2Conn,          \* Peer -> the connection in the store
    destinationLocks,  \* Peer -> the lock in the store
    holder,            \* Lock -> the sender that holds it
    store,             \* what is closed under the store's lock
    accepted,          \* peers whose stream is authenticated, not yet stored
    deadEndpoints,     \* number of peers in the channel
    stopping, isClosing,
    connections2Close  \* the peers Stop has still to disconnect

table == <<pki2Conn, store>>
locks == <<destinationLocks, holder>>
stop  == <<stopping, isClosing, connections2Close>>
vars  == <<sender, conn, table, locks, accepted, deadEndpoints, stop>>

Idle == [pc |-> "idle", peer |-> NoPeer, shouldBlock |-> FALSE,
         lock |-> NoLock, conn |-> NoConn]

NewConnection(p, server) ==
    [pkiID |-> p, server |-> server, stopFlag |-> FALSE, stopChan |-> FALSE,
     outBuff |-> 0, close |-> "no", writer |-> "none", service |-> "none",
     onErr |-> "no"]

\* The goroutines of a connection in the store.
Started(cn) == [cn EXCEPT !.writer = "run", !.service = "run"]

\* closing: NoConn when the lock is free; next replaces it in the store; by is
\* the connection whose GossipStream handler waits for it.
Unlocked == [closing |-> NoConn, next |-> NoConn, by |-> NoConn]
StoreFree == store.closing = NoConn

Init ==
    /\ sender = [s \in Sender |-> Idle]
    /\ conn = [c \in Conn |-> NewConnection(NoPeer, FALSE)]
    /\ pki2Conn = [p \in Peer |-> NoConn]
    /\ destinationLocks = [p \in Peer |-> NoLock]
    /\ holder = [l \in Lock |-> NoSender]
    /\ store = Unlocked
    /\ accepted = {}
    /\ deadEndpoints = 0
    /\ stopping = FALSE /\ isClosing = FALSE
    /\ connections2Close = {}

NewConn(c) == conn[c].pkiID = NoPeer

NewLock(l) ==
    /\ \A p \in Peer : destinationLocks[p] # l
    /\ \A s \in Sender : sender[s].lock # l
    /\ holder[l] = NoSender

-------------------------------------------------------------------------------
(* Connection.close: the flag and the token, then outBuff is drained.           *)

StartClose(cn) == [cn EXCEPT !.stopFlag = TRUE, !.stopChan = TRUE, !.close = "check"]

\* closeByPKIid, CloseConn: under the store's lock.  conns are the connections
\* after the caller's own step.
CloseByPKIid(p, by, conns) ==
    /\ StoreFree
    /\ LET c == pki2Conn[p]
       IN  IF c = NoConn \/ conn[c].stopFlag
           THEN /\ pki2Conn' = [pki2Conn EXCEPT ![p] = NoConn]
                /\ conn' = conns
                /\ UNCHANGED store
           ELSE /\ conn' = [conns EXCEPT ![c] = StartClose(@)]
                /\ store' = [closing |-> c, next |-> NoConn, by |-> by]
                /\ UNCHANGED pki2Conn

\* `for len(conn.outBuff) > 0': the loop asks, and then receives.
CheckOutBuff(c) ==
    /\ conn[c].close = "check" /\ conn[c].outBuff > 0
    /\ conn' = [conn EXCEPT ![c].close = "receive"]
    /\ UNCHANGED <<sender, table, locks, accepted, deadEndpoints, stop>>

DrainOutBuff(c) ==
    /\ conn[c].close = "receive" /\ conn[c].outBuff > 0
    /\ conn' = [conn EXCEPT ![c] = [@ EXCEPT !.outBuff = conn[c].outBuff - 1,
                                             !.close = "check"]]
    /\ UNCHANGED <<sender, table, locks, accepted, deadEndpoints, stop>>

\* What the store holds after the closing: its entry is deleted or replaced.
Replaced(p) == [pki2Conn EXCEPT ![p] = store.next]

\* close returns; under the store's lock its caller finishes with the entry.
Closed(c) ==
    /\ conn[c].close = "check" /\ conn[c].outBuff = 0
    /\ IF store.closing = c
       THEN /\ conn' = [d \in Conn |->
                   IF d = c THEN [conn[c] EXCEPT !.close = "done"]
                   ELSE IF d = store.next THEN Started(conn[d]) ELSE conn[d]]
            /\ pki2Conn' = Replaced(conn[c].pkiID)
            /\ store' = Unlocked
       ELSE /\ conn' = [conn EXCEPT ![c].close = "done"]
            /\ UNCHANGED <<pki2Conn, store>>
    /\ UNCHANGED <<sender, locks, accepted, deadEndpoints, stop>>

-------------------------------------------------------------------------------
(* sendToEndpoint.                                                              *)

Send(s) ==
    /\ sender[s].pc = "idle" /\ ~stopping
    /\ \E p \in Peer, b \in BOOLEAN :
         sender' = [sender EXCEPT ![s] = [Idle EXCEPT !.pc = "lookup", !.peer = p,
                                                      !.shouldBlock = b]]
    /\ UNCHANGED <<conn, table, locks, accepted, deadEndpoints, stop>>

\* getConnection: the lock of the destination.
FindLock(s) ==
    /\ sender[s].pc = "lookup" /\ StoreFree
    /\ LET p == sender[s].peer
       IN  IF isClosing
           THEN /\ sender' = [sender EXCEPT ![s].pc = "disconnect"]
                /\ UNCHANGED destinationLocks
           ELSE \E l \in Lock :
                  /\ IF destinationLocks[p] = NoLock THEN NewLock(l)
                                                     ELSE l = destinationLocks[p]
                  /\ destinationLocks' = [destinationLocks EXCEPT ![p] = l]
                  /\ sender' = [sender EXCEPT ![s] = [@ EXCEPT !.pc = "wait", !.lock = l]]
    /\ UNCHANGED <<conn, table, holder, accepted, deadEndpoints, stop>>

\* With the lock: the store is asked, and the lock kept only to dial.
TakeLock(s) ==
    /\ sender[s].pc = "wait" /\ holder[sender[s].lock] = NoSender /\ StoreFree
    /\ LET c == pki2Conn[sender[s].peer]
       IN  IF c # NoConn
           THEN /\ sender' = [sender EXCEPT ![s] = [@ EXCEPT !.pc = "send", !.conn = c,
                                                            !.lock = NoLock]]
                /\ UNCHANGED holder
           ELSE /\ sender' = [sender EXCEPT ![s].pc = IF stopping THEN "refused"
                                                                ELSE "dial"]
                /\ holder' = [holder EXCEPT ![sender[s].lock] = s]
    /\ UNCHANGED <<conn, table, destinationLocks, accepted, deadEndpoints, stop>>

Dial(s) ==
    /\ sender[s].pc = "dial"
    /\ \E c \in Conn :
         /\ NewConn(c)
         /\ conn' = [conn EXCEPT ![c] = NewConnection(sender[s].peer, FALSE)]
         /\ sender' = [sender EXCEPT ![s] = [@ EXCEPT !.pc = "check", !.conn = c,
                                                      !.lock = NoLock]]
    /\ holder' = [holder EXCEPT ![sender[s].lock] = NoSender]
    /\ UNCHANGED <<table, destinationLocks, accepted, deadEndpoints, stop>>

\* createConnection fails, at once when stopping: getConnection returns with the
\* lock.
DialFails(s) ==
    /\ sender[s].pc \in {"dial", "refused"}
    /\ sender' = [sender EXCEPT ![s] = [@ EXCEPT !.pc = "disconnect", !.lock = NoLock]]
    /\ UNCHANGED <<conn, table, locks, accepted, deadEndpoints, stop>>

\* The dialled connection is dropped when the store is closing.
CheckClosing(s) ==
    /\ sender[s].pc = "check" /\ StoreFree
    /\ sender' = [sender EXCEPT ![s] = IF isClosing
                     THEN [@ EXCEPT !.pc = "disconnect", !.conn = NoConn]
                     ELSE [@ EXCEPT !.pc = "add"]]
    /\ UNCHANGED <<conn, table, locks, accepted, deadEndpoints, stop>>

\* The connection the sender continues with when it has dialled c.  Faulty
\* forms: its own, whatever the store has got meanwhile; what the store has.
OwnConn(p, c) == c
FromStore(p, c) == pki2Conn[p]
Chosen(p, c) == IF pki2Conn[p] # NoConn THEN pki2Conn[p] ELSE c

\* The new connection goes into the store, unless there is one by now: then it
\* is closed (nobody else knows it, close returns at once).
AddConn(s) ==
    /\ sender[s].pc = "add" /\ StoreFree
    /\ LET p == sender[s].peer
           c == sender[s].conn
           d == Chosen(p, c)
       IN  /\ destinationLocks' = [destinationLocks EXCEPT ![p] = NoLock]
           /\ pki2Conn' = [pki2Conn EXCEPT ![p] = d]
           /\ conn' = [conn EXCEPT ![c] =
                  IF d = c THEN Started(@) ELSE [@ EXCEPT !.stopFlag = TRUE]]
           /\ sender' = [sender EXCEPT ![s] = [@ EXCEPT !.pc = "send", !.conn = d]]
    /\ UNCHANGED <<store, holder, accepted, deadEndpoints, stop>>

\* Connection.Send: a full buffer turns a non-blocking send away ...
CheckSend(s) ==
    /\ sender[s].pc = "send"
    /\ LET cn == conn[sender[s].conn]
       IN  sender' = [sender EXCEPT ![s] =
               IF cn.stopFlag \/ (cn.outBuff = SendBuffSize /\ ~sender[s].shouldBlock)
               THEN Idle ELSE [@ EXCEPT !.pc = "enqueue"]]
    /\ UNCHANGED <<conn, table, locks, accepted, deadEndpoints, stop>>

\* ... and only then is the message put into it.
Enqueue(s) ==
    /\ sender[s].pc = "enqueue" /\ conn[sender[s].conn].outBuff < SendBuffSize
    /\ conn' = [conn EXCEPT ![sender[s].conn].outBuff = @ + 1]
    /\ sender' = [sender EXCEPT ![s] = Idle]
    /\ UNCHANGED <<table, locks, accepted, deadEndpoints, stop>>

\* disconnect: report the peer, then close its connection.
Disconnect(s) ==
    /\ sender[s].pc = "disconnect"
    /\ IF stopping
       THEN /\ sender' = [sender EXCEPT ![s] = Idle]
            /\ UNCHANGED deadEndpoints
       ELSE /\ deadEndpoints < DeadEndpoints
            /\ deadEndpoints' = deadEndpoints + 1
            /\ sender' = [sender EXCEPT ![s].pc = "close"]
    /\ UNCHANGED <<conn, table, locks, accepted, stop>>

Close(s) ==
    /\ sender[s].pc = "close"
    /\ CloseByPKIid(sender[s].peer, NoConn, conn)
    /\ sender' = [sender EXCEPT ![s] = Idle]
    /\ UNCHANGED <<locks, accepted, deadEndpoints, stop>>

-------------------------------------------------------------------------------
(* The goroutines of a connection.                                              *)

\* The one token of stopChan goes back for the other goroutine.  A faulty form:
\* whoever takes it keeps it.
Swallow(cn) == [cn EXCEPT !.stopChan = FALSE]
PutBack(cn) == cn

\* writeToStream: a message is written, and the loop's condition decides; when
\* the write fails, onErr runs in a goroutine of its own.
WriterSends(c) ==
    /\ conn[c].writer = "run" /\ conn[c].outBuff > 0
    /\ \E ok \in BOOLEAN :
         conn' = [conn EXCEPT ![c] =
             [@ EXCEPT !.outBuff = conn[c].outBuff - 1,
                       !.writer = IF ok /\ ~conn[c].stopFlag THEN "run" ELSE "done",
                       !.onErr = IF ok THEN conn[c].onErr ELSE "disconnect"]]
    /\ UNCHANGED <<sender, table, locks, accepted, deadEndpoints, stop>>

WriterStops(c) ==
    /\ conn[c].writer = "run" /\ conn[c].stopChan
    /\ conn' = [conn EXCEPT ![c] = [PutBack(@) EXCEPT !.writer = "done"]]
    /\ UNCHANGED <<sender, table, locks, accepted, deadEndpoints, stop>>

OnErr(c) ==
    /\ conn[c].onErr = "disconnect"
    /\ IF stopping
       THEN /\ conn' = [conn EXCEPT ![c].onErr = "no"]
            /\ UNCHANGED deadEndpoints
       ELSE /\ deadEndpoints < DeadEndpoints
            /\ deadEndpoints' = deadEndpoints + 1
            /\ conn' = [conn EXCEPT ![c].onErr = "close"]
    /\ UNCHANGED <<sender, table, locks, accepted, stop>>

OnErrCloses(c) ==
    /\ conn[c].onErr = "close"
    /\ CloseByPKIid(conn[c].pkiID, NoConn, [conn EXCEPT ![c].onErr = "no"])
    /\ UNCHANGED <<sender, locks, accepted, deadEndpoints, stop>>

\* serviceConnection returns, told to stop or because the stream has ended.  The
\* one of a dialled connection closes nothing, GossipStream does.
ServiceEnds(c) ==
    /\ conn[c].service = "run"
    /\ conn' = [conn EXCEPT ![c] =
           [(IF conn[c].stopChan THEN PutBack(@) ELSE @) EXCEPT
               !.service = IF conn[c].server THEN "cleanup" ELSE "done"]]
    /\ UNCHANGED <<sender, table, locks, accepted, deadEndpoints, stop>>

\* GossipStream's deferred function: whatever connection the peer has by now is
\* closed, and then its own.
CleanUp(c) ==
    /\ conn[c].service = "cleanup"
    /\ CloseByPKIid(conn[c].pkiID, c, [conn EXCEPT ![c].service = "close"])
    /\ UNCHANGED <<sender, locks, accepted, deadEndpoints, stop>>

CloseOwn(c) ==
    /\ conn[c].service = "close" /\ store.by # c
    /\ conn' = [conn EXCEPT ![c] =
           [(IF @.stopFlag THEN @ ELSE StartClose(@)) EXCEPT !.service = "done"]]
    /\ UNCHANGED <<sender, table, locks, accepted, deadEndpoints, stop>>

-------------------------------------------------------------------------------
(* The environment: streams, the membership, Stop.                              *)

\* GossipStream authenticates a remote peer ...
Authenticate(p) ==
    /\ ~stopping /\ p \in Remote \ accepted
    /\ accepted' = accepted \cup {p}
    /\ UNCHANGED <<sender, conn, table, locks, deadEndpoints, stop>>

\* ... and onConnected puts its connection in the place of an older one.
OnConnected(p) ==
    /\ p \in accepted /\ StoreFree
    /\ accepted' = accepted \ {p}
    /\ \E c \in Conn :
         /\ NewConn(c)
         /\ LET new == NewConnection(p, TRUE)
                old == pki2Conn[p]
            IN  IF old # NoConn /\ ~conn[old].stopFlag
                THEN /\ conn' = [conn EXCEPT ![c] = new, ![old] = StartClose(@)]
                     /\ store' = [closing |-> old, next |-> c, by |-> NoConn]
                     /\ UNCHANGED pki2Conn
                ELSE /\ conn' = [conn EXCEPT ![c] = Started(new)]
                     /\ pki2Conn' = [pki2Conn EXCEPT ![p] = c]
                     /\ UNCHANGED store
    /\ UNCHANGED <<sender, locks, deadEndpoints, stop>>

\* The membership declares p dead, or its identity is purged.
CloseConn(p) ==
    /\ pki2Conn[p] # NoConn
    /\ CloseByPKIid(p, NoConn, conn)
    /\ UNCHANGED <<sender, locks, accepted, deadEndpoints, stop>>

\* The gossip service takes a peer out of deadEndpoints.
ReceivePresumedDead ==
    /\ deadEndpoints > 0
    /\ deadEndpoints' = deadEndpoints - 1
    /\ UNCHANGED <<sender, conn, table, locks, accepted, stop>>

\* Stop.
StartStop ==
    /\ MayStop /\ ~stopping
    /\ stopping' = TRUE
    /\ UNCHANGED <<sender, conn, table, locks, accepted, deadEndpoints,
                   isClosing, connections2Close>>

CloseStore ==
    /\ stopping /\ ~isClosing /\ StoreFree
    /\ isClosing' = TRUE
    /\ connections2Close' = {p \in Peer : pki2Conn[p] # NoConn}
    /\ UNCHANGED <<sender, conn, table, locks, accepted, deadEndpoints, stopping>>

StopCloses(p) ==
    /\ p \in connections2Close
    /\ CloseByPKIid(p, NoConn, conn)
    /\ connections2Close' = connections2Close \ {p}
    /\ UNCHANGED <<sender, locks, accepted, deadEndpoints, stopping, isClosing>>

-------------------------------------------------------------------------------
SenderStep(s) == FindLock(s) \/ TakeLock(s) \/ Dial(s) \/ DialFails(s)
                 \/ CheckClosing(s) \/ AddConn(s) \/ CheckSend(s) \/ Enqueue(s) \/ Disconnect(s) \/ Close(s)
CloseStep(c)  == CheckOutBuff(c) \/ DrainOutBuff(c) \/ Closed(c)
WriterStep(c) == WriterSends(c) \/ WriterStops(c)
OtherStep(c)  == OnErr(c) \/ OnErrCloses(c) \/ ServiceEnds(c) \/ CleanUp(c) \/ CloseOwn(c)

Next ==
    \/ \E s \in Sender : Send(s) \/ SenderStep(s)
    \/ \E c \in Conn : CloseStep(c) \/ WriterStep(c) \/ OtherStep(c)
    \/ \E p \in Peer : Authenticate(p) \/ OnConnected(p) \/ CloseConn(p) \/ StopCloses(p)
    \/ ReceivePresumedDead \/ StartStop \/ CloseStore

Spec == Init /\ [][Next]_vars

\* Goroutines that can run do; locks are handed to those that wait.
Fairness ==
    /\ \A s \in Sender : /\ SF_vars(FindLock(s) \/ TakeLock(s)
                                   \/ CheckClosing(s) \/ AddConn(s))
                         /\ WF_vars(Dial(s) \/ DialFails(s))
                         /\ WF_vars(CheckSend(s))
                         /\ SF_vars(Enqueue(s) \/ Disconnect(s) \/ Close(s))
    /\ \A c \in Conn : /\ WF_vars(CloseStep(c))
                       /\ WF_vars(WriterStep(c))
    /\ WF_vars(ReceivePresumedDead)

FairSpec == Spec /\ Fairness

\* Only the goroutines that write are known to go on.
WritersSpec == Spec /\ \A c \in Conn : WF_vars(WriterStep(c))

-------------------------------------------------------------------------------
SenderPC == {"idle", "lookup", "wait", "dial", "refused", "check", "add", "send",
             "enqueue", "disconnect", "close"}

(* Every variable keeps its type: in particular no channel is over its          *)
(* capacity, and a sender that waits for or holds a lock knows which.           *)
TypeOK ==
    /\ sender \in [Sender -> [pc : SenderPC, peer : Peer \cup {NoPeer}, shouldBlock : BOOLEAN,
                              lock : Lock \cup {NoLock}, conn : Conn \cup {NoConn}]]
    /\ \A s \in Sender : /\ sender[s].pc # "idle" => sender[s].peer \in Peer
                         /\ sender[s].pc \in {"wait", "dial", "refused"} => sender[s].lock \in Lock
                         /\ sender[s].pc \in {"check", "add", "send", "enqueue"} => sender[s].conn \in Conn
    /\ conn \in [Conn -> [pkiID : Peer \cup {NoPeer}, server : BOOLEAN, stopFlag : BOOLEAN,
                          stopChan : BOOLEAN, outBuff : 0 .. SendBuffSize,
                          close : {"no", "check", "receive", "done"},
                          writer : {"none", "run", "done"},
                          service : {"none", "run", "cleanup", "close", "done"},
                          onErr : {"no", "disconnect", "close"}]]
    /\ pki2Conn \in [Peer -> Conn \cup {NoConn}]
    /\ destinationLocks \in [Peer -> Lock \cup {NoLock}]
    /\ holder \in [Lock -> Sender \cup {NoSender}]
    /\ store \in [closing : Conn \cup {NoConn}, next : Conn \cup {NoConn},
                  by : Conn \cup {NoConn}]
    /\ accepted \subseteq Peer /\ connections2Close \subseteq Peer
    /\ deadEndpoints \in 0 .. DeadEndpoints
    /\ stopping \in BOOLEAN /\ isClosing \in BOOLEAN

(* What getConnection hands out of the store is usable: a stored connection is  *)
(* its peer's and not closed, except while the store's lock is held to take it  *)
(* out.  Dialling, accepting, failing writers, ending streams and Stop all      *)
(* close connections, and all of them but one under that lock.                  *)
StoredAreOpen ==
    \A p \in Peer : LET c == pki2Conn[p] IN
        c # NoConn => /\ conn[c].pkiID = p
                      /\ conn[c].stopFlag <=> store.closing = c

(* No connection runs on its own: one whose goroutines serve it and which       *)
(* nobody has closed is the one its peer has in the store, so that a later      *)
(* closeByPKIid reaches it.                                                     *)
NoOrphans ==
    \A c \in Conn : conn[c].writer = "run" /\ ~conn[c].stopFlag =>
                       pki2Conn[conn[c].pkiID] = c

(* At most one connection to a peer is open, and it is in the store, however     *)
(* dials, streams, failures and the membership meet (connectionStore).           *)
OneConnection == StoredAreOpen /\ NoOrphans

(* A connection that is closed stops being written to, though one token serves  *)
(* both of its goroutines.                                                      *)
ClosedConnectionsStop ==
    \A c \in Conn : conn[c].stopFlag ~> conn[c].writer \in {"none", "done"}

(* Send and SendWithAck name a time to wait: what was started to send a message *)
(* ends.                                                                        *)
SendsEnd == \A s \in Sender : sender[s].pc # "idle" ~> sender[s].pc = "idle"
===============================================================================
