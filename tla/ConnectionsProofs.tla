--------------------------- MODULE ConnectionsProofs ---------------------------
(* Proofs about Connections, for any peers, senders, connections, locks and        *)
(* capacities.                                                                     *)
(*                                                                                 *)
(* Whether a peer has one open connection depends on three hands a connection can  *)
(* be in: the store's, that of the sender that dialled it and has not yet asked    *)
(* the store, and that of the closing it is to follow.  The invariant says that no *)
(* connection is in two of them and that what runs without being closed is in the  *)
(* first.                                                                          *)
EXTENDS Connections, TLAPS

-------------------------------------------------------------------------------
(* The inductive invariant.                                                       *)

Sends == [pc : SenderPC, peer : Peer \cup {NoPeer}, shouldBlock : BOOLEAN,
          lock : Lock \cup {NoLock}, conn : Conn \cup {NoConn}]
Connection ==
    [pkiID : Peer \cup {NoPeer}, server : BOOLEAN, stopFlag : BOOLEAN,
     stopChan : BOOLEAN, outBuff : 0 .. SendBuffSize,
     close : {"no", "check", "receive", "done"},
     writer : {"none", "run", "done"},
     service : {"none", "run", "cleanup", "close", "done"},
     onErr : {"no", "disconnect", "close"}]
Tables == [closing : Conn \cup {NoConn}, next : Conn \cup {NoConn},
           by : Conn \cup {NoConn}]

SenderFits(sn) ==
    /\ sn.pc # "idle" => sn.peer \in Peer
    /\ sn.pc \in {"wait", "dial", "refused"} => sn.lock \in Lock
    /\ sn.pc \in {"check", "add", "send", "enqueue"} => sn.conn \in Conn
SenderTyped == sender \in [Sender -> Sends] /\ \A s \in Sender : SenderFits(sender[s])
ConnTyped == conn \in [Conn -> Connection]
TableTyped == pki2Conn \in [Peer -> Conn \cup {NoConn}] /\ store \in Tables
LocksTyped ==
    /\ destinationLocks \in [Peer -> Lock \cup {NoLock}]
    /\ holder \in [Lock -> Sender \cup {NoSender}]
RestTyped ==
    /\ accepted \subseteq Peer /\ connections2Close \subseteq Peer
    /\ deadEndpoints \in 0 .. DeadEndpoints
    /\ stopping \in BOOLEAN /\ isClosing \in BOOLEAN
Typed == SenderTyped /\ ConnTyped /\ TableTyped /\ LocksTyped /\ RestTyped

\* Only a connection that was in the store has goroutines; its GossipStream closes it
\* last.
Serving(cn) == cn.writer # "none"
ConnFits(cn) ==
    /\ cn.service # "none" \/ cn.onErr # "no" => Serving(cn)
    /\ Serving(cn) => cn.pkiID \in Peer
    /\ cn.service = "close" => cn.stopFlag
ConnsFit == \A c \in Conn : ConnFits(conn[c])

\* The store's hand.
Stored ==
    \A p \in Peer : pki2Conn[p] # NoConn =>
        /\ conn[pki2Conn[p]].pkiID = p /\ Serving(conn[pki2Conn[p]])
        /\ conn[pki2Conn[p]].stopFlag <=> store.closing = pki2Conn[p]
Running ==
    \A c \in Conn : Serving(conn[c]) /\ ~conn[c].stopFlag => pki2Conn[conn[c].pkiID] = c

\* The hands of the closing and of the senders.
Fresh(c, p) == conn[c].pkiID = p /\ ~Serving(conn[c]) /\ ~conn[c].stopFlag
Closing ==
    /\ store.closing # NoConn =>
          /\ conn[store.closing].pkiID \in Peer
          /\ pki2Conn[conn[store.closing].pkiID] = store.closing
    /\ store.next # NoConn =>
          /\ store.closing # NoConn
          /\ Fresh(store.next, conn[store.closing].pkiID)
Has(s, c) == sender[s].pc \in {"check", "add"} /\ sender[s].conn = c
Dialled ==
    \A s \in Sender, c \in Conn : Has(s, c) =>
        /\ Fresh(c, sender[s].peer) /\ store.next # c
        /\ \A r \in Sender \ {s} : ~Has(r, c)

IInv == Typed /\ ConnsFit /\ Stored /\ Running /\ Closing /\ Dialled

\* Nothing is connected at first.
LEMMA InitIInv == Init => IInv
<1> SUFFICES ASSUME Init PROVE IInv
  OBVIOUS
<1> USE ConnectionsAssumption DEF Init
<1>1. Idle \in Sends /\ SenderFits(Idle) /\ Idle.pc = "idle"
  BY DEF Idle, Sends, SenderPC, SenderFits
<1>2. SenderTyped
  BY <1>1 DEF SenderTyped
<1>3. NewConnection(NoPeer, FALSE) \in Connection
  BY DEF NewConnection, Connection
<1>4. ConnTyped
  BY <1>3 DEF ConnTyped
<1>5. TableTyped /\ LocksTyped /\ RestTyped
  <2>1. TableTyped
    BY DEF TableTyped, Tables, Unlocked
  <2>2. LocksTyped
    BY DEF LocksTyped
  <2>3. RestTyped
    <3>1. /\ accepted \subseteq Peer /\ connections2Close \subseteq Peer
          /\ deadEndpoints \in 0 .. DeadEndpoints
      OBVIOUS
    <3>2. stopping \in BOOLEAN /\ isClosing \in BOOLEAN
      BY Zenon
    <3> QED
      BY <3>1, <3>2 DEF RestTyped
  <2> QED
    BY <2>1, <2>2, <2>3
<1>6. \A c \in Conn : conn[c] = NewConnection(NoPeer, FALSE)
  OBVIOUS
<1>7. ConnsFit /\ Running
  BY <1>6 DEF ConnsFit, Running, ConnFits, Serving, NewConnection
<1>8. Stored /\ Closing
  BY DEF Stored, Closing, Unlocked
<1>9. Dialled
  BY <1>1 DEF Dialled, Has
<1> QED
  BY <1>2, <1>4, <1>5, <1>7, <1>8, <1>9 DEF IInv, Typed

-------------------------------------------------------------------------------
(* Steps that leave every connection in the hand it is in.                        *)

Alike(cn, new) ==
    /\ new.pkiID = cn.pkiID /\ new.stopFlag = cn.stopFlag
    /\ Serving(new) <=> Serving(cn)
KeepsConns == ConnTyped' /\ ConnsFit' /\ \A c \in Conn : Alike(conn[c], conn'[c])
KeepsSenders ==
    \A s \in Sender, c \in Conn :
        Has(s, c)' => Has(s, c) /\ sender'[s].peer = sender[s].peer

\* A connection is written to, read from, or drained.
LEMMA Touching ==
    ASSUME ConnTyped, ConnsFit, NEW c \in Conn, NEW new \in Connection,
           Alike(conn[c], new), ConnFits(new), conn' = [conn EXCEPT ![c] = new]
    PROVE  KeepsConns
<1>1. conn'[c] = new /\ \A d \in Conn \ {c} : conn'[d] = conn[d]
  BY DEF ConnTyped
<1>2. ConnTyped'
  BY DEF ConnTyped
<1>3. ConnsFit'
  BY <1>1 DEF ConnsFit
<1>4. \A d \in Conn : Alike(conn[d], conn'[d])
  BY <1>1 DEF Alike
<1> QED
  BY <1>2, <1>3, <1>4 DEF KeepsConns

LEMMA NoTouch == ASSUME ConnTyped, ConnsFit, UNCHANGED conn PROVE KeepsConns
BY DEF KeepsConns, ConnTyped, ConnsFit, Alike

\* A sender goes on; it is not given a connection that it has just dialled.
LEMMA Going ==
    ASSUME SenderTyped, NEW s \in Sender, NEW new \in Sends, SenderFits(new),
           \/ new.pc \notin {"check", "add"}
           \/ /\ sender[s].pc \in {"check", "add"}
              /\ new.conn = sender[s].conn /\ new.peer = sender[s].peer,
           sender' = [sender EXCEPT ![s] = new]
    PROVE  SenderTyped' /\ KeepsSenders
<1>1. sender'[s] = new /\ \A r \in Sender \ {s} : sender'[r] = sender[r]
  BY DEF SenderTyped
<1>2. SenderTyped'
  BY <1>1 DEF SenderTyped
<1>3. KeepsSenders
  BY <1>1 DEF KeepsSenders, Has
<1> QED
  BY <1>2, <1>3

LEMMA NoGoing == ASSUME SenderTyped, UNCHANGED sender PROVE SenderTyped' /\ KeepsSenders
BY DEF SenderTyped, KeepsSenders, Has

Hands == TableTyped /\ Stored /\ Running /\ Closing /\ Dialled

LEMMA Keeping ==
    ASSUME Typed, Hands, KeepsConns, KeepsSenders, UNCHANGED table
    PROVE  Hands'
<1> USE DEF Hands
<1>1. \A c \in Conn : Alike(conn[c], conn'[c])
  BY DEF KeepsConns
<1>2. /\ pki2Conn' = pki2Conn /\ store' = store
      /\ pki2Conn \in [Peer -> Conn \cup {NoConn}]
      /\ store.closing \in Conn \cup {NoConn} /\ store.next \in Conn \cup {NoConn}
  BY DEF table, TableTyped, Tables
<1>3. TableTyped'
  BY <1>2 DEF TableTyped
<1>4. Stored'
  BY <1>1, <1>2 DEF Stored, Alike
<1>5. Running'
  BY <1>1, <1>2 DEF Running, Alike
<1>6. \A p : \A c \in Conn : Fresh(c, p)' <=> Fresh(c, p)
  BY <1>1 DEF Fresh, Alike
<1>7. Closing'
  BY <1>1, <1>2, <1>6 DEF Closing, Alike
<1>8. Dialled'
  BY <1>2, <1>6 DEF Dialled, KeepsSenders
<1> QED
  BY <1>3, <1>4, <1>5, <1>7, <1>8

LEMMA Drained ==
    ASSUME NEW cn \in Connection, cn.outBuff > 0
    PROVE  cn.outBuff - 1 \in 0 .. SendBuffSize
<1>1. cn.outBuff \in 0 .. SendBuffSize
  BY DEF Connection
<1> QED
  BY <1>1, ConnectionsAssumption

\* The connection's own goroutines, and the closing as long as it drains.
LEMMA Working ==
    ASSUME ConnTyped, ConnsFit, NEW c \in Conn,
           \/ CheckOutBuff(c) \/ DrainOutBuff(c) \/ WriterSends(c) \/ WriterStops(c)
           \/ OnErr(c) \/ ServiceEnds(c) \/ CloseOwn(c)
           \/ Closed(c) /\ store.closing # c
    PROVE  KeepsConns /\ UNCHANGED table
<1>0. /\ conn[c] \in Connection /\ ConnFits(conn[c])
  BY DEF ConnTyped, ConnsFit
<1> USE DEF ConnFits, Alike, Serving
<1>1. CASE CheckOutBuff(c)
  <2> DEFINE new == [conn[c] EXCEPT !.close = "receive"]
  <2>1. new \in Connection /\ Alike(conn[c], new) /\ ConnFits(new)
    BY <1>0 DEF Connection
  <2>2. conn' = [conn EXCEPT ![c] = new] /\ UNCHANGED table
    BY <1>1 DEF CheckOutBuff
  <2> HIDE DEF new
  <2> QED
    BY <2>1, <2>2, Touching
<1>2. CASE DrainOutBuff(c)
  <2> DEFINE new == [conn[c] EXCEPT !.outBuff = conn[c].outBuff - 1, !.close = "check"]
  <2>1. conn' = [conn EXCEPT ![c] = new] /\ UNCHANGED table /\ conn[c].outBuff > 0
    BY <1>2 DEF DrainOutBuff
  <2>2. conn[c].outBuff - 1 \in 0 .. SendBuffSize
    BY <1>0, <2>1, Drained, Zenon
  <2>3. new \in Connection /\ Alike(conn[c], new) /\ ConnFits(new)
    BY <1>0, <2>2 DEF Connection
  <2> HIDE DEF new
  <2> QED
    BY <2>1, <2>3, Touching
<1>3. CASE WriterSends(c)
  <2>1. PICK ok \in BOOLEAN :
          conn' = [conn EXCEPT ![c] =
             [@ EXCEPT !.outBuff = conn[c].outBuff - 1,
                       !.writer = IF ok /\ ~conn[c].stopFlag THEN "run" ELSE "done",
                       !.onErr = IF ok THEN conn[c].onErr ELSE "disconnect"]]
    BY <1>3 DEF WriterSends
  <2> DEFINE new == [conn[c] EXCEPT
                       !.outBuff = conn[c].outBuff - 1,
                       !.writer = IF ok /\ ~conn[c].stopFlag THEN "run" ELSE "done",
                       !.onErr = IF ok THEN conn[c].onErr ELSE "disconnect"]
  <2>2. conn' = [conn EXCEPT ![c] = new] /\ UNCHANGED table /\ conn[c].outBuff > 0
        /\ conn[c].writer = "run"
    BY <1>3, <2>1 DEF WriterSends
  <2>3. new \in Connection
    <3>1. conn[c].outBuff - 1 \in 0 .. SendBuffSize
      BY <1>0, <2>2, Drained, Zenon
    <3> QED
      BY <1>0, <3>1 DEF Connection
  <2>4. Alike(conn[c], new) /\ ConnFits(new)
    BY <1>0, <2>2 DEF Connection
  <2> HIDE DEF new
  <2> QED
    BY <2>2, <2>3, <2>4, Touching
<1>4. CASE WriterStops(c)
  <2> DEFINE new == [conn[c] EXCEPT !.writer = "done"]
  <2>1. conn' = [conn EXCEPT ![c] = new] /\ UNCHANGED table /\ conn[c].writer = "run"
    BY <1>4 DEF WriterStops, PutBack
  <2>2. new \in Connection /\ Alike(conn[c], new) /\ ConnFits(new)
    BY <1>0, <2>1 DEF Connection
  <2> HIDE DEF new
  <2> QED
    BY <2>1, <2>2, Touching
<1>5. CASE OnErr(c)
  <2>1. PICK e \in {"no", "close"} : conn' = [conn EXCEPT ![c].onErr = e]
    BY <1>5 DEF OnErr
  <2> DEFINE new == [conn[c] EXCEPT !.onErr = e]
  <2>2. conn' = [conn EXCEPT ![c] = new] /\ UNCHANGED table
        /\ conn[c].onErr = "disconnect"
    BY <1>5, <2>1 DEF OnErr
  <2>3. new \in Connection /\ Alike(conn[c], new) /\ ConnFits(new)
    BY <1>0, <2>2 DEF Connection
  <2> HIDE DEF new
  <2> QED
    BY <2>2, <2>3, Touching
<1>6. CASE ServiceEnds(c)
  <2>1. PICK e \in {"cleanup", "done"} : conn' = [conn EXCEPT ![c] = [@ EXCEPT !.service = e]]
    BY <1>6 DEF ServiceEnds, PutBack
  <2> DEFINE new == [conn[c] EXCEPT !.service = e]
  <2>2. conn' = [conn EXCEPT ![c] = new] /\ UNCHANGED table /\ conn[c].service = "run"
    BY <1>6, <2>1 DEF ServiceEnds
  <2>3. new \in Connection /\ Alike(conn[c], new) /\ ConnFits(new)
    BY <1>0, <2>2 DEF Connection
  <2> HIDE DEF new
  <2> QED
    BY <2>2, <2>3, Touching
<1>7. CASE CloseOwn(c)
  <2> DEFINE new == [conn[c] EXCEPT !.service = "done"]
  <2>1. conn[c].service = "close" /\ conn[c].stopFlag
    BY <1>0, <1>7 DEF CloseOwn
  <2>2. conn' = [conn EXCEPT ![c] = new] /\ UNCHANGED table
    BY <1>7, <2>1 DEF CloseOwn
  <2>3. new \in Connection /\ Alike(conn[c], new) /\ ConnFits(new)
    BY <1>0, <2>1 DEF Connection
  <2> HIDE DEF new
  <2> QED
    BY <2>2, <2>3, Touching
<1>8. CASE Closed(c) /\ store.closing # c
  <2> DEFINE new == [conn[c] EXCEPT !.close = "done"]
  <2>1. conn' = [conn EXCEPT ![c] = new] /\ UNCHANGED table
    BY <1>8 DEF Closed, table
  <2>2. new \in Connection /\ Alike(conn[c], new) /\ ConnFits(new)
    BY <1>0 DEF Connection
  <2> HIDE DEF new
  <2> QED
    BY <2>1, <2>2, Touching
<1> QED
  BY <1>1, <1>2, <1>3, <1>4, <1>5, <1>6, <1>7, <1>8

-------------------------------------------------------------------------------
(* The senders.                                                                   *)

\* Whatever a sender does short of dialling and of asking the store.
LEMMA SenderWorks ==
    ASSUME Typed, NEW s \in Sender,
           \/ Send(s) \/ FindLock(s) \/ TakeLock(s) \/ DialFails(s) \/ CheckClosing(s)
           \/ CheckSend(s) \/ Enqueue(s) \/ Disconnect(s) \/ Close(s)
    PROVE  SenderTyped' /\ KeepsSenders
<1>0. SenderTyped /\ sender[s] \in Sends /\ SenderFits(sender[s])
  BY DEF Typed, SenderTyped
<1>a. Idle \in Sends /\ SenderFits(Idle) /\ Idle.pc = "idle"
  BY DEF Idle, Sends, SenderPC, SenderFits
<1> USE DEF SenderPC
<1>1. CASE Send(s)
  <2>1. PICK p \in Peer, b \in BOOLEAN :
          sender' = [sender EXCEPT ![s] = [Idle EXCEPT !.pc = "lookup", !.peer = p,
                                                       !.shouldBlock = b]]
    BY <1>1 DEF Send
  <2> DEFINE new == [Idle EXCEPT !.pc = "lookup", !.peer = p, !.shouldBlock = b]
  <2>2. new \in Sends
    BY <1>a DEF Sends
  <2>3. SenderFits(new) /\ new.pc = "lookup"
    BY <1>a DEF Sends, SenderFits
  <2> HIDE DEF new
  <2> QED
    BY <1>0, <2>1, <2>2, <2>3, Going DEF new
<1>2. CASE FindLock(s)
  <2>1. CASE sender' = [sender EXCEPT ![s].pc = "disconnect"]
    <3> DEFINE new == [sender[s] EXCEPT !.pc = "disconnect"]
    <3>1. new \in Sends /\ SenderFits(new) /\ new.pc = "disconnect"
      BY <1>0, <1>2 DEF Sends, SenderFits, FindLock
    <3>2. sender' = [sender EXCEPT ![s] = new]
      BY <2>1
    <3> HIDE DEF new
    <3> QED
      BY <1>0, <3>1, <3>2, Going
  <2>2. ASSUME NEW l \in Lock, sender' = [sender EXCEPT ![s] = [@ EXCEPT !.pc = "wait", !.lock = l]]
        PROVE  SenderTyped' /\ KeepsSenders
    <3> DEFINE new == [sender[s] EXCEPT !.pc = "wait", !.lock = l]
    <3>1. new \in Sends /\ SenderFits(new) /\ new.pc = "wait"
      BY <1>0, <1>2 DEF Sends, SenderFits, FindLock
    <3>2. sender' = [sender EXCEPT ![s] = new]
      BY <2>2
    <3> HIDE DEF new
    <3> QED
      BY <1>0, <3>1, <3>2, Going
  <2> QED
    BY <1>2, <2>1, <2>2 DEF FindLock
<1>3. CASE TakeLock(s)
  <2> DEFINE c == pki2Conn[sender[s].peer]
  <2>1. sender[s].pc = "wait" /\ sender[s].peer \in Peer /\ c \in Conn \cup {NoConn}
    BY <1>0, <1>3 DEF TakeLock, SenderFits, Typed, TableTyped
  <2>2. CASE c # NoConn
    <3> DEFINE new == [sender[s] EXCEPT !.pc = "send", !.conn = c, !.lock = NoLock]
    <3>1. sender' = [sender EXCEPT ![s] = new]
      BY <1>3, <2>2 DEF TakeLock
    <3> HIDE DEF c
    <3>2. new \in Sends /\ SenderFits(new) /\ new.pc = "send"
      BY <1>0, <2>1, <2>2 DEF Sends, SenderFits
    <3> HIDE DEF new
    <3> QED
      BY <1>0, <3>1, <3>2, Going
  <2>3. CASE c = NoConn
    <3>1. PICK pc \in {"refused", "dial"} : sender' = [sender EXCEPT ![s].pc = pc]
      BY <1>3, <2>3 DEF TakeLock
    <3> DEFINE new == [sender[s] EXCEPT !.pc = pc]
    <3>2. new \in Sends /\ SenderFits(new) /\ new.pc = pc
      BY <1>0, <2>1 DEF Sends, SenderFits
    <3>3. sender' = [sender EXCEPT ![s] = new]
      BY <3>1
    <3> HIDE DEF new
    <3> QED
      BY <1>0, <3>2, <3>3, Going
  <2> QED
    BY <2>2, <2>3
<1>4. CASE DialFails(s)
  <2> DEFINE new == [sender[s] EXCEPT !.pc = "disconnect", !.lock = NoLock]
  <2>1. new \in Sends /\ SenderFits(new) /\ new.pc = "disconnect"
    BY <1>0, <1>4 DEF Sends, SenderFits, DialFails
  <2>2. sender' = [sender EXCEPT ![s] = new]
    BY <1>4 DEF DialFails
  <2> HIDE DEF new
  <2> QED
    BY <1>0, <2>1, <2>2, Going
<1>5. CASE CheckClosing(s)
  <2> DEFINE dropped == [sender[s] EXCEPT !.pc = "disconnect", !.conn = NoConn]
             kept == [sender[s] EXCEPT !.pc = "add"]
  <2>1. sender[s].pc = "check" /\ \/ sender' = [sender EXCEPT ![s] = dropped]
                                  \/ sender' = [sender EXCEPT ![s] = kept]
    BY <1>5 DEF CheckClosing
  <2>2. dropped \in Sends /\ SenderFits(dropped) /\ dropped.pc = "disconnect"
    BY <1>0, <2>1 DEF Sends, SenderFits
  <2>3. /\ kept \in Sends /\ SenderFits(kept)
        /\ kept.conn = sender[s].conn /\ kept.peer = sender[s].peer
    BY <1>0, <2>1 DEF Sends, SenderFits
  <2> HIDE DEF dropped, kept
  <2> QED
    BY <1>0, <2>1, <2>2, <2>3, Going
<1>6. CASE CheckSend(s)
  <2> DEFINE new == [sender[s] EXCEPT !.pc = "enqueue"]
  <2>1. sender[s].pc = "send" /\ \/ sender' = [sender EXCEPT ![s] = Idle]
                                 \/ sender' = [sender EXCEPT ![s] = new]
    BY <1>6 DEF CheckSend
  <2>2. new \in Sends /\ SenderFits(new) /\ new.pc = "enqueue"
    BY <1>0, <2>1 DEF Sends, SenderFits
  <2> HIDE DEF new
  <2> QED
    BY <1>0, <1>a, <2>1, <2>2, Going
<1>7. CASE Enqueue(s) \/ Close(s)
  <2>1. sender' = [sender EXCEPT ![s] = Idle]
    BY <1>7 DEF Enqueue, Close
  <2> QED
    BY <1>0, <1>a, <2>1, Going
<1>8. CASE Disconnect(s)
  <2> DEFINE new == [sender[s] EXCEPT !.pc = "close"]
  <2>1. sender[s].pc = "disconnect" /\ \/ sender' = [sender EXCEPT ![s] = Idle]
                                       \/ sender' = [sender EXCEPT ![s] = new]
    BY <1>8 DEF Disconnect
  <2>2. new \in Sends /\ SenderFits(new) /\ new.pc = "close"
    BY <1>0, <2>1 DEF Sends, SenderFits
  <2> HIDE DEF new
  <2> QED
    BY <1>0, <1>a, <2>1, <2>2, Going
<1> QED
  BY <1>1, <1>2, <1>3, <1>4, <1>5, <1>6, <1>7, <1>8

\* A message is put into a buffer that has room for it.
LEMMA Enqueuing ==
    ASSUME Typed, ConnsFit, NEW s \in Sender, Enqueue(s) PROVE KeepsConns /\ UNCHANGED table
<1> DEFINE c == sender[s].conn
           new == [conn[c] EXCEPT !.outBuff = conn[c].outBuff + 1]
<1>1. c \in Conn
  BY DEF Enqueue, Typed, SenderTyped, SenderFits
<1>2. /\ conn' = [conn EXCEPT ![c] = new] /\ UNCHANGED table
      /\ conn[c].outBuff < SendBuffSize
  BY DEF Enqueue
<1> HIDE DEF c
<1>3. conn[c] \in Connection /\ ConnFits(conn[c])
  BY <1>1 DEF Typed, ConnTyped, ConnsFit
<1>4. conn[c].outBuff + 1 \in 0 .. SendBuffSize
  <2>1. conn[c].outBuff \in 0 .. SendBuffSize
    BY <1>3 DEF Connection
  <2> QED
    BY <1>2, <2>1, ConnectionsAssumption
<1>5. new \in Connection /\ Alike(conn[c], new) /\ ConnFits(new)
  BY <1>3, <1>4 DEF Connection, ConnFits, Alike, Serving
<1> HIDE DEF new
<1> QED
  BY <1>1, <1>2, <1>5, Touching DEF Typed

-------------------------------------------------------------------------------
(* Steps in which a connection changes hands.                                     *)

\* What the close that begins leaves as it is.
LEMMA BeginClose ==
    ASSUME NEW cn \in Connection PROVE
    LET new == StartClose(cn) IN
    /\ new \in Connection /\ new.pkiID = cn.pkiID /\ new.stopFlag
    /\ Serving(new) <=> Serving(cn)
    /\ new.service = cn.service /\ new.onErr = cn.onErr
BY DEF StartClose, Connection, Serving

\* The store's connection of p is closed under the store's lock; the caller's own
\* step on a connection is part of it.
LEMMA Disconnecting ==
    ASSUME Typed, Hands, KeepsSenders, NEW p \in Peer, NEW by \in Conn \cup {NoConn},
           NEW conns \in [Conn -> Connection],
           \A c \in Conn : Alike(conn[c], conns[c]),
           \A c \in Conn : c = pki2Conn[p] \/ ConnFits(conns[c]),
           pki2Conn[p] # NoConn => ConnFits(StartClose(conns[pki2Conn[p]])),
           CloseByPKIid(p, by, conns)
    PROVE  Hands' /\ ConnTyped' /\ ConnsFit'
<1> DEFINE c == pki2Conn[p]
<1>1. /\ pki2Conn \in [Peer -> Conn \cup {NoConn}] /\ NoConn \notin Conn
      /\ store.closing = NoConn /\ store \in Tables
  BY ConnectionsAssumption DEF Typed, TableTyped, CloseByPKIid, StoreFree
<1>2. c # NoConn => c \in Conn /\ conn[c].pkiID = p /\ Serving(conn[c]) /\ ~conn[c].stopFlag
  BY <1>1 DEF Hands, Stored
<1>3. CASE c = NoConn
  <2>1. conn' = conns /\ store' = store /\ pki2Conn' = pki2Conn
    BY <1>1, <1>3 DEF CloseByPKIid
  <2>2. ConnTyped' /\ ConnsFit'
    BY <1>1, <1>3, <2>1 DEF ConnTyped, ConnsFit
  <2>3. KeepsConns
    BY <2>1, <2>2 DEF KeepsConns
  <2> QED
    BY <2>1, <2>2, <2>3, Keeping DEF table
<1>4. CASE c # NoConn
  <2> DEFINE new == StartClose(conns[c])
  <2>1. c \in Conn /\ ~conn[c].stopFlag /\ conn[c].pkiID = p /\ Serving(conn[c])
    BY <1>2, <1>4
  <2>2. /\ conn' = [conns EXCEPT ![c] = new]
        /\ store' = [closing |-> c, next |-> NoConn, by |-> by]
        /\ pki2Conn' = pki2Conn
    BY <1>4, <2>1 DEF CloseByPKIid
  <2>3. /\ new \in Connection /\ new.pkiID = p /\ new.stopFlag /\ Serving(new)
        /\ ConnFits(new)
    BY <1>4, <2>1, BeginClose DEF Alike
  <2> HIDE DEF new, c
  <2>4. conn'[c] = new /\ \A d \in Conn \ {c} : conn'[d] = conns[d]
    BY <2>1, <2>2
  <2>5. ConnTyped' /\ ConnsFit'
    BY <2>1, <2>2, <2>3, <2>4 DEF ConnTyped, ConnsFit, c
  <2>6. /\ \A d \in Conn : conn'[d].pkiID = conn[d].pkiID /\ (Serving(conn'[d]) <=> Serving(conn[d]))
        /\ \A d \in Conn \ {c} : conn'[d].stopFlag = conn[d].stopFlag
        /\ conn'[c].stopFlag
    BY <2>1, <2>3, <2>4 DEF Alike
  <2>7. /\ store'.closing = c /\ store'.next = NoConn /\ store' \in Tables
        /\ pki2Conn[p] = c
    BY <2>1, <2>2 DEF Tables, c
  <2>8. TableTyped'
    BY <1>1, <2>2, <2>7 DEF TableTyped
  <2>9. Stored'
    <3> SUFFICES ASSUME NEW q \in Peer, pki2Conn[q] # NoConn
                 PROVE  /\ conn'[pki2Conn[q]].pkiID = q /\ Serving(conn'[pki2Conn[q]])
                        /\ conn'[pki2Conn[q]].stopFlag <=> c = pki2Conn[q]
      BY <2>2, <2>7 DEF Stored
    <3>1. /\ pki2Conn[q] \in Conn
          /\ conn[pki2Conn[q]].pkiID = q /\ Serving(conn[pki2Conn[q]])
          /\ ~conn[pki2Conn[q]].stopFlag
      BY <1>1 DEF Hands, Stored
    <3> QED
      BY <2>6, <3>1
  <2>10. Running'
    BY <2>2, <2>6 DEF Hands, Running
  <2>11. Closing'
    BY <2>1, <2>2, <2>6, <2>7 DEF Closing
  <2>12. Dialled'
    <3> SUFFICES ASSUME NEW s \in Sender, NEW d \in Conn, Has(s, d)'
                 PROVE  /\ Fresh(d, sender[s].peer)' /\ store'.next # d
                        /\ \A r \in Sender \ {s} : ~Has(r, d)'
      BY DEF Dialled
    <3>1. Has(s, d) /\ sender'[s].peer = sender[s].peer
      BY DEF KeepsSenders
    <3>2. Fresh(d, sender[s].peer) /\ \A r \in Sender \ {s} : ~Has(r, d)
      BY <3>1 DEF Hands, Dialled
    <3>3. d # c
      BY <2>1, <3>2 DEF Fresh
    <3>4. Fresh(d, sender[s].peer)'
      BY <2>6, <3>1, <3>2, <3>3 DEF Fresh
    <3> QED
      BY <1>1, <2>7, <3>2, <3>4 DEF KeepsSenders
  <2> QED
    BY <2>5, <2>8, <2>9, <2>10, <2>11, <2>12 DEF Hands
<1> QED
  BY <1>3, <1>4

\* The five that close a connection by its peer.
LEMMA ClosingByPeer ==
    ASSUME Typed, Hands, ConnsFit, KeepsSenders,
           \/ \E p \in Peer : CloseByPKIid(p, NoConn, conn)
           \/ \E c \in Conn : OnErrCloses(c) \/ CleanUp(c)
    PROVE  Hands' /\ ConnTyped' /\ ConnsFit'
<1>1. ASSUME NEW p \in Peer, CloseByPKIid(p, NoConn, conn) PROVE Hands' /\ ConnTyped' /\ ConnsFit'
  <2>1. /\ conn \in [Conn -> Connection] /\ \A c \in Conn : ConnFits(conn[c])
        /\ pki2Conn[p] \in Conn \cup {NoConn}
    BY DEF Typed, ConnTyped, ConnsFit, TableTyped
  <2>2. pki2Conn[p] # NoConn => ConnFits(StartClose(conn[pki2Conn[p]]))
    BY <2>1, BeginClose DEF ConnFits
  <2>3. \A c \in Conn : Alike(conn[c], conn[c])
    BY DEF Alike
  <2>4. \A c \in Conn : c = pki2Conn[p] \/ ConnFits(conn[c])
    BY <2>1
  <2> QED
    BY <1>1, <2>1, <2>2, <2>3, <2>4, Disconnecting
<1>2. ASSUME NEW c \in Conn, OnErrCloses(c) PROVE Hands' /\ ConnTyped' /\ ConnsFit'
  <2> DEFINE p == conn[c].pkiID
             new == [conn[c] EXCEPT !.onErr = "no"]
             conns == [conn EXCEPT ![c] = new]
  <2>1. conn \in [Conn -> Connection] /\ \A d \in Conn : ConnFits(conn[d])
    BY DEF Typed, ConnTyped, ConnsFit
  <2>2. p \in Peer /\ CloseByPKIid(p, NoConn, conns)
    BY <1>2, <2>1 DEF OnErrCloses, ConnFits
  <2>3. new \in Connection /\ Alike(conn[c], new) /\ ConnFits(new)
    BY <2>1 DEF Connection, ConnFits, Alike, Serving
  <2> HIDE DEF new, p
  <2>4. /\ conns \in [Conn -> Connection] /\ conns[c] = new
        /\ \A d \in Conn \ {c} : conns[d] = conn[d]
    BY <2>1, <2>3
  <2> HIDE DEF conns
  <2>5. \A d \in Conn : Alike(conn[d], conns[d])
    BY <2>3, <2>4 DEF Alike
  <2>6. \A d \in Conn : ConnFits(conns[d])
    BY <2>1, <2>3, <2>4
  <2>7. pki2Conn[p] \in Conn \cup {NoConn}
    BY <2>2 DEF Typed, TableTyped
  <2>8. pki2Conn[p] # NoConn => ConnFits(StartClose(conns[pki2Conn[p]]))
    BY <2>4, <2>6, <2>7, BeginClose DEF ConnFits
  <2> QED
    BY <2>2, <2>4, <2>5, <2>6, <2>8, Disconnecting
<1>3. ASSUME NEW c \in Conn, CleanUp(c) PROVE Hands' /\ ConnTyped' /\ ConnsFit'
  <2> DEFINE p == conn[c].pkiID
             new == [conn[c] EXCEPT !.service = "close"]
             conns == [conn EXCEPT ![c] = new]
  <2>1. conn \in [Conn -> Connection] /\ \A d \in Conn : ConnFits(conn[d])
    BY DEF Typed, ConnTyped, ConnsFit
  <2>2. p \in Peer /\ Serving(conn[c]) /\ CloseByPKIid(p, c, conns)
    BY <1>3, <2>1 DEF CleanUp, ConnFits
  <2>3. new \in Connection /\ Alike(conn[c], new)
    BY <2>1 DEF Connection, Alike, Serving
  <2>4. c = pki2Conn[p] \/ ConnFits(new)
    <3>1. c = pki2Conn[p] \/ conn[c].stopFlag
      BY <2>2 DEF Hands, Running
    <3> QED
      BY <2>1, <2>2, <3>1 DEF ConnFits, Connection, Serving
  <2>5. new.pkiID \in Peer /\ Serving(new)
    BY <2>2, <2>3 DEF Alike
  <2> HIDE DEF new, p
  <2>6. /\ conns \in [Conn -> Connection] /\ conns[c] = new
        /\ \A d \in Conn \ {c} : conns[d] = conn[d]
    BY <2>1, <2>3
  <2> HIDE DEF conns
  <2>7. \A d \in Conn : Alike(conn[d], conns[d])
    BY <2>3, <2>6 DEF Alike
  <2>8. \A d \in Conn : d = pki2Conn[p] \/ ConnFits(conns[d])
    BY <2>1, <2>4, <2>6
  <2>9. pki2Conn[p] \in Conn \cup {NoConn}
    BY <2>2 DEF Typed, TableTyped
  <2>10. \A d \in Conn : ConnFits(StartClose(conns[d]))
    <3>1. \A d \in Conn : /\ conns[d] \in Connection
                          /\ conns[d].service # "none" \/ conns[d].onErr # "no" => Serving(conns[d])
                          /\ Serving(conns[d]) => conns[d].pkiID \in Peer
      BY <2>1, <2>5, <2>6 DEF ConnFits
    <3> QED
      BY <3>1, BeginClose DEF ConnFits
  <2> QED
    BY <2>2, <2>6, <2>7, <2>8, <2>9, <2>10, Disconnecting
<1> QED
  BY <1>1, <1>2, <1>3

\* A connection nobody has made yet is in no hand.
LEMMA Unused ==
    ASSUME Typed, Hands, ConnsFit, NEW c \in Conn, NewConn(c)
    PROVE  /\ ~Serving(conn[c]) /\ store.closing # c /\ store.next # c
           /\ \A p \in Peer : pki2Conn[p] # c
           /\ \A s \in Sender : ~Has(s, c)
<1>1. conn[c].pkiID \notin Peer
  BY ConnectionsAssumption DEF NewConn
<1>2. ~Serving(conn[c])
  BY <1>1 DEF ConnsFit, ConnFits
<1>3. store.closing # c /\ store.next # c
  BY <1>1, ConnectionsAssumption DEF Hands, Closing, Fresh, Typed, TableTyped, Tables
<1>4. ASSUME NEW p \in Peer, pki2Conn[p] = c PROVE FALSE
  <2>1. pki2Conn[p] # NoConn
    BY <1>4, ConnectionsAssumption
  <2>2. conn[pki2Conn[p]].pkiID = p
    BY <2>1 DEF Hands, Stored
  <2> QED
    BY <1>1, <1>4, <2>2
<1>5. ASSUME NEW s \in Sender, Has(s, c) PROVE FALSE
  <2>1. sender[s].peer \in Peer
    BY <1>5 DEF Typed, SenderTyped, SenderFits, Has
  <2>2. Fresh(c, sender[s].peer)
    BY <1>5 DEF Hands, Dialled
  <2> QED
    BY <1>1, <2>1, <2>2 DEF Fresh
<1> QED
  BY <1>2, <1>3, <1>4, <1>5

\* What is made is nobody's yet, and what is started serves.
LEMMA NewlyMade ==
    ASSUME NEW p \in Peer, NEW b \in BOOLEAN PROVE
    LET new == NewConnection(p, b) IN
    /\ new \in Connection /\ ConnFits(new) /\ new.pkiID = p
    /\ ~Serving(new) /\ ~new.stopFlag
BY ConnectionsAssumption DEF NewConnection, Connection, ConnFits, Serving

LEMMA Starting ==
    ASSUME NEW cn \in Connection, cn.pkiID \in Peer PROVE
    LET new == Started(cn) IN
    /\ new \in Connection /\ ConnFits(new) /\ Serving(new)
    /\ new.pkiID = cn.pkiID /\ new.stopFlag = cn.stopFlag
BY DEF Started, Connection, ConnFits, Serving

\* A connection that was in no other hand than a sender's or the closing's comes into
\* the store's.
LEMMA Storing ==
    ASSUME Typed, Hands, NEW p \in Peer, NEW c \in Conn, ~Serving(conn[c]),
           ConnTyped', conn'[c].pkiID = p, Serving(conn'[c]), ~conn'[c].stopFlag,
           \A d \in Conn \ {c} : Alike(conn[d], conn'[d]),
           pki2Conn[p] = NoConn \/ conn[pki2Conn[p]].stopFlag,
           store.closing # NoConn => conn[store.closing].pkiID = p,
           pki2Conn' = [pki2Conn EXCEPT ![p] = c],
           store' \in Tables, store'.closing = NoConn, store'.next = NoConn,
           KeepsSenders, \A s \in Sender : ~Has(s, c)'
    PROVE  Hands'
<1>1. /\ pki2Conn \in [Peer -> Conn \cup {NoConn}] /\ NoConn \notin Conn
      /\ pki2Conn'[p] = c /\ \A q \in Peer \ {p} : pki2Conn'[q] = pki2Conn[q]
  BY ConnectionsAssumption DEF Typed, TableTyped
<1>2. store'.closing = NoConn /\ store'.next = NoConn /\ store' \in Tables
  OBVIOUS
<1>3. TableTyped'
  BY <1>1, <1>2 DEF TableTyped
<1>4. ASSUME NEW q \in Peer \ {p}, pki2Conn[q] # NoConn
      PROVE  LET d == pki2Conn[q] IN
             d \in Conn \ {c} /\ conn[d].pkiID = q /\ Serving(conn[d]) /\ ~conn[d].stopFlag
  <2>1. /\ pki2Conn[q] \in Conn /\ conn[pki2Conn[q]].pkiID = q /\ Serving(conn[pki2Conn[q]])
        /\ conn[pki2Conn[q]].stopFlag <=> store.closing = pki2Conn[q]
    BY <1>1, <1>4 DEF Hands, Stored
  <2> QED
    BY <1>1, <2>1
<1>5. Stored'
  <2> SUFFICES ASSUME NEW q \in Peer, pki2Conn'[q] # NoConn
               PROVE  /\ conn'[pki2Conn'[q]].pkiID = q /\ Serving(conn'[pki2Conn'[q]])
                      /\ ~conn'[pki2Conn'[q]].stopFlag
                      /\ pki2Conn'[q] # NoConn
    BY <1>2 DEF Stored
  <2> QED
    BY <1>1, <1>4 DEF Alike
<1>6. Running'
  <2> SUFFICES ASSUME NEW d \in Conn, Serving(conn'[d]), ~conn'[d].stopFlag
               PROVE  pki2Conn'[conn'[d].pkiID] = d
    BY DEF Running
  <2>1. CASE d = c
    BY <1>1, <2>1
  <2>2. CASE d # c
    <3>1. /\ conn'[d].pkiID = conn[d].pkiID /\ ~conn[d].stopFlag
          /\ pki2Conn[conn[d].pkiID] = d
      BY <2>2 DEF Alike, Hands, Running
    <3>2. conn[d].pkiID # p
      BY <1>1, <3>1
    <3> QED
      BY <1>1, <3>1, <3>2
  <2> QED
    BY <2>1, <2>2
<1>7. Closing'
  BY <1>2 DEF Closing
<1>8. Dialled'
  <2> SUFFICES ASSUME NEW s \in Sender, NEW d \in Conn, Has(s, d)'
               PROVE  /\ conn'[d].pkiID = sender'[s].peer /\ ~Serving(conn'[d])
                      /\ ~conn'[d].stopFlag /\ store'.next # d
                      /\ \A r \in Sender \ {s} : ~Has(r, d)'
    BY DEF Dialled, Fresh
  <2>1. d # c /\ Has(s, d) /\ sender'[s].peer = sender[s].peer
    BY DEF KeepsSenders
  <2>2. Fresh(d, sender[s].peer) /\ \A r \in Sender \ {s} : ~Has(r, d)
    BY <2>1 DEF Hands, Dialled
  <2>3. conn'[d].pkiID = sender'[s].peer /\ ~Serving(conn'[d]) /\ ~conn'[d].stopFlag
    BY <2>1, <2>2 DEF Fresh, Alike
  <2> QED
    BY <1>1, <1>2, <2>1, <2>2, <2>3 DEF Fresh, KeepsSenders
<1> QED
  BY <1>3, <1>5, <1>6, <1>7, <1>8 DEF Hands

\* The closing under the store's lock is over: its entry goes, or is replaced.
LEMMA ClosedUnderLock ==
    ASSUME Typed, Hands, ConnsFit, NEW c \in Conn, Closed(c), store.closing = c
    PROVE  Hands' /\ ConnTyped' /\ ConnsFit'
<1> DEFINE p == conn[c].pkiID
           n == store.next
           closed == [conn[c] EXCEPT !.close = "done"]
           New(d) == IF d = c THEN closed ELSE IF d = n THEN Started(conn[d]) ELSE conn[d]
<1>1. /\ NoConn \notin Conn /\ pki2Conn \in [Peer -> Conn \cup {NoConn}]
      /\ n \in Conn \cup {NoConn} /\ conn \in [Conn -> Connection]
      /\ \A d \in Conn : ConnFits(conn[d])
  BY ConnectionsAssumption DEF Typed, TableTyped, Tables, ConnTyped, ConnsFit
<1>2. p \in Peer /\ pki2Conn[p] = c
  BY <1>1 DEF Hands, Closing
<1>3. conn[c].stopFlag /\ Serving(conn[c])
  BY <1>1, <1>2 DEF Hands, Stored
<1>4. n # NoConn => n # c /\ conn[n].pkiID = p /\ ~Serving(conn[n]) /\ ~conn[n].stopFlag
  BY <1>3 DEF Hands, Closing, Fresh
<1>5. closed \in Connection /\ Alike(conn[c], closed) /\ ConnFits(closed)
  <2>1. conn[c] \in Connection /\ ConnFits(conn[c])
    BY <1>1
  <2> QED
    BY <1>3, <2>1 DEF Connection, Alike, ConnFits, Serving
<1>6. /\ conn' = [d \in Conn |-> New(d)]
      /\ pki2Conn' = [pki2Conn EXCEPT ![p] = n] /\ store' = Unlocked /\ UNCHANGED sender
  BY DEF Closed, Replaced
<1> HIDE DEF closed
<1>7. /\ conn'[c] = closed
      /\ n # NoConn => conn'[n] = Started(conn[n])
      /\ \A d \in Conn \ {c, n} : conn'[d] = conn[d]
  BY <1>1, <1>4, <1>6
<1>8. n # NoConn => /\ conn'[n] \in Connection /\ ConnFits(conn'[n]) /\ Serving(conn'[n])
                    /\ conn'[n].pkiID = p /\ ~conn'[n].stopFlag
  BY <1>1, <1>2, <1>4, <1>7, Starting
<1>9. conn' = [d \in Conn |-> conn'[d]]
  BY <1>6
<1> HIDE DEF New, p, n
<1>10. \A d \in Conn : conn'[d] \in Connection /\ ConnFits(conn'[d])
  BY <1>1, <1>5, <1>7, <1>8
<1>11. ConnTyped' /\ ConnsFit'
  BY <1>9, <1>10 DEF ConnTyped, ConnsFit
<1>12. KeepsSenders
  BY <1>6 DEF KeepsSenders, Has
<1>13. \A d \in Conn \ {n} : Alike(conn[d], conn'[d])
  BY <1>5, <1>7 DEF Alike
<1>14. CASE n # NoConn
  <2>1. PICK m \in Conn : m = n
    BY <1>1, <1>14
  <2>2. /\ ~Serving(conn[m])
        /\ conn'[m].pkiID = p /\ Serving(conn'[m]) /\ ~conn'[m].stopFlag
        /\ \A d \in Conn \ {m} : Alike(conn[d], conn'[d])
        /\ pki2Conn' = [pki2Conn EXCEPT ![p] = m]
    BY <1>4, <1>6, <1>8, <1>13, <1>14, <2>1
  <2>3. \A s \in Sender : ~Has(s, m)'
    <3>1. ASSUME NEW s \in Sender, Has(s, m) PROVE store.next # m
      BY <3>1 DEF Hands, Dialled
    <3> QED
      BY <1>12, <2>1, <3>1 DEF KeepsSenders, n
  <2>4. store.closing # NoConn => conn[store.closing].pkiID = p
    BY DEF p
  <2>5. pki2Conn[p] = NoConn \/ conn[pki2Conn[p]].stopFlag
    BY <1>2, <1>3
  <2>6. store' \in Tables /\ store'.closing = NoConn /\ store'.next = NoConn
    BY <1>6 DEF Unlocked, Tables
  <2> QED
    BY <1>2, <1>11, <1>12, <2>2, <2>3, <2>4, <2>5, <2>6, Storing
<1>15. CASE n = NoConn
  <2>1. /\ pki2Conn'[p] = NoConn /\ pki2Conn' \in [Peer -> Conn \cup {NoConn}]
        /\ \A q \in Peer \ {p} : pki2Conn'[q] = pki2Conn[q]
        /\ store'.closing = NoConn /\ store'.next = NoConn /\ store' \in Tables
    BY <1>1, <1>2, <1>6, <1>15 DEF Unlocked, Tables
  <2>2. \A d \in Conn : Alike(conn[d], conn'[d])
    BY <1>1, <1>13, <1>15
  <2>3. TableTyped'
    BY <2>1 DEF TableTyped
  <2>4. Stored'
    <3> SUFFICES ASSUME NEW q \in Peer, pki2Conn'[q] # NoConn
                 PROVE  /\ conn'[pki2Conn'[q]].pkiID = q /\ Serving(conn'[pki2Conn'[q]])
                        /\ ~conn'[pki2Conn'[q]].stopFlag
      BY <2>1 DEF Stored
    <3>1. q # p /\ pki2Conn'[q] = pki2Conn[q] /\ pki2Conn[q] \in Conn
      BY <1>1, <2>1
    <3>2. /\ conn[pki2Conn[q]].pkiID = q /\ Serving(conn[pki2Conn[q]])
          /\ conn[pki2Conn[q]].stopFlag <=> store.closing = pki2Conn[q]
      BY <3>1 DEF Hands, Stored
    <3>3. pki2Conn[q] # c
      BY <3>1, <3>2 DEF p
    <3> QED
      BY <2>2, <3>1, <3>2, <3>3 DEF Alike
  <2>5. Running'
    <3> SUFFICES ASSUME NEW d \in Conn, Serving(conn'[d]), ~conn'[d].stopFlag
                 PROVE  pki2Conn'[conn'[d].pkiID] = d
      BY DEF Running
    <3>1. /\ conn'[d].pkiID = conn[d].pkiID /\ ~conn[d].stopFlag /\ Serving(conn[d])
      BY <2>2 DEF Alike
    <3>2. pki2Conn[conn[d].pkiID] = d /\ conn[d].pkiID \in Peer /\ d # c
      BY <1>1, <1>3, <3>1 DEF Hands, Running, ConnFits
    <3> QED
      BY <1>2, <2>1, <3>1, <3>2
  <2>6. Closing'
    BY <2>1 DEF Closing
  <2>7. Dialled'
    BY <1>1, <1>6, <2>1, <2>2 DEF Hands, Dialled, Has, Fresh, Alike
  <2> QED
    BY <1>11, <2>3, <2>4, <2>5, <2>6, <2>7 DEF Hands
<1> QED
  BY <1>14, <1>15

\* A connection is dialled: it is in the sender's hand.
LEMMA Dialling ==
    ASSUME Typed, Hands, ConnsFit, NEW s \in Sender, Dial(s)
    PROVE  Hands' /\ ConnTyped' /\ ConnsFit' /\ SenderTyped'
<1> DEFINE p == sender[s].peer
<1>1. PICK c \in Conn :
         /\ NewConn(c)
         /\ conn' = [conn EXCEPT ![c] = NewConnection(p, FALSE)]
         /\ sender' = [sender EXCEPT ![s] = [@ EXCEPT !.pc = "check", !.conn = c,
                                                      !.lock = NoLock]]
  BY DEF Dial
<1> DEFINE new == NewConnection(p, FALSE)
           gone == [sender[s] EXCEPT !.pc = "check", !.conn = c, !.lock = NoLock]
<1>2. /\ sender[s] \in Sends /\ SenderFits(sender[s]) /\ sender[s].pc = "dial"
      /\ UNCHANGED table /\ sender' = [sender EXCEPT ![s] = gone]
  BY <1>1 DEF Typed, SenderTyped, Dial
<1>3. /\ gone \in Sends /\ SenderFits(gone)
      /\ gone.pc = "check" /\ gone.conn = c /\ gone.peer = p
  BY <1>2 DEF Sends, SenderPC, SenderFits
<1>4. p \in Peer
  BY <1>2 DEF SenderFits
<1>5. new \in Connection /\ ConnFits(new) /\ new.pkiID = p /\ ~Serving(new) /\ ~new.stopFlag
  BY <1>4, NewlyMade
<1> HIDE DEF gone, new, p
<1>6. /\ ~Serving(conn[c]) /\ store.closing # c /\ store.next # c
      /\ \A q \in Peer : pki2Conn[q] # c
      /\ \A r \in Sender : ~Has(r, c)
  BY <1>1, Unused, Zenon
<1>7. conn'[c] = new /\ \A d \in Conn \ {c} : conn'[d] = conn[d]
  BY <1>1 DEF Typed, ConnTyped, new, p
<1>8. ConnTyped' /\ ConnsFit'
  <2>1. conn' = [conn EXCEPT ![c] = new]
    BY <1>1 DEF new, p
  <2> QED
    BY <1>5, <1>7, <2>1 DEF Typed, ConnTyped, ConnsFit
<1>9. sender'[s] = gone /\ \A r \in Sender \ {s} : sender'[r] = sender[r]
  BY <1>2 DEF Typed, SenderTyped
<1>10. SenderTyped'
  BY <1>2, <1>3, <1>9 DEF Typed, SenderTyped
<1>11. pki2Conn' = pki2Conn /\ store' = store
  BY <1>2 DEF table
<1>12. TableTyped'
  BY <1>11 DEF Hands, TableTyped
<1>13. /\ pki2Conn \in [Peer -> Conn \cup {NoConn}]
       /\ store.closing \in Conn \cup {NoConn} /\ store.next \in Conn \cup {NoConn}
  BY DEF Hands, TableTyped, Tables
<1>14. Stored'
  BY <1>6, <1>7, <1>11, <1>13 DEF Hands, Stored
<1>15. Running'
  BY <1>5, <1>7, <1>11 DEF Hands, Running
<1>16. Closing'
  BY <1>6, <1>7, <1>11, <1>13 DEF Hands, Closing, Fresh
<1>17. ASSUME NEW r \in Sender, NEW d \in Conn, Has(r, d)'
       PROVE  IF r = s THEN d = c ELSE d # c /\ Has(r, d) /\ sender'[r].peer = sender[r].peer
  BY <1>3, <1>6, <1>9, <1>17 DEF Has
<1>18. Dialled'
  <2> SUFFICES ASSUME NEW r \in Sender, NEW d \in Conn, Has(r, d)'
               PROVE  /\ conn'[d].pkiID = sender'[r].peer /\ ~Serving(conn'[d])
                      /\ ~conn'[d].stopFlag /\ store'.next # d
                      /\ \A q \in Sender \ {r} : ~Has(q, d)'
    BY DEF Dialled, Fresh
  <2>1. CASE r = s
    BY <1>3, <1>5, <1>6, <1>7, <1>9, <1>11, <1>17, <2>1
  <2>2. CASE r # s
    <3>1. d # c /\ Has(r, d) /\ sender'[r].peer = sender[r].peer
      BY <1>17, <2>2
    <3>2. Fresh(d, sender[r].peer) /\ store.next # d /\ \A q \in Sender \ {r} : ~Has(q, d)
      BY <3>1 DEF Hands, Dialled
    <3>3. \A q \in Sender \ {r} : ~Has(q, d)'
      BY <1>17, <3>1, <3>2
    <3> QED
      BY <1>7, <1>11, <3>1, <3>2, <3>3 DEF Fresh
  <2> QED
    BY <2>1, <2>2
<1> QED
  BY <1>8, <1>10, <1>12, <1>14, <1>15, <1>16, <1>18 DEF Hands

\* The sender that dialled asks the store: its connection goes into it, or is closed.
LEMMA Adding ==
    ASSUME Typed, Hands, ConnsFit, NEW s \in Sender, AddConn(s)
    PROVE  Hands' /\ ConnTyped' /\ ConnsFit' /\ SenderTyped'
<1>0. /\ sender[s] \in Sends /\ SenderFits(sender[s]) /\ sender[s].pc = "add"
      /\ conn \in [Conn -> Connection] /\ NoConn \notin Conn
      /\ pki2Conn \in [Peer -> Conn \cup {NoConn}]
      /\ store.closing = NoConn /\ store \in Tables
  BY ConnectionsAssumption
  DEF Typed, SenderTyped, ConnTyped, TableTyped, AddConn, StoreFree
<1>1. PICK p \in Peer, c \in Conn : p = sender[s].peer /\ c = sender[s].conn
  BY <1>0 DEF SenderFits
<1>2. Has(s, c)
  BY <1>0, <1>1 DEF Has
<1>3. /\ conn[c].pkiID = p /\ ~Serving(conn[c]) /\ ~conn[c].stopFlag
      /\ store.next # c /\ \A r \in Sender \ {s} : ~Has(r, c)
  BY <1>1, <1>2 DEF Hands, Dialled, Fresh
<1>4. PICK d \in Conn : d = Chosen(p, c)
  BY <1>0 DEF Chosen
<1>5. /\ sender' = [sender EXCEPT ![s] = [@ EXCEPT !.pc = "send", !.conn = d]]
      /\ pki2Conn' = [pki2Conn EXCEPT ![p] = d]
      /\ conn' = [conn EXCEPT ![c] =
                     IF d = c THEN Started(@) ELSE [@ EXCEPT !.stopFlag = TRUE]]
      /\ store' = store
  BY <1>1, <1>4 DEF AddConn
<1>6. SenderTyped' /\ KeepsSenders
  <2> DEFINE new == [sender[s] EXCEPT !.pc = "send", !.conn = d]
  <2>1. new \in Sends /\ SenderFits(new) /\ new.pc = "send"
    BY <1>0 DEF Sends, SenderPC, SenderFits
  <2>2. sender' = [sender EXCEPT ![s] = new] /\ SenderTyped
    BY <1>5 DEF Typed
  <2> HIDE DEF new
  <2> QED
    BY <2>1, <2>2, Going
<1>7. \A r \in Sender : ~Has(r, c)'
  <2>1. sender'[s].pc = "send"
    BY <1>0, <1>5 DEF Typed, SenderTyped, Sends
  <2> QED
    BY <1>3, <1>6, <2>1 DEF KeepsSenders, Has
<1>8. store.next = NoConn
  BY <1>0 DEF Hands, Closing
<1>9. CASE d = c
  <2> DEFINE new == Started(conn[c])
  <2>1. /\ new \in Connection /\ ConnFits(new) /\ Serving(new)
        /\ new.pkiID = p /\ ~new.stopFlag
    BY <1>0, <1>3, Starting
  <2>2. conn' = [conn EXCEPT ![c] = new]
    BY <1>5, <1>9
  <2> HIDE DEF new
  <2>3. conn'[c] = new /\ \A e \in Conn \ {c} : conn'[e] = conn[e]
    BY <1>0, <2>2
  <2>4. ConnTyped' /\ ConnsFit'
    BY <1>0, <2>1, <2>2, <2>3 DEF ConnTyped, ConnsFit
  <2>5. \A e \in Conn \ {c} : Alike(conn[e], conn'[e])
    BY <2>3 DEF Alike
  <2>6. pki2Conn[p] = NoConn
    BY <1>0, <1>3, <1>4, <1>9 DEF Chosen, Hands, Stored
  <2> QED
    BY <1>0, <1>3, <1>5, <1>6, <1>7, <1>8, <1>9, <2>1, <2>3, <2>4, <2>5, <2>6, Storing
<1>10. CASE d # c
  <2> DEFINE new == [conn[c] EXCEPT !.stopFlag = TRUE]
  <2>1. /\ new \in Connection /\ ConnFits(new) /\ ~Serving(new) /\ new.pkiID = conn[c].pkiID
    <3>1. conn[c] \in Connection /\ ConnFits(conn[c])
      BY <1>0 DEF ConnsFit
    <3> QED
      BY <1>3, <3>1 DEF Connection, ConnFits, Serving
  <2>2. conn' = [conn EXCEPT ![c] = new] /\ pki2Conn' = pki2Conn
    BY <1>0, <1>4, <1>5, <1>10 DEF Chosen
  <2> HIDE DEF new
  <2>3. conn'[c] = new /\ \A e \in Conn \ {c} : conn'[e] = conn[e]
    BY <1>0, <2>2
  <2>4. ConnTyped' /\ ConnsFit'
    BY <1>0, <2>1, <2>2, <2>3 DEF ConnTyped, ConnsFit
  <2>5. \A q \in Peer : pki2Conn[q] # c
    BY <1>0, <1>3 DEF Hands, Stored
  <2>6. TableTyped'
    BY <1>5, <2>2 DEF Hands, TableTyped
  <2>7. Stored'
    BY <1>0, <1>5, <2>2, <2>3, <2>5 DEF Hands, Stored
  <2>8. Running'
    BY <2>1, <2>2, <2>3 DEF Hands, Running
  <2>9. Closing'
    BY <1>0, <1>5, <1>8 DEF Closing
  <2>10. Dialled'
    <3> SUFFICES ASSUME NEW r \in Sender, NEW e \in Conn, Has(r, e)'
                 PROVE  /\ conn'[e].pkiID = sender'[r].peer /\ ~Serving(conn'[e])
                        /\ ~conn'[e].stopFlag /\ store'.next # e
                        /\ \A q \in Sender \ {r} : ~Has(q, e)'
      BY DEF Dialled, Fresh
    <3>1. e # c /\ Has(r, e) /\ sender'[r].peer = sender[r].peer
      BY <1>6, <1>7 DEF KeepsSenders
    <3>2. Fresh(e, sender[r].peer) /\ store.next # e /\ \A q \in Sender \ {r} : ~Has(q, e)
      BY <3>1 DEF Hands, Dialled
    <3>3. \A q \in Sender \ {r} : ~Has(q, e)'
      BY <1>6, <3>2 DEF KeepsSenders
    <3> QED
      BY <1>5, <2>3, <3>1, <3>2, <3>3 DEF Fresh
  <2> QED
    BY <1>6, <2>4, <2>6, <2>7, <2>8, <2>9, <2>10 DEF Hands
<1> QED
  BY <1>9, <1>10

\* A stream is served: its connection goes into the store, or follows the one there.
LEMMA Connecting ==
    ASSUME Typed, Hands, ConnsFit, NEW p \in Peer, OnConnected(p)
    PROVE  Hands' /\ ConnTyped' /\ ConnsFit'
<1> DEFINE old == pki2Conn[p]
           new == NewConnection(p, TRUE)
<1>0. /\ conn \in [Conn -> Connection] /\ NoConn \notin Conn
      /\ pki2Conn \in [Peer -> Conn \cup {NoConn}]
      /\ store.closing = NoConn /\ store \in Tables /\ UNCHANGED sender
      /\ old \in Conn \cup {NoConn}
  BY ConnectionsAssumption DEF Typed, ConnTyped, TableTyped, OnConnected, StoreFree
<1>1. PICK c \in Conn :
         /\ NewConn(c)
         /\ IF old # NoConn /\ ~conn[old].stopFlag
            THEN /\ conn' = [conn EXCEPT ![c] = new, ![old] = StartClose(@)]
                 /\ store' = [closing |-> old, next |-> c, by |-> NoConn]
                 /\ UNCHANGED pki2Conn
            ELSE /\ conn' = [conn EXCEPT ![c] = Started(new)]
                 /\ pki2Conn' = [pki2Conn EXCEPT ![p] = c]
                 /\ UNCHANGED store
  BY DEF OnConnected
<1>2. new \in Connection /\ ConnFits(new) /\ new.pkiID = p /\ ~Serving(new) /\ ~new.stopFlag
  BY NewlyMade
<1> HIDE DEF new
<1>3. /\ ~Serving(conn[c]) /\ store.closing # c /\ store.next # c
      /\ \A q \in Peer : pki2Conn[q] # c
      /\ \A s \in Sender : ~Has(s, c)
  BY <1>1, Unused, Zenon
<1>4. store.next = NoConn
  BY <1>0 DEF Hands, Closing
<1>5. KeepsSenders /\ \A s \in Sender : ~Has(s, c)'
  BY <1>0, <1>3 DEF KeepsSenders, Has
<1>6. CASE old # NoConn /\ ~conn[old].stopFlag
  <2>0. PICK o \in Conn : o = old
    BY <1>0, <1>6
  <2> DEFINE closing == StartClose(conn[o])
  <2>1. /\ conn[o].pkiID = p /\ Serving(conn[o]) /\ o # c /\ ConnFits(conn[o])
        /\ conn[o] \in Connection
    BY <1>0, <1>3, <1>6, <2>0 DEF Hands, Stored, ConnsFit
  <2>2. /\ closing \in Connection /\ closing.pkiID = p /\ closing.stopFlag /\ Serving(closing)
        /\ ConnFits(closing)
    BY <2>1, BeginClose DEF ConnFits
  <2>3. /\ conn' = [[conn EXCEPT ![c] = new] EXCEPT ![o] = closing]
        /\ store' = [closing |-> o, next |-> c, by |-> NoConn]
        /\ pki2Conn' = pki2Conn
    <3>1. /\ conn' = [conn EXCEPT ![c] = new, ![o] = StartClose(@)]
          /\ store' = [closing |-> o, next |-> c, by |-> NoConn]
          /\ pki2Conn' = pki2Conn
      BY <1>1, <1>6, <2>0
    <3>2. [conn EXCEPT ![c] = new][o] = conn[o]
      BY <1>0, <2>1
    <3> QED
      BY <3>1, <3>2
  <2> HIDE DEF closing
  <2>4. /\ conn'[o] = closing /\ conn'[c] = new
        /\ \A e \in Conn \ {c, o} : conn'[e] = conn[e]
    BY <1>0, <2>1, <2>3
  <2>5. ConnTyped'
    BY <1>0, <1>2, <2>2, <2>3 DEF ConnTyped
  <2>6. ConnsFit'
    BY <1>2, <2>2, <2>4 DEF ConnsFit
  <2>7. store'.closing = o /\ store'.next = c /\ store' \in Tables
    BY <2>3 DEF Tables
  <2>8. TableTyped'
    BY <2>3, <2>7 DEF Hands, TableTyped
  <2>9. Stored'
    <3> SUFFICES ASSUME NEW q \in Peer, pki2Conn[q] # NoConn
                 PROVE  /\ conn'[pki2Conn[q]].pkiID = q /\ Serving(conn'[pki2Conn[q]])
                        /\ conn'[pki2Conn[q]].stopFlag <=> o = pki2Conn[q]
      BY <2>3, <2>7 DEF Stored
    <3>1. /\ pki2Conn[q] \in Conn /\ pki2Conn[q] # c
          /\ conn[pki2Conn[q]].pkiID = q /\ Serving(conn[pki2Conn[q]])
          /\ ~conn[pki2Conn[q]].stopFlag
      BY <1>0, <1>3 DEF Hands, Stored
    <3> QED
      BY <2>1, <2>2, <2>4, <3>1
  <2>10. Running'
    <3> SUFFICES ASSUME NEW e \in Conn, Serving(conn'[e]), ~conn'[e].stopFlag
                 PROVE  pki2Conn[conn'[e].pkiID] = e
      BY <2>3 DEF Running
    <3>1. e # c /\ e # o
      BY <1>2, <2>2, <2>4
    <3> QED
      BY <2>4, <3>1 DEF Hands, Running
  <2>11. Closing'
    BY <1>0, <1>2, <2>0, <2>2, <2>3, <2>4, <2>7 DEF Closing, Fresh
  <2>12. Dialled'
    <3> SUFFICES ASSUME NEW r \in Sender, NEW e \in Conn, Has(r, e)'
                 PROVE  /\ conn'[e].pkiID = sender'[r].peer /\ ~Serving(conn'[e])
                        /\ ~conn'[e].stopFlag /\ store'.next # e
                        /\ \A q \in Sender \ {r} : ~Has(q, e)'
      BY DEF Dialled, Fresh
    <3>1. e # c /\ Has(r, e) /\ sender'[r].peer = sender[r].peer
      BY <1>5 DEF KeepsSenders
    <3>2. Fresh(e, sender[r].peer) /\ \A q \in Sender \ {r} : ~Has(q, e)
      BY <3>1 DEF Hands, Dialled
    <3>3. e # o
      BY <2>1, <3>2 DEF Fresh
    <3>4. \A q \in Sender \ {r} : ~Has(q, e)'
      BY <1>5, <3>2 DEF KeepsSenders
    <3> QED
      BY <2>4, <2>7, <3>1, <3>2, <3>3, <3>4 DEF Fresh
  <2> QED
    BY <2>5, <2>6, <2>8, <2>9, <2>10, <2>11, <2>12 DEF Hands
<1>7. CASE ~(old # NoConn /\ ~conn[old].stopFlag)
  <2> DEFINE started == Started(new)
  <2>1. /\ started \in Connection /\ ConnFits(started) /\ Serving(started)
        /\ started.pkiID = p /\ ~started.stopFlag
    BY <1>2, Starting
  <2>2. /\ conn' = [conn EXCEPT ![c] = started] /\ store' = store
        /\ pki2Conn' = [pki2Conn EXCEPT ![p] = c]
    BY <1>1, <1>7
  <2> HIDE DEF started
  <2>3. conn'[c] = started /\ \A e \in Conn \ {c} : conn'[e] = conn[e]
    BY <1>0, <2>2
  <2>4. ConnTyped' /\ ConnsFit'
    BY <1>0, <2>1, <2>2, <2>3 DEF ConnTyped, ConnsFit
  <2>5. \A e \in Conn \ {c} : Alike(conn[e], conn'[e])
    BY <2>3 DEF Alike
  <2> QED
    BY <1>0, <1>3, <1>5, <1>7, <1>4, <2>1, <2>2, <2>3, <2>4, <2>5, Storing
<1> QED
  BY <1>6, <1>7

-------------------------------------------------------------------------------
(* Locks, and the counts and flags.                                               *)

LEMMA LocksChange ==
    ASSUME [Next]_vars PROVE
    \/ UNCHANGED locks
    \/ \E s \in Sender : FindLock(s) \/ TakeLock(s) \/ Dial(s) \/ AddConn(s)
BY DEF Next, SenderStep, CloseStep, WriterStep, OtherStep, vars, Send, DialFails,
       CheckClosing, CheckSend, Enqueue, Disconnect, Close, CheckOutBuff, DrainOutBuff,
       Closed, WriterSends, WriterStops, OnErr, OnErrCloses, ServiceEnds, CleanUp,
       CloseOwn, Authenticate, OnConnected, CloseConn, StopCloses, ReceivePresumedDead,
       StartStop, CloseStore

LEMMA LocksStep == ASSUME Typed, [Next]_vars PROVE LocksTyped'
<1>1. CASE UNCHANGED locks
  BY <1>1 DEF Typed, LocksTyped, locks
<1>2. ASSUME NEW s \in Sender, FindLock(s) PROVE LocksTyped'
  <2>1. holder' = holder
    BY <1>2 DEF FindLock
  <2>2. destinationLocks' \in [Peer -> Lock \cup {NoLock}]
    BY <1>2 DEF FindLock, Typed, LocksTyped
  <2> QED
    BY <2>1, <2>2 DEF Typed, LocksTyped
<1>3. ASSUME NEW s \in Sender, TakeLock(s) PROVE LocksTyped'
  BY <1>3 DEF TakeLock, Typed, LocksTyped
<1>4. ASSUME NEW s \in Sender, Dial(s) PROVE LocksTyped'
  BY <1>4 DEF Dial, Typed, LocksTyped
<1>5. ASSUME NEW s \in Sender, AddConn(s) PROVE LocksTyped'
  BY <1>5 DEF AddConn, Typed, LocksTyped
<1> QED
  BY <1>1, <1>2, <1>3, <1>4, <1>5, LocksChange, Zenon

LEMMA RestChanges ==
    ASSUME [Next]_vars PROVE
    \/ UNCHANGED <<accepted, deadEndpoints, stop>>
    \/ \E s \in Sender : Disconnect(s)
    \/ \E c \in Conn : OnErr(c)
    \/ \E p \in Peer : Authenticate(p) \/ OnConnected(p) \/ StopCloses(p)
    \/ ReceivePresumedDead \/ StartStop \/ CloseStore
<1> DEFINE Same == UNCHANGED <<accepted, deadEndpoints, stop>>
<1>1. ASSUME NEW s \in Sender, Send(s) \/ SenderStep(s) PROVE Same \/ Disconnect(s)
  BY <1>1 DEF SenderStep, Send, FindLock, TakeLock, Dial, DialFails, CheckClosing, AddConn,
              CheckSend, Enqueue, Close
<1>2. ASSUME NEW c \in Conn, CloseStep(c) \/ WriterStep(c) PROVE Same
  BY <1>2 DEF CloseStep, WriterStep, CheckOutBuff, DrainOutBuff, Closed, WriterSends,
              WriterStops
<1>3. ASSUME NEW c \in Conn, OtherStep(c) PROVE Same \/ OnErr(c)
  BY <1>3 DEF OtherStep, OnErrCloses, ServiceEnds, CleanUp, CloseOwn
<1>4. ASSUME NEW p \in Peer, CloseConn(p) PROVE Same
  BY <1>4 DEF CloseConn
<1>5. CASE UNCHANGED vars
  BY <1>5 DEF vars
<1> HIDE DEF Same
<1>6. Same => UNCHANGED <<accepted, deadEndpoints, stop>>
  BY DEF Same
<1> QED
  BY <1>1, <1>2, <1>3, <1>4, <1>5, <1>6, Zenon DEF Next

LEMMA RestStep == ASSUME Typed, [Next]_vars PROVE RestTyped'
<1> USE DEF Typed, RestTyped, stop
<1>1. CASE UNCHANGED <<accepted, deadEndpoints, stop>>
  BY <1>1
<1>2. ASSUME NEW s \in Sender, Disconnect(s) PROVE RestTyped'
  BY <1>2, ConnectionsAssumption DEF Disconnect
<1>3. ASSUME NEW c \in Conn, OnErr(c) PROVE RestTyped'
  BY <1>3, ConnectionsAssumption DEF OnErr
<1>4. ASSUME NEW p \in Peer, Authenticate(p) \/ OnConnected(p) PROVE RestTyped'
  BY <1>4 DEF Authenticate, OnConnected
<1>5. ASSUME NEW p \in Peer, StopCloses(p) PROVE RestTyped'
  BY <1>5 DEF StopCloses
<1>6. CASE ReceivePresumedDead
  BY <1>6, ConnectionsAssumption DEF ReceivePresumedDead
<1>7. CASE StartStop
  BY <1>7, Zenon DEF StartStop
<1>8. CASE CloseStore
  <2>1. connections2Close' \subseteq Peer
    BY <1>8 DEF CloseStore
  <2> QED
    BY <1>8, <2>1, Zenon DEF CloseStore
<1> QED
  BY <1>1, <1>2, <1>3, <1>4, <1>5, <1>6, <1>7, <1>8, RestChanges, Zenon

-------------------------------------------------------------------------------
(* The theorems.                                                                  *)

Kept == SenderTyped' /\ ConnTyped' /\ ConnsFit' /\ Hands'

\* Steps that touch no connection.
Idles ==
    \/ UNCHANGED vars
    \/ \E s \in Sender : \/ Send(s) \/ FindLock(s) \/ TakeLock(s) \/ DialFails(s)
                         \/ CheckClosing(s) \/ CheckSend(s) \/ Disconnect(s)
    \/ \E p \in Peer : Authenticate(p)
    \/ ReceivePresumedDead \/ StartStop \/ CloseStore

LEMMA StepKept == ASSUME Typed, ConnsFit, Hands, [Next]_vars PROVE Kept
<1>0. SenderTyped /\ ConnTyped
  BY DEF Typed
<1>1. ASSUME UNCHANGED <<sender, conn, table>> PROVE Kept
  BY <1>0, <1>1, NoGoing, NoTouch, Keeping DEF Kept, KeepsConns
<1>2. ASSUME NEW s \in Sender,
             \/ Send(s) \/ FindLock(s) \/ TakeLock(s) \/ DialFails(s) \/ CheckClosing(s)
             \/ CheckSend(s) \/ Disconnect(s)
      PROVE  Kept
  <2>1. UNCHANGED conn /\ UNCHANGED table
    BY <1>2 DEF Send, FindLock, TakeLock, DialFails, CheckClosing, CheckSend, Disconnect
  <2>2. SenderTyped' /\ KeepsSenders
    BY <1>2, SenderWorks, Zenon
  <2>3. KeepsConns
    BY <1>0, <2>1, NoTouch
  <2> QED
    BY <2>1, <2>2, <2>3, Keeping DEF Kept, KeepsConns
<1>3. ASSUME NEW s \in Sender, Enqueue(s) PROVE Kept
  <2>1. SenderTyped' /\ KeepsSenders
    BY <1>3, SenderWorks, Zenon
  <2>2. KeepsConns /\ UNCHANGED table
    BY <1>3, Enqueuing, Zenon
  <2> QED
    BY <2>1, <2>2, Keeping DEF Kept, KeepsConns
<1>4. ASSUME NEW s \in Sender, Dial(s) \/ AddConn(s) PROVE Kept
  BY <1>4, Dialling, Adding, Zenon DEF Kept
<1>5. ASSUME NEW s \in Sender, Close(s) PROVE Kept
  <2>1. SenderTyped' /\ KeepsSenders
    BY <1>5, SenderWorks, Zenon
  <2>2. \E p \in Peer : CloseByPKIid(p, NoConn, conn)
    BY <1>0, <1>5 DEF Close, SenderTyped, SenderFits
  <2> QED
    BY <2>1, <2>2, ClosingByPeer, Zenon DEF Kept
<1>6. ASSUME NEW c \in Conn, OnErrCloses(c) \/ CleanUp(c) PROVE Kept
  <2>1. UNCHANGED sender
    BY <1>6 DEF OnErrCloses, CleanUp
  <2>2. SenderTyped' /\ KeepsSenders
    BY <1>0, <2>1, NoGoing
  <2> QED
    BY <1>6, <2>2, ClosingByPeer, Zenon DEF Kept
<1>7. ASSUME NEW p \in Peer, CloseConn(p) \/ StopCloses(p) PROVE Kept
  <2>1. UNCHANGED sender /\ CloseByPKIid(p, NoConn, conn)
    BY <1>7 DEF CloseConn, StopCloses
  <2>2. SenderTyped' /\ KeepsSenders
    BY <1>0, <2>1, NoGoing
  <2> QED
    BY <2>1, <2>2, ClosingByPeer, Zenon DEF Kept
<1>8. ASSUME NEW c \in Conn,
             \/ CheckOutBuff(c) \/ DrainOutBuff(c) \/ WriterSends(c) \/ WriterStops(c)
             \/ OnErr(c) \/ ServiceEnds(c) \/ CloseOwn(c)
             \/ Closed(c) /\ store.closing # c
      PROVE  Kept
  <2>1. UNCHANGED sender
    BY <1>8 DEF CheckOutBuff, DrainOutBuff, WriterSends, WriterStops, OnErr, ServiceEnds,
                CloseOwn, Closed
  <2>2. SenderTyped' /\ KeepsSenders
    BY <1>0, <2>1, NoGoing
  <2>3. KeepsConns /\ UNCHANGED table
    BY <1>0, <1>8, Working, Zenon
  <2> QED
    BY <2>2, <2>3, Keeping DEF Kept, KeepsConns
<1>9. ASSUME NEW c \in Conn, Closed(c), store.closing = c PROVE Kept
  <2>1. UNCHANGED sender
    BY <1>9 DEF Closed
  <2> QED
    BY <1>0, <1>9, <2>1, NoGoing, ClosedUnderLock, Zenon DEF Kept
<1>10. ASSUME NEW p \in Peer, OnConnected(p) PROVE Kept
  <2>1. UNCHANGED sender
    BY <1>10 DEF OnConnected
  <2> QED
    BY <1>0, <1>10, <2>1, NoGoing, Connecting, Zenon DEF Kept
<1>11. CASE Idles
  <2>1. UNCHANGED vars \/ (\E p \in Peer : Authenticate(p)) \/ ReceivePresumedDead
          \/ StartStop \/ CloseStore => UNCHANGED <<sender, conn, table>>
    BY DEF vars, Authenticate, ReceivePresumedDead, StartStop, CloseStore
  <2> QED
    BY <1>1, <1>2, <1>11, <2>1, Zenon DEF Idles
<1>12. CASE \E s \in Sender : Send(s) \/ SenderStep(s)
  BY <1>2, <1>3, <1>4, <1>5, <1>12, Zenon DEF SenderStep
<1>13. CASE \E c \in Conn : CloseStep(c) \/ WriterStep(c) \/ OtherStep(c)
  BY <1>6, <1>8, <1>9, <1>13, Zenon DEF CloseStep, WriterStep, OtherStep
<1>14. CASE \E p \in Peer : Authenticate(p) \/ OnConnected(p) \/ CloseConn(p) \/ StopCloses(p)
  BY <1>7, <1>10, <1>11, <1>14, Zenon DEF Idles
<1> QED
  BY <1>11, <1>12, <1>13, <1>14, Zenon DEF Next, Idles

LEMMA StepIInv == IInv /\ [Next]_vars => IInv'
<1> SUFFICES ASSUME IInv, [Next]_vars PROVE IInv'
  OBVIOUS
<1>1. Typed /\ ConnsFit /\ Hands
  BY DEF IInv, Typed, Hands
<1>2. Kept
  BY <1>1, StepKept
<1>3. LocksTyped' /\ RestTyped'
  BY <1>1, LocksStep, RestStep
<1> QED
  BY <1>2, <1>3 DEF IInv, Typed, Kept, Hands

\* Every connection stays in one hand, and what is served unclosed in the store's.
THEOREM Invariance == Spec => []IInv
<1> QED
  BY InitIInv, StepIInv, PTL DEF Spec

\* Types; no outBuff and no deadEndpoints is over its capacity.
THEOREM TypeCorrect == Spec => []TypeOK
<1>1. IInv => TypeOK
  <2> SUFFICES ASSUME IInv PROVE TypeOK
    OBVIOUS
  <2> USE DEF IInv, Typed
  <2>1. sender \in [Sender -> Sends] /\ \A s \in Sender : SenderFits(sender[s])
    BY DEF SenderTyped
  <2>2. conn \in [Conn -> Connection]
    BY DEF ConnTyped
  <2>3. pki2Conn \in [Peer -> Conn \cup {NoConn}] /\ store \in Tables
    BY DEF TableTyped
  <2> QED
    BY <2>1, <2>2, <2>3
    DEF TypeOK, LocksTyped, RestTyped, Sends, Connection, Tables, SenderFits
<1> QED
  BY <1>1, Invariance, PTL

\* connectionStore keeps one open connection to each peer: what it hands out is its
\* peer's and open unless it is being taken out, and no other connection of a peer
\* has a goroutine that writes and has not been closed.
THEOREM AlwaysOneConnection == Spec => []OneConnection
<1>1. IInv => OneConnection
  <2> SUFFICES ASSUME IInv PROVE OneConnection
    OBVIOUS
  <2>1. StoredAreOpen
    BY DEF IInv, Stored, StoredAreOpen
  <2>2. NoOrphans
    BY DEF IInv, Running, NoOrphans, Serving
  <2> QED
    BY <2>1, <2>2 DEF OneConnection
<1> QED
  BY <1>1, Invariance, PTL

===============================================================================
