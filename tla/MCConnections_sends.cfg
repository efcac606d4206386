CONSTANTS
  peer = peer  s1 = s1  s2 = s2  c1 = c1  c2 = c2  l1 = l1  l2 = l2
  Peer = {peer}
  Remote = {}
  Sender = {s1}
  Conn = {c1, c2}
  Lock = {l1}
  MayStop = FALSE
  SendBuffSize = 1
  DeadEndpoints = 1
  NoPeer = NoPeer  NoConn = NoConn  NoLock = NoLock  NoSender = NoSender
SPECIFICATION FairSpec
PROPERTY SendsEnd
CHECK_DEADLOCK FALSE
