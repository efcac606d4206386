CONSTANTS
  peer = peer  s1 = s1  s2 = s2  c1 = c1  c2 = c2  l1 = l1  l2 = l2
  Peer = {peer}
  Remote = {}
  Sender = {s1, s2}
  Conn = {c1, c2}
  Lock = {l1, l2}
  MayStop = TRUE
  SendBuffSize = 1
  DeadEndpoints = 1
  NoPeer = NoPeer  NoConn = NoConn  NoLock = NoLock  NoSender = NoSender
SPECIFICATION Spec
SYMMETRY Objects
CONSTRAINT NonBlocking
INVARIANTS TypeOK 
CHECK_DEADLOCK FALSE
