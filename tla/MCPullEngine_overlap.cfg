CONSTANTS
  a = a  b = b  n1 = n1  n2 = n2  x = x
  Peer = {a, b}
  Item = {x}
  Nonce = {n1, n2}
  Rounds = 2
  Pullers = {a}
  NoPeer = NoPeer  NoNonce = NoNonce  NoMsg = NoMsg
SPECIFICATION Spec
CONSTRAINT FewMessages
SYMMETRY Nonces
INVARIANTS DeliveredOnce  RoundsEnd
PROPERTY RequestsMatchHello
