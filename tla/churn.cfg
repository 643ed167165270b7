\* Clients come and go beside one that stays; queues of length one overflow.
SPECIFICATION Spec
CONSTANTS
  c1 = c1
  c2 = c2
  c3 = c3
  q1 = q1
  q2 = q2
  q3 = q3
  Clients = {c1, c2}
  Anchors = {c1}
  Queues = {q1, q2}
  Names = {"temperature"}
  Usage = {"destroy", "disconnect"}
  QueueLength = 1
  MaxConnects = 3
  MaxMsgs = 2
  MaxMembers = 3
  NoQueue = NoQueue
  Nobody = Nobody
INVARIANTS
  TypeOK
  ResolvesValidQueue
  SingleOwner
  AtMostOnce
  OnlyTargetsReceive
  NoSilentLoss
PROPERTIES
  ImplementsMulticast
  FreshAddress
SYMMETRY Alike
