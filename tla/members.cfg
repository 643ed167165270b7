\* Every client stays: messages to a group reach its members in order.
SPECIFICATION Spec
CONSTANTS
  c1 = c1
  c2 = c2
  c3 = c3
  q1 = q1
  q2 = q2
  q3 = q3
  Clients = {c1, c2, c3}
  Anchors = {}
  Queues = {q1, q2, q3}
  Names = {"temperature"}
  Usage = {"direct"}
  QueueLength = 2
  MaxConnects = 3
  MaxMsgs = 2
  MaxMembers = 2
  NoQueue = NoQueue
  Nobody = Nobody
INVARIANTS
  FifoPerGroup
SYMMETRY Alike
