\* A new client is taken for a destroyed one whose handle it got.
SPECIFICATION Spec
CONSTANTS
  c1 = c1
  c2 = c2
  c3 = c3
  q1 = q1
  q2 = q2
  q3 = q3
  Clients = {c1, c2}
  Anchors = {}
  Queues = {q1, q2}
  Names = {"temperature"}
  Usage = {"destroy"}
  QueueLength = 1
  MaxConnects = 2
  MaxMsgs = 0
  MaxMembers = 2
  NoQueue = NoQueue
  Nobody = Nobody
INVARIANTS
  ListedIsConnected
SYMMETRY Alike
CHECK_DEADLOCK FALSE
