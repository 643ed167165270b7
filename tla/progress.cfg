\* A message stops travelling and a call returns.
SPECIFICATION FairSpec
CONSTANTS
  c1 = c1
  c2 = c2
  c3 = c3
  q1 = q1
  q2 = q2
  q3 = q3
  Clients = {c1, c2}
  Anchors = {c1}
  Queues = {q1, q2}
  Names = {"temperature"}
  Usage = {"destroy"}
  QueueLength = 1
  MaxConnects = 2
  MaxMsgs = 2
  MaxMembers = 2
  NoQueue = NoQueue
  Nobody = Nobody
PROPERTIES
  Settles
  CallsReturn
