\* Every use of the registry, with nothing on the queues: no client needs to stay.
SPECIFICATION Spec
CONSTANTS
  c1 = c1
  c2 = c2
  c3 = c3
  q1 = q1
  q2 = q2
  q3 = q3
  Clients = {c1, c2}
  Anchors = {}
  Queues = {q1, q2}
  Names = {"temperature", "gpio"}
  Usage = {"disconnect", "leave", "destroy"}
  QueueLength = 1
  MaxConnects = 3
  MaxMsgs = 0
  MaxMembers = 3
  NoQueue = NoQueue
  Nobody = Nobody
INVARIANTS
  GroupsConsistent
  AddressesConsistent
  ConnectedIsRoutable
  JoinFindsGroup
PROPERTIES
  OnlyOwnerUnsubscribes
SYMMETRY Alike
