\* Peers announce themselves and data is sent while sockets are closed and opened.
SPECIFICATION Spec
CONSTANTS
  Peers <- MCPeers
  Garbage <- MCGarbage
  Descriptors = {0, 1}
  PortAtCreation = TRUE
  MaxClients = 3
  MaxWaiting = 1
INVARIANTS
  ServerOK
  SentToAll
  Remembered
