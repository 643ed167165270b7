\* The station loses its link and gets it back while the server runs.
SPECIFICATION NetioSpec
CONSTANTS
  Peers <- OnePeer
  Garbage <- NoGarbage
  Descriptors = {0}
  PortAtCreation = TRUE
  MaxClients = 1
  MaxWaiting = 1
INVARIANTS
  NetioOK
  BitFollowsLink
PROPERTIES
  Reconnects
  Starts
