\* A failed send closes the socket, and run() never opens another.
SPECIFICATION FairSpec
CONSTANTS
  Peers <- OnePeer
  Garbage <- NoGarbage
  Descriptors = {0}
  PortAtCreation = TRUE
  MaxClients = 1
  MaxWaiting = 1
PROPERTIES
  Restarts
