CONSTANTS
  Modulus = 12
  IndexModulus = 100
  MAX_PAYLOAD_SIZE = 1
  MAX_RETX_ATTEMPTS = 1
  INITIAL_CWND = 2
  INITIAL_SSTHRESH = 100
  INITIAL_RTO = 1
  MAX_WINDOW = 2
  LINGER_TIMEOUTS = 2
  ClientIsn = 9
  ServerIsn = 4
  SendCapacity = 2
  RecvCapacity = 3
  ClientBytes = 2
  ServerBytes = 0
  Ticks = {1}
  MaxFaults = 1
  MaxInTransit = 2
  MaxDupAcks = 1
  Resets = TRUE
SPECIFICATION Spec
INVARIANTS ReaderSeesTheStream AckedIsDelivered CleanCloseIsComplete EarlyLeaverIsNotMissed
PROPERTIES StreamsAreReliable
\* With all faults used up and the peers inactive, nothing is left to do.
CHECK_DEADLOCK FALSE
