CONSTANTS
  Modulus = 12
  IndexModulus = 100
  MAX_PAYLOAD_SIZE = 1
  MAX_RETX_ATTEMPTS = 1
  INITIAL_CWND = 2
  INITIAL_SSTHRESH = 100
  INITIAL_RTO = 1
  MAX_WINDOW = 2
  LINGER_TIMEOUTS = 2
  ClientIsn = 9
  ServerIsn = 4
  SendCapacity = 2
  RecvCapacity = 2
  ClientBytes = 1
  ServerBytes = 0
  Ticks = {1}
  MaxFaults = 1
  \* Neither this bound nor the next is reached: they disable nothing.
  MaxInTransit = 7
  MaxDupAcks = 6
  Resets = FALSE
SPECIFICATION FairSpec
PROPERTIES EndsCleanly
\* With all faults used up and the peers inactive, nothing is left to do.
CHECK_DEADLOCK FALSE
