CONSTANTS
  Modulus = 10
  MAX_PAYLOAD_SIZE = 2
  MAX_RETX_ATTEMPTS = 1
  INITIAL_CWND = 8
  INITIAL_SSTHRESH = 100
  INITIAL_RTO = 2
  MAX_WINDOW = 4
  Isn = 7
  Capacity = 3
  Windows = {0, 1, 4}
  Ticks = {1, 4}
  MaxBytes = 3
  MaxDupAcks = 3
SPECIFICATION Spec
PROPERTY TimeoutHalvesFlight
\* Given up, or with all bounds reached, the sender may have nothing left to do.
CHECK_DEADLOCK FALSE
