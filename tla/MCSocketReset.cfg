CONSTANTS
  Modulus = 64
  IndexModulus = 100
  MAX_PAYLOAD_SIZE = 2
  MAX_RETX_ATTEMPTS = 0
  INITIAL_CWND = 3
  INITIAL_SSTHRESH = 2
  INITIAL_RTO = 1
  MAX_WINDOW = 3
  LINGER_TIMEOUTS = 1
  PipeCapacity = 1
  kReadBufferSize = 2
  Hosts = {h1, h2, h3}
  AnyHost = any
  Ports = {p1, p2, p3}
  HeaderWords = 5
  Modes = {"connect", "listen"}
  OwnIsn = 3
  RemoteIsn = 62
  SendCapacity = 1
  RecvCapacity = 2
  OwnerBytes = 2
  RemoteBytes = 2
  OwnHost = h1
  RemoteHost = h2
  OtherHost = h3
  OwnPort = p1
  RemotePort = p2
  OtherPort = p3
  MaxInbox = 1
  MaxStrays = 1
  Resets = TRUE
SPECIFICATION Spec
INVARIANTS ThreadSurvives
\* The socket is closed.
CHECK_DEADLOCK FALSE
