CONSTANTS
  a = a
  b = b
  c = c
  NoIp = NoIp
  NoEthernet = NoEthernet
  ETHERNET_BROADCAST = ETHERNET_BROADCAST
  Host = {a, b, c}
  Ip = {a, b, c, NoIp}
  EthernetAddress <- MCEthernet
  EthernetOf <- MCEthernetOf
  Sender = {a, b}
  Reachable = {a, b}
  MAPPING_TTL = 3
  REQUEST_THROTTLE = 2
  MaxDatagrams <- MCMaxDatagrams
  MaxFaults = 1
SPECIFICATION FairSpec
INVARIANTS NothingWaitsForTheKnown InOrderAndOnce ReachesTheAddressed StaleMappingExpires
PROPERTIES RequestsAreThrottled GivenUpOnlyUnanswered WaitingEnds
