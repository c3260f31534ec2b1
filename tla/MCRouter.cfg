CONSTANTS
  AddressBits = 2
  Ip <- MCIp
  EthernetAddress <- MCEthernet
  ETHERNET_BROADCAST = ETHERNET_BROADCAST
  NoIp <- MCNoIp
  NoEthernet <- MCNoIp
  MAPPING_TTL = 2
  REQUEST_THROTTLE = 1
  InterfaceIps <- MCInterfaceIps
  Neighbours <- MCNeighbours
  EthernetOf <- MCEthernetOf
  Destinations <- MCDestinations
  Ttls = {1, 3}
  Gateways <- MCGateways
  MaxRoutes = 2
  MaxDatagrams = 2
SPECIFICATION Spec
INVARIANTS LookupIsLongestMatch FollowsItsRoute
PROPERTIES RoutesAll
