------------------------------ MODULE RouterSpec ------------------------------
(* A router between networks: datagrams arrive at its interfaces, neighbours *)
(* make their addresses known or stay silent, and routes are added while it  *)
(* runs.                                                                     *)
EXTENDS Router

CONSTANTS
  InterfaceIps,       \* the router's addresses, one for each interface
  Neighbours,         \* the addresses on the network of each interface
  EthernetOf(_),      \* the Ethernet address that belongs to an address
  Destinations,       \* the destinations of the datagrams
  Ttls,               \* their TTLs
  Gateways,           \* the next hops of routes, for each interface
  MaxRoutes,          \* bound: routes that are added
  MaxDatagrams        \* bound: datagrams that arrive

ASSUME NeighbourhoodAssumption ==
  /\ InterfaceIps \in Seq(Ip) /\ DOMAIN Neighbours = DOMAIN InterfaceIps
  /\ DOMAIN Gateways = DOMAIN InterfaceIps
  /\ \A n \in DOMAIN InterfaceIps : Neighbours[n] \subseteq Ip /\ Gateways[n] \subseteq Ip
  /\ \A ip \in Ip : EthernetOf(ip) \in EthernetAddress
  /\ \A ip, other \in Ip : EthernetOf(ip) = EthernetOf(other) => ip = other
  /\ Destinations \subseteq Ip /\ Ttls \subseteq Nat
  /\ MaxRoutes \in Nat /\ MaxDatagrams \in Nat

VARIABLES
  router,
  routes,       \* history: the routes in the order they were added
  arrived,      \* history: the datagrams in the order they arrived
  decided,      \* history: the route for each datagram that was routed, by its number
  transmitted   \* history: the frames with datagrams that left each interface

vars == <<router, routes, arrived, decided, transmitted>>

Port == DOMAIN InterfaceIps

Init ==
  /\ router = NewRouter([n \in Port |-> NewInterface(EthernetOf(InterfaceIps[n]), InterfaceIps[n])])
  /\ routes = <<>>
  /\ arrived = <<>>
  /\ decided = <<>>
  /\ transmitted = [n \in Port |-> {}]

\* The definition that the trie is to compute: of the routes whose prefix the
\* destination has, the longest, and of those the last that was added.
Matches(dst) == {i \in DOMAIN routes : IsPrefix(routes[i].prefix, dst)}

LongestMatch(dst) ==
  IF Matches(dst) = {} THEN NoRoute
  ELSE routes[CHOOSE i \in Matches(dst) : \A j \in Matches(dst) :
                \/ Len(routes[j].prefix) < Len(routes[i].prefix)
                \/ Len(routes[j].prefix) = Len(routes[i].prefix) /\ j <= i].route
-----------------------------------------------------------------------------
DatagramFrames(frames) == {frame \in ToSet(frames) : frame.type = "IPv4"}

\* The administrator.
DoAddRoute ==
  /\ Len(routes) < MaxRoutes
  /\ \E n \in Port : \E hop \in Gateways[n] \cup {NoHop} : \E prefix \in Prefix :
       LET route == [next_hop |-> hop, interface_num |-> n]
           \* The bits beyond the length do not matter.
           route_prefix == [i \in 1 .. AddressBits |-> IF i <= Len(prefix) THEN prefix[i] ELSE 1]
       IN  /\ router' = [router EXCEPT !.trie = AddRoute(@, route_prefix, Len(prefix), route)]
           /\ routes' = Append(routes, [prefix |-> prefix, route |-> route])
  /\ UNCHANGED <<arrived, decided, transmitted>>

\* A frame arrives at interface n.
Receive(n, frame) ==
  LET result == RecvFrame(router.interfaces[n], frame)
  IN  /\ router' = [router EXCEPT !.interfaces[n] = result.nic]
      /\ transmitted' = [transmitted EXCEPT ![n] = @ \cup DatagramFrames(result.out)]
      /\ UNCHANGED <<routes, decided>>

DatagramArrives(n) ==
  /\ Len(arrived) < MaxDatagrams
  /\ \E dst \in Destinations : \E ttl \in Ttls :
       LET dgram == NewDatagram(Len(arrived) + 1, dst, ttl)
       IN  /\ Receive(n, [src |-> NoEthernet, dst |-> EthernetOf(InterfaceIps[n]), type |-> "IPv4",
                          payload |-> dgram])
           /\ arrived' = Append(arrived, dgram)

NeighbourAnswers(n) ==
  /\ \E ip \in Neighbours[n] :
       Receive(n, [src |-> EthernetOf(ip), dst |-> EthernetOf(InterfaceIps[n]), type |-> "ARP",
                   payload |-> [supported |-> TRUE, opcode |-> "REPLY",
                                sender_ethernet |-> EthernetOf(ip), sender_ip |-> ip,
                                target_ethernet |-> EthernetOf(InterfaceIps[n]),
                                target_ip |-> InterfaceIps[n]]])
  /\ UNCHANGED arrived

Waiting == UNION {ToSet(router.interfaces[n].received) : n \in Port}

\* The program that owns the router calls route.
DoRoute ==
  LET result == Route(router)
  IN  /\ Waiting # {}
      /\ router' = result.router
      /\ transmitted' = [n \in Port |-> transmitted[n] \cup DatagramFrames(result.out[n])]
      /\ decided' = [id \in DOMAIN decided \cup {dgram.id : dgram \in Waiting} |->
                       IF id \in DOMAIN decided THEN decided[id] ELSE LongestMatch(arrived[id].dst)]
      /\ UNCHANGED <<routes, arrived>>

Tick ==
  /\ router' = [router EXCEPT !.interfaces = [n \in Port |-> TickInterface(@[n], 1)]]
  /\ UNCHANGED <<routes, arrived, decided, transmitted>>

Next ==
  \/ DoAddRoute \/ DoRoute \/ Tick
  \/ \E n \in Port : DatagramArrives(n) \/ NeighbourAnswers(n)

Spec == Init /\ [][Next]_vars
-----------------------------------------------------------------------------
\* The search of the trie finds the longest match for every address, whatever
\* routes were added and in whatever order.
LookupIsLongestMatch == \A dst \in Ip : Lookup(router.trie, dst) = LongestMatch(dst)

\* Where a datagram waits, and where it went, is the interface and the next hop
\* that the longest match named when it was routed: routes added since, and the
\* time until the next hop is known, do not change that.
HopOf(id) == IF decided[id].next_hop = NoHop THEN arrived[id].dst ELSE decided[id].next_hop

FollowsItsRoute ==
  \A n \in Port :
    /\ \A ip \in Ip : \A i \in 1 .. Len(router.interfaces[n].pending[ip]) :
         LET id == router.interfaces[n].pending[ip][i].id
         IN  decided[id].interface_num = n /\ HopOf(id) = ip
    /\ \A frame \in transmitted[n] :
         /\ decided[frame.payload.id].interface_num = n
         /\ frame.dst = EthernetOf(HopOf(frame.payload.id))

\* The datagrams that are on their way through the router or out of it.
Forwarded ==
  (UNION {ToSet(router.interfaces[n].pending[ip]) : n \in Port, ip \in Ip})
    \cup {frame.payload : frame \in UNION {transmitted[n] : n \in Port}}

\* Routing goes on with each datagram that has a route and hops left, whatever
\* happens to those before it in the queues: it makes one hop, with one hop less
\* than it came with, and one without a hop left or without a route makes none.
RoutesAll ==
  [][\A id \in DOMAIN decided' \ DOMAIN decided :
       {dgram.ttl : dgram \in {d \in Forwarded' : d.id = id}} =
         IF arrived[id].ttl > 1 /\ decided'[id] # NoRoute THEN {arrived[id].ttl - 1} ELSE {}]_vars
-----------------------------------------------------------------------------
\* A datagram leaves the router with a checksum that matches its header.
ForwardedChecksumMatches ==
  \A n \in Port : \A frame \in transmitted[n] : ChecksumMatches(frame.payload)
=============================================================================
