------------------------- MODULE NetworkInterfaceSpec -------------------------
(* Hosts with one NetworkInterface each on an Ethernet segment that loses,   *)
(* delays and reorders frames.  Hosts ask for addresses that nobody has, and *)
(* a host may be replaced by one with another Ethernet address.              *)
EXTENDS NetworkInterface, SequencesExt

CONSTANTS
  Host,                 \* the hosts, each named by its IP address
  Sender,               \* the hosts that send datagrams
  Reachable,            \* the addresses they send to
  EthernetOf(_, _),     \* the Ethernet address of a host, before and after its replacement
  MaxDatagrams(_),      \* bound: datagrams that each of them sends
  MaxFaults             \* bound: frames lost, ARP messages of an unknown kind, replacements

ASSUME SegmentAssumption ==
  /\ Sender \subseteq Host /\ Host \subseteq Ip \ {NoIp} /\ Reachable \subseteq Ip
  /\ \A h \in Host : \A r \in BOOLEAN :
       EthernetOf(h, r) \in EthernetAddress \ {NoEthernet, ETHERNET_BROADCAST}
  /\ \A g, h \in Host : \A q, r \in BOOLEAN : EthernetOf(g, q) = EthernetOf(h, r) => g = h /\ q = r
  /\ \A h \in Sender : MaxDatagrams(h) \in Nat
  /\ MaxFaults \in Nat

VARIABLES
  nic,           \* the interface of each host
  network,       \* the frames on their way
  faults,        \* how much has gone wrong
  replaced,      \* the hosts that were replaced
  given,         \* history: the datagrams that each interface was given to send
  transmitted,   \* history: the datagrams that it put on the segment
  quiet,         \* history: the time since it requested an address
  since          \* history: the time since the host was replaced

vars == <<nic, network, faults, replaced, given, transmitted, quiet, since>>

Init ==
  /\ nic = [h \in Host |-> NewInterface(EthernetOf(h, FALSE), h)]
  /\ network = {}
  /\ faults = 0
  /\ replaced = {}
  /\ given = [h \in Host |-> <<>>]
  /\ transmitted = [h \in Host |-> <<>>]
  /\ quiet = [h \in Host |-> [ip \in Ip |-> REQUEST_THROTTLE]]
  /\ since = [h \in Host |-> MAPPING_TTL]
-----------------------------------------------------------------------------
\* The payloads of the frames of a type, in the order of the frames.
Carried(frames, type) ==
  LET places == {i \in 1 .. Len(frames) : frames[i].type = type}
  IN  [k \in 1 .. Cardinality(places) |->
         frames[CHOOSE i \in places : Cardinality(places \cap (1 .. i)) = k].payload]

IsRequest(frame, ip) ==
  frame.type = "ARP" /\ frame.payload.opcode = "REQUEST" /\ frame.payload.target_ip = ip

\* Calls of interfaces, with the frames that are left of those before.
Take(result, left) ==
  /\ nic' = [h \in Host |-> result[h].nic]
  /\ network' = left \cup UNION {ToSet(result[h].out) : h \in Host}
  /\ transmitted' = [h \in Host |-> transmitted[h] \o Carried(result[h].out, "IPv4")]
  /\ quiet' = [h \in Host |-> [ip \in Ip |->
                 IF \E frame \in ToSet(result[h].out) : IsRequest(frame, ip) THEN 0 ELSE quiet[h][ip]]]
  /\ UNCHANGED <<replaced, since>>

NoCall(h) == [nic |-> nic[h], out |-> <<>>]

\* The owner of an interface sends.
Send(h) ==
  /\ Len(given[h]) < MaxDatagrams(h)
  /\ \E ip \in Reachable \ {h} :
       LET dgram == NewDatagram(Len(given[h]) + 1, ip, 1)
       IN  /\ Take([g \in Host |-> IF g = h THEN SendDatagram(nic[h], dgram, ip) ELSE NoCall(g)], network)
           /\ given' = [given EXCEPT ![h] = Append(@, dgram)]
  /\ UNCHANGED faults

\* A frame arrives, at all the hosts but the one that sent it.
Hear(h, frame) ==
  IF frame.src = nic[h].ethernet_address THEN NoCall(h) ELSE RecvFrame(nic[h], frame)

Deliver ==
  /\ \E frame \in network : Take([h \in Host |-> Hear(h, frame)], network \ {frame})
  /\ UNCHANGED <<faults, given>>

\* A frame is lost.
Lose ==
  /\ faults < MaxFaults /\ faults' = faults + 1
  /\ \E frame \in network : network' = network \ {frame}
  /\ UNCHANGED <<nic, replaced, given, transmitted, quiet, since>>

\* A device on the segment broadcasts an ARP message that is not about
\* Ethernet and IP.
UnknownARP ==
  [src |-> NoEthernet, dst |-> ETHERNET_BROADCAST, type |-> "ARP",
   payload |-> [supported |-> FALSE, opcode |-> "REQUEST",
                sender_ethernet |-> NoEthernet, sender_ip |-> NoIp,
                target_ethernet |-> NoEthernet, target_ip |-> NoIp]]

UnknownArrives ==
  /\ faults < MaxFaults /\ faults' = faults + 1
  /\ Take([h \in Host |-> Hear(h, UnknownARP)], network)
  /\ UNCHANGED given

\* A host is replaced, when no frame of its old interface is under way.
Replace(h) ==
  /\ faults < MaxFaults /\ faults' = faults + 1
  /\ h \notin replaced /\ replaced' = replaced \cup {h}
  /\ \A frame \in network : frame.src # nic[h].ethernet_address
  /\ nic' = [nic EXCEPT ![h] = NewInterface(EthernetOf(h, TRUE), h)]
  /\ given' = [given EXCEPT ![h] = <<>>] /\ transmitted' = [transmitted EXCEPT ![h] = <<>>]
  /\ quiet' = [quiet EXCEPT ![h] = [ip \in Ip |-> REQUEST_THROTTLE]]
  /\ since' = [since EXCEPT ![h] = 0]
  /\ UNCHANGED network

\* Time passes for all.
Later(time, ms, bound) == IF time + ms < bound THEN time + ms ELSE bound

Tick ==
  /\ nic' = [h \in Host |-> TickInterface(nic[h], 1)]
  /\ quiet' = [h \in Host |-> [ip \in Ip |-> Later(quiet[h][ip], 1, REQUEST_THROTTLE)]]
  /\ since' = [h \in Host |-> Later(since[h], 1, MAPPING_TTL)]
  /\ UNCHANGED <<network, faults, replaced, given, transmitted>>

Next ==
  \/ Deliver \/ Lose \/ UnknownArrives \/ Tick
  \/ \E h \in Host : Replace(h)
  \/ \E h \in Sender : Send(h)

Spec == Init /\ [][Next]_vars

\* While there are frames on their way, they leave it.
Fairness == <>[](network # {}) => []<><<\E frame \in network : frame \notin network'>>_vars

FairSpec == Spec /\ Fairness
-----------------------------------------------------------------------------
(* Safety.                                                                   *)

\* The members of each interface hold values of their types, and what travels
\* are frames.
TypeOK ==
  /\ nic \in [Host -> Interface]
  /\ \A frame \in network : frame \in Frame

\* No datagram waits for an address that is known: whatever way a mapping is
\* learned, by a request or by a reply, it releases all that waits for it.
NothingWaitsForTheKnown ==
  \A h \in Host : \A ip \in Ip : Knows(nic[h], ip) => nic[h].pending[ip] = <<>>

\* What goes to one address goes in the order of the calls and once only, and
\* what waits for it comes after all that went.
InOrderAndOnce ==
  \A h \in Host : \A ip \in Ip :
    LET order == transmitted[h] \o nic[h].pending[ip]
    IN  \A i, j \in 1 .. Len(order) :
          i < j /\ order[i].dst = ip /\ order[j].dst = ip => order[i].id < order[j].id

\* A datagram reaches no host but the one with the address it was sent to,
\* although each host hears all that is on the segment and mappings change.
ReachesTheAddressed ==
  \A h \in Host : \A i \in 1 .. Len(nic[h].received) : nic[h].received[i].dst = h

\* A mapping that is no longer true is used for MAPPING_TTL at most after the
\* host has been replaced, however much traffic there is.
StaleMappingExpires ==
  \A g, h \in Host :
    LET mapping == nic[g].arp_cache[h]
    IN  Knows(nic[g], h) /\ mapping.mac # nic[h].ethernet_address
          => mapping.left + since[h] <= MAPPING_TTL

\* The request of a host for an address.
Asks(h, frame, ip) == frame.src = nic[h].ethernet_address /\ IsRequest(frame, ip)

\* The address to which the last datagram was given.
LastAddress(h) == given[h][Len(given[h])].dst

\* An address is requested again only when REQUEST_THROTTLE has passed since
\* the last time; then it is, for the next datagram to it while it is unknown.
\* The times that send_datagram keeps outlive mappings, and must not suppress
\* the request that makes up for one that was lost.
RequestsAreThrottled ==
  [][\A h \in Host : nic'[h].ethernet_address = nic[h].ethernet_address =>
       /\ \A ip \in Ip : quiet[h][ip] < REQUEST_THROTTLE =>
            \A frame \in network' \ network : ~Asks(h, frame, ip)
       /\ LET ip == LastAddress(h)'
          IN  given'[h] # given[h] /\ ~Knows(nic[h], ip) /\ quiet[h][ip] = REQUEST_THROTTLE
                => \E frame \in network' : Asks(h, frame, ip)]_vars

\* A datagram that an interface was given and neither transmitted nor keeps was
\* given up after its request had been out for REQUEST_THROTTLE.
Missing(h) ==
  ToSet(given[h]) \ (ToSet(transmitted[h]) \cup UNION {ToSet(nic[h].pending[ip]) : ip \in Ip})

GivenUpOnlyUnanswered ==
  [][\A h \in Host : \A dgram \in Missing(h)' \ Missing(h) :
       /\ dgram \in ToSet(nic[h].pending[dgram.dst])
       /\ quiet[h][dgram.dst] >= REQUEST_THROTTLE]_vars
-----------------------------------------------------------------------------
(* Liveness.                                                                 *)

\* Whatever went wrong before, what waits for a host that exists does not wait
\* for ever once a request is under way, as long as nothing more goes wrong: so
\* the request that is made anew after a loss releases all that waits.
WaitingEnds ==
  \A h \in Sender : \A ip \in Reachable : \A n \in 0 .. MaxFaults :
    /\ nic[h].pending[ip] # <<>>
    /\ \E frame \in network : Asks(h, frame, ip)
    /\ faults = n
    ~> nic[h].pending[ip] = <<>> \/ faults > n
=============================================================================
