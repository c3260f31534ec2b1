------------------------ MODULE NetworkInterfaceProofs ------------------------
(* The interface keeps its types, lets nothing wait for an address it knows, *)
(* and does not use a mapping for longer than MAPPING_TTL after it has       *)
(* become false (IInv).  What it sends goes to the addressed host, in order  *)
(* and once (MailInv); its requests are throttled, and it gives up only what *)
(* was asked for and not answered.                                           *)
EXTENDS NetworkInterfaceSpec, FiniteSetTheorems, TLAPS

\* A frame as an interface makes it: what it says of its sender is true.
OwnFrame(n, frame) ==
  /\ frame \in Frame
  /\ frame.src = n.ethernet_address
  /\ frame.type = "ARP" => /\ frame.payload.supported
                           /\ frame.payload.sender_ip = n.ip_address
                           /\ frame.payload.sender_ethernet = n.ethernet_address

\* A call keeps the addresses of the interface, and transmits its own frames.
Proper(n, result) ==
  /\ result.nic \in Interface
  /\ result.nic.ethernet_address = n.ethernet_address
  /\ result.nic.ip_address = n.ip_address
  /\ result.out \in Seq(Frame)
  /\ \A i \in 1 .. Len(result.out) : OwnFrame(n, result.out[i])

Settled(n) == \A ip \in Ip : Knows(n, ip) => n.pending[ip] = <<>>

-----------------------------------------------------------------------------
(* The frames that an interface makes.                                       *)

\* An interface is the record of its members.
LEMMA InterfaceParts ==
  ASSUME NEW n \in Interface
  PROVE  /\ n.ethernet_address \in EthernetAddress
         /\ n.ip_address \in Ip
         /\ n.arp_cache \in [Ip -> Mapping]
         /\ n.pending \in [Ip -> Seq(Datagram)]
         /\ n.request_times \in [Ip -> 0 .. REQUEST_THROTTLE]
         /\ n.received \in Seq(Datagram)
BY DEF Interface

\* A queue that is replaced by another changes nothing else.
LEMMA PendingReplaced ==
  ASSUME NEW n \in Interface, NEW ip \in Ip, NEW queue \in Seq(Datagram)
  PROVE  LET m == [n EXCEPT !.pending[ip] = queue]
         IN  /\ m \in Interface
             /\ m.ethernet_address = n.ethernet_address /\ m.ip_address = n.ip_address
             /\ m.arp_cache = n.arp_cache /\ m.pending = [n.pending EXCEPT ![ip] = queue]
             /\ m.request_times = n.request_times /\ m.received = n.received
<1> DEFINE q == [n.pending EXCEPT ![ip] = queue]
           m == [n EXCEPT !.pending = q]
<1>1. q \in [Ip -> Seq(Datagram)]
  BY InterfaceParts
<1> HIDE DEF q
<1>2. m \in Interface
  BY <1>1 DEF Interface
<1>3. /\ m.ethernet_address = n.ethernet_address /\ m.ip_address = n.ip_address
      /\ m.arp_cache = n.arp_cache /\ m.pending = q
      /\ m.request_times = n.request_times /\ m.received = n.received
  BY DEF Interface
<1>4. [n EXCEPT !.pending[ip] = queue] = m
  BY DEF q
<1> HIDE DEF m
<1> QED BY <1>2, <1>3, <1>4 DEF q

\* So with the time of a request,
LEMMA RequestTimeReplaced ==
  ASSUME NEW n \in Interface, NEW ip \in Ip
  PROVE  LET m == [n EXCEPT !.request_times[ip] = REQUEST_THROTTLE]
         IN  /\ m \in Interface
             /\ m.ethernet_address = n.ethernet_address /\ m.ip_address = n.ip_address
             /\ m.arp_cache = n.arp_cache /\ m.pending = n.pending
<1> DEFINE t == [n.request_times EXCEPT ![ip] = REQUEST_THROTTLE]
           m == [n EXCEPT !.request_times = t]
<1>1. t \in [Ip -> 0 .. REQUEST_THROTTLE]
  BY InterfaceParts, InterfaceAssumption
<1> HIDE DEF t
<1>2. m \in Interface
  BY <1>1 DEF Interface
<1>3. /\ m.ethernet_address = n.ethernet_address /\ m.ip_address = n.ip_address
      /\ m.arp_cache = n.arp_cache /\ m.pending = n.pending
  BY DEF Interface
<1>4. [n EXCEPT !.request_times[ip] = REQUEST_THROTTLE] = m
  BY DEF t
<1> HIDE DEF m
<1> QED BY <1>2, <1>3, <1>4

\* and with the datagrams that were handed up.
LEMMA ReceivedReplaced ==
  ASSUME NEW n \in Interface, NEW dgrams \in Seq(Datagram)
  PROVE  LET m == [n EXCEPT !.received = dgrams]
         IN  /\ m \in Interface
             /\ m.ethernet_address = n.ethernet_address /\ m.ip_address = n.ip_address
             /\ m.arp_cache = n.arp_cache /\ m.pending = n.pending
BY DEF Interface

\* What a call that makes one frame transmits is proper when the frame is.
LEMMA ProperOne ==
  ASSUME NEW n, NEW m \in Interface, NEW frame, OwnFrame(n, frame),
         m.ethernet_address = n.ethernet_address, m.ip_address = n.ip_address
  PROVE  Proper(n, [nic |-> m, out |-> <<frame>>])
<1>1. frame \in Frame
  BY DEF OwnFrame
<1>2. <<frame>> \in Seq(Frame) /\ Len(<<frame>>) = 1 /\ <<frame>>[1] = frame
  BY <1>1
<1> QED BY <1>2 DEF Proper

\* So is a call that makes none.
LEMMA ProperNone ==
  ASSUME NEW n, NEW m \in Interface,
         m.ethernet_address = n.ethernet_address, m.ip_address = n.ip_address
  PROVE  Proper(n, [nic |-> m, out |-> <<>>])
<1>1. <<>> \in Seq(Frame) /\ Len(<<>>) = 0
  OBVIOUS
<1> QED BY <1>1 DEF Proper

\* What belongs to one address.
LEMMA MappingParts ==
  ASSUME NEW n \in Interface, NEW ip \in Ip
  PROVE  /\ n.arp_cache[ip] \in Mapping
         /\ n.arp_cache[ip].mac \in EthernetAddress
         /\ n.pending[ip] \in Seq(Datagram)
         /\ n.ethernet_address \in EthernetAddress
         /\ n.ip_address \in Ip
BY InterfaceAssumption DEF Interface, Mapping, NoMapping

\* A datagram is framed for the address its mapping names.
LEMMA DatagramFrameOwn ==
  ASSUME NEW n \in Interface, NEW dgram \in Datagram, NEW ip \in Ip
  PROVE  OwnFrame(n, DatagramFrame(n, dgram, ip))
BY MappingParts DEF OwnFrame, DatagramFrame, Frame

\* A request says who asks.
LEMMA RequestFrameOwn ==
  ASSUME NEW n \in Interface, NEW ip \in Ip
  PROVE  OwnFrame(n, RequestFrame(n, ip))
BY MappingParts, InterfaceAssumption DEF OwnFrame, RequestFrame, Frame, ARPMessage

\* A reply says who answers.
LEMMA ReplyFrameOwn ==
  ASSUME NEW n \in Interface, NEW msg \in ARPMessage
  PROVE  OwnFrame(n, ReplyFrame(n, msg))
BY MappingParts DEF OwnFrame, ReplyFrame, Frame, ARPMessage
-----------------------------------------------------------------------------
(* Sending.                                                                  *)

\* Sending keeps the types and every mapping, and queues only for an address
\* that is not known.
LEMMA SendProper ==
  ASSUME NEW n \in Interface, NEW dgram \in Datagram, NEW ip \in Ip
  PROVE  /\ Proper(n, SendDatagram(n, dgram, ip))
         /\ SendDatagram(n, dgram, ip).nic.arp_cache = n.arp_cache
         /\ Settled(n) => Settled(SendDatagram(n, dgram, ip).nic)
<1> DEFINE r == SendDatagram(n, dgram, ip)
<1>1. CASE Knows(n, ip)
  <2>1. r = [nic |-> n, out |-> <<DatagramFrame(n, dgram, ip)>>]
    BY <1>1 DEF SendDatagram
  <2>2. OwnFrame(n, DatagramFrame(n, dgram, ip))
    BY DatagramFrameOwn
  <2> QED BY <2>1, <2>2, ProperOne
<1>2. CASE ~Knows(n, ip) /\ n.request_times[ip] = 0
  <2> DEFINE asked == [n EXCEPT !.pending[ip] = <<dgram>>, !.request_times[ip] = REQUEST_THROTTLE]
  <2>1. r = [nic |-> asked, out |-> <<RequestFrame(n, ip)>>]
    BY <1>2 DEF SendDatagram, Ask
  <2>2. OwnFrame(n, RequestFrame(n, ip))
    BY RequestFrameOwn
  <2> DEFINE waiting == [n EXCEPT !.pending[ip] = <<dgram>>]
  <2>3. <<dgram>> \in Seq(Datagram)
    OBVIOUS
  <2>4. asked = [waiting EXCEPT !.request_times[ip] = REQUEST_THROTTLE]
    BY DEF Interface
  <2> HIDE DEF asked
  <2>5. /\ waiting \in Interface
        /\ waiting.ethernet_address = n.ethernet_address /\ waiting.ip_address = n.ip_address
        /\ waiting.arp_cache = n.arp_cache /\ waiting.pending = [n.pending EXCEPT ![ip] = <<dgram>>]
    BY ZenonT(60), <2>3, PendingReplaced
  <2> HIDE DEF waiting
  <2>6. /\ asked \in Interface
        /\ asked.ethernet_address = n.ethernet_address /\ asked.ip_address = n.ip_address
        /\ asked.arp_cache = n.arp_cache /\ asked.pending = [n.pending EXCEPT ![ip] = <<dgram>>]
    BY <2>4, <2>5, RequestTimeReplaced
  <2>7. Settled(n) => Settled(asked)
    BY <1>2, <2>6, InterfaceParts DEF Settled, Knows
  <2> HIDE DEF r
  <2> QED BY <2>1, <2>2, <2>6, <2>7, ProperOne DEF r
<1>3. CASE ~Knows(n, ip) /\ n.request_times[ip] # 0
  <2> DEFINE queued == [n EXCEPT !.pending[ip] = Append(@, dgram)]
  <2>1. r = [nic |-> queued, out |-> <<>>]
    BY <1>3 DEF SendDatagram
  <2>2. Append(n.pending[ip], dgram) \in Seq(Datagram)
    BY MappingParts
  <2>3. /\ queued \in Interface
        /\ queued.ethernet_address = n.ethernet_address /\ queued.ip_address = n.ip_address
        /\ queued.arp_cache = n.arp_cache
        /\ queued.pending = [n.pending EXCEPT ![ip] = Append(n.pending[ip], dgram)]
    BY ZenonT(60), <2>2, PendingReplaced
  <2> HIDE DEF queued
  <2>4. Settled(n) => Settled(queued)
    BY <1>3, <2>3, InterfaceParts DEF Settled, Knows
  <2> HIDE DEF r
  <2> QED BY <2>1, <2>3, <2>4, ProperNone DEF r
<1> QED BY <1>1, <1>2, <1>3
-----------------------------------------------------------------------------
(* Receiving.                                                                *)

\* Learning sets one mapping.
LEMMA LearnProper ==
  ASSUME NEW n \in Interface, NEW msg \in ARPMessage
  PROVE  /\ Learn(n, msg) \in Interface
         /\ Learn(n, msg).ethernet_address = n.ethernet_address
         /\ Learn(n, msg).ip_address = n.ip_address
         /\ Learn(n, msg).pending = n.pending
         /\ Learn(n, msg).arp_cache =
              [n.arp_cache EXCEPT ![msg.sender_ip] =
                 [mac |-> msg.sender_ethernet, left |-> MAPPING_TTL]]
<1>1. msg.sender_ip \in Ip /\ msg.sender_ethernet \in EthernetAddress
  BY DEF ARPMessage
<1>2. [mac |-> msg.sender_ethernet, left |-> MAPPING_TTL] \in Mapping
  BY <1>1, InterfaceAssumption DEF Mapping
<1> QED BY <1>1, <1>2 DEF Learn, Interface

\* A release empties one queue, and transmits a frame for each in it.
LEMMA ReleaseProper ==
  ASSUME NEW n \in Interface, NEW ip \in Ip
  PROVE  /\ Proper(n, Release(n, ip))
         /\ Release(n, ip).nic.arp_cache = n.arp_cache
         /\ Release(n, ip).nic.pending = [n.pending EXCEPT ![ip] = <<>>]
<1> DEFINE q == n.pending[ip]
           frames == [i \in 1 .. Len(q) |-> DatagramFrame(n, q[i], ip)]
           emptied == [n EXCEPT !.pending[ip] = <<>>]
<1>1. q \in Seq(Datagram)
  BY MappingParts
<1>2. \A i \in 1 .. Len(q) : q[i] \in Datagram /\ OwnFrame(n, DatagramFrame(n, q[i], ip))
  BY <1>1, DatagramFrameOwn
<1>3. frames \in Seq(Frame) /\ Len(frames) = Len(q)
  BY <1>1, <1>2 DEF OwnFrame
<1>4. \A i \in 1 .. Len(frames) : OwnFrame(n, frames[i])
  BY <1>2, <1>3
<1>5. <<>> \in Seq(Datagram)
  OBVIOUS
<1>6. /\ emptied \in Interface
      /\ emptied.ethernet_address = n.ethernet_address /\ emptied.ip_address = n.ip_address
      /\ emptied.arp_cache = n.arp_cache /\ emptied.pending = [n.pending EXCEPT ![ip] = <<>>]
  BY ZenonT(60), <1>5, PendingReplaced
<1>7. Release(n, ip) = [nic |-> emptied, out |-> frames]
  BY DEF Release
<1> HIDE DEF frames, emptied
<1> QED BY <1>3, <1>4, <1>6, <1>7 DEF Proper

\* An answer is at most one reply.
LEMMA AnswerProper ==
  ASSUME NEW n \in Interface, NEW msg \in ARPMessage
  PROVE  /\ Answer(n, msg) \in Seq(Frame)
         /\ \A i \in 1 .. Len(Answer(n, msg)) : OwnFrame(n, Answer(n, msg)[i])
BY ReplyFrameOwn DEF Answer, OwnFrame

\* What is transmitted by two parts of a call.
LEMMA BothOwn ==
  ASSUME NEW n, NEW s \in Seq(Frame), NEW t \in Seq(Frame),
         \A i \in 1 .. Len(s) : OwnFrame(n, s[i]), \A i \in 1 .. Len(t) : OwnFrame(n, t[i])
  PROVE  s \o t \in Seq(Frame) /\ \A i \in 1 .. Len(s \o t) : OwnFrame(n, (s \o t)[i])
<1>1. s \o t \in Seq(Frame) /\ Len(s \o t) = Len(s) + Len(t)
  OBVIOUS
<1>2. ASSUME NEW i \in 1 .. Len(s \o t) PROVE OwnFrame(n, (s \o t)[i])
  <2>1. CASE i <= Len(s)
    BY <1>1, <2>1
  <2>2. CASE i > Len(s)
    <3>1. (s \o t)[i] = t[i - Len(s)] /\ i - Len(s) \in 1 .. Len(t)
      BY <1>1, <2>2
    <3> QED BY <3>1
  <2> QED BY <1>1, <2>1, <2>2
<1> QED BY <1>1, <1>2

\* An ARP message, request or reply, sets the mapping of its sender and leaves
\* nothing waiting for it.
LEMMA RecvARPProper ==
  ASSUME NEW n \in Interface, NEW msg \in ARPMessage
  PROVE  /\ Proper(n, RecvARP(n, msg))
         /\ RecvARP(n, msg).nic.arp_cache =
              [n.arp_cache EXCEPT ![msg.sender_ip] =
                 [mac |-> msg.sender_ethernet, left |-> MAPPING_TTL]]
         /\ Settled(n) => Settled(RecvARP(n, msg).nic)
<1> DEFINE taught == Learn(n, msg)
           freed  == Release(taught, msg.sender_ip)
           r      == RecvARP(n, msg)
<1>1. msg.sender_ip \in Ip
  BY DEF ARPMessage
<1>2. taught \in Interface
  BY LearnProper
<1>3. Proper(taught, freed) /\ freed.nic.arp_cache = taught.arp_cache
      /\ freed.nic.pending = [taught.pending EXCEPT ![msg.sender_ip] = <<>>]
  BY <1>1, <1>2, ReleaseProper
<1>4. Answer(n, msg) \in Seq(Frame)
      /\ \A i \in 1 .. Len(Answer(n, msg)) : OwnFrame(n, Answer(n, msg)[i])
  BY AnswerProper
<1>5. r.nic = freed.nic /\ r.out = freed.out \o Answer(n, msg)
  <2> HIDE DEF freed
  <2>1. r = [nic |-> freed.nic, out |-> freed.out \o Answer(n, msg)]
    BY DEF RecvARP, freed
  <2> HIDE DEF r
  <2> QED BY <2>1
<1>6. taught.ethernet_address = n.ethernet_address /\ taught.ip_address = n.ip_address
      /\ taught.pending = n.pending
      /\ taught.arp_cache = [n.arp_cache EXCEPT ![msg.sender_ip] =
                                [mac |-> msg.sender_ethernet, left |-> MAPPING_TTL]]
  BY LearnProper
<1> HIDE DEF taught, freed, r
<1>7. \A frame : OwnFrame(taught, frame) => OwnFrame(n, frame)
  BY <1>6 DEF OwnFrame
<1>8. Proper(n, r)
  <2>1. freed.out \in Seq(Frame) /\ \A i \in 1 .. Len(freed.out) : OwnFrame(n, freed.out[i])
    BY <1>3, <1>7 DEF Proper
  <2>2. r.out \in Seq(Frame) /\ \A i \in 1 .. Len(r.out) : OwnFrame(n, r.out[i])
    BY <1>4, <1>5, <2>1, BothOwn
  <2>3. /\ r.nic \in Interface /\ r.nic.ethernet_address = n.ethernet_address
        /\ r.nic.ip_address = n.ip_address
    BY <1>3, <1>5, <1>6 DEF Proper
  <2> QED BY <2>2, <2>3 DEF Proper
<1>9. ASSUME Settled(n), NEW ip \in Ip, Knows(r.nic, ip)
       PROVE  r.nic.pending[ip] = <<>>
  <2>1. CASE ip = msg.sender_ip
    BY <1>2, <1>3, <1>5, <2>1 DEF Interface
  <2>2. CASE ip # msg.sender_ip
    <3>1. Knows(n, ip)
      BY <1>1, <1>3, <1>5, <1>6, <1>9, <2>2 DEF Knows, Interface
    <3>2. r.nic.pending[ip] = n.pending[ip]
      BY <1>3, <1>5, <1>6, <2>2 DEF Interface
    <3> QED BY <1>9, <3>1, <3>2 DEF Settled
  <2> QED BY <2>1, <2>2
<1>10. r.nic.arp_cache = [n.arp_cache EXCEPT ![msg.sender_ip] =
                            [mac |-> msg.sender_ethernet, left |-> MAPPING_TTL]]
  BY <1>3, <1>5, <1>6
<1> QED BY <1>8, <1>9, <1>10 DEF Settled, r

\* Parsing keeps the types.
LEMMA ParsedTypes ==
  /\ \A msg \in ARPMessage : ParseARP(msg) \in ARPMessage
  /\ \A dgram \in Datagram : ParseDatagram(dgram) \in Datagram
BY InterfaceAssumption DEF ParseARP, ParseDatagram, ARPMessage, Datagram

\* A frame carries what its type says.
LEMMA FrameKinds ==
  ASSUME NEW frame \in Frame
  PROVE  \/ frame.type = "ARP" /\ frame.payload \in ARPMessage
         \/ frame.type = "IPv4" /\ frame.payload \in Datagram
BY DEF Frame

\* Receiving a frame keeps the types, and changes at most the mapping of the
\* sender of an ARP message.
LEMMA RecvProper ==
  ASSUME NEW n \in Interface, NEW frame \in Frame
  PROVE  /\ Proper(n, RecvFrame(n, frame))
         /\ Settled(n) => Settled(RecvFrame(n, frame).nic)
         /\ \/ RecvFrame(n, frame).nic.arp_cache = n.arp_cache
            \/ /\ frame.type = "ARP"
               /\ RecvFrame(n, frame).nic.arp_cache =
                    [n.arp_cache EXCEPT ![ParseARP(frame.payload).sender_ip] =
                       [mac |-> ParseARP(frame.payload).sender_ethernet, left |-> MAPPING_TTL]]
<1> DEFINE r == RecvFrame(n, frame)
<1>1. CASE ~Addressed(n, frame)
  <2>1. r = [nic |-> n, out |-> <<>>]
    BY <1>1 DEF RecvFrame
  <2> QED BY <2>1, ProperNone
<1>2. CASE Addressed(n, frame) /\ frame.type = "IPv4"
  <2> DEFINE handed == [n EXCEPT !.received = Append(@, ParseDatagram(frame.payload))]
  <2>1. frame.payload \in Datagram
    BY <1>2, FrameKinds
  <2>2. ParseDatagram(frame.payload) \in Datagram
    BY <2>1, ParsedTypes
  <2>3. r = [nic |-> handed, out |-> <<>>]
    BY <1>2 DEF RecvFrame
  <2>4. Append(n.received, ParseDatagram(frame.payload)) \in Seq(Datagram)
    BY <2>2, InterfaceParts
  <2>5. /\ handed \in Interface
        /\ handed.arp_cache = n.arp_cache /\ handed.pending = n.pending
        /\ handed.ethernet_address = n.ethernet_address /\ handed.ip_address = n.ip_address
    BY <2>4, ReceivedReplaced
  <2> HIDE DEF handed, r
  <2>6. Proper(n, r) /\ r.nic = handed
    BY <2>3, <2>5, ProperNone
  <2> QED BY <2>5, <2>6 DEF Settled, Knows, r
<1>3. CASE Addressed(n, frame) /\ frame.type = "ARP"
  <2>1. ParseARP(frame.payload) \in ARPMessage
    BY <1>3, FrameKinds, ParsedTypes
  <2>2. r = RecvARP(n, ParseARP(frame.payload))
    BY <1>3 DEF RecvFrame
  <2> QED BY <1>3, <2>1, <2>2, RecvARPProper
<1> QED BY <1>1, <1>2, <1>3, FrameKinds
-----------------------------------------------------------------------------
(* Time.                                                                     *)

\* A mapping grows older by what has passed, or is gone.
LEMMA AgedMapping ==
  ASSUME NEW mapping \in Mapping
  PROVE  /\ Aged(mapping, 1) \in Mapping
         /\ Aged(mapping, 1) # NoMapping => /\ mapping # NoMapping
                                            /\ Aged(mapping, 1).mac = mapping.mac
                                            /\ Aged(mapping, 1).left = mapping.left - 1
<1>1. CASE mapping = NoMapping
  BY <1>1 DEF Aged, NoMapping, Mapping
<1>2. CASE mapping # NoMapping /\ mapping.left > 1
  <2>1. mapping \in [mac : EthernetAddress, left : 1 .. MAPPING_TTL]
    BY <1>2 DEF Mapping
  <2>2. mapping.left - 1 \in 1 .. MAPPING_TTL
    BY <1>2, <2>1, InterfaceAssumption
  <2>3. Aged(mapping, 1) = [mac |-> mapping.mac, left |-> mapping.left - 1]
    BY <1>2, <2>1 DEF Aged
  <2> QED BY <1>2, <2>1, <2>2, <2>3 DEF Mapping
<1>3. CASE mapping # NoMapping /\ ~(mapping.left > 1)
  BY <1>3 DEF Aged, Mapping
<1> QED BY <1>1, <1>2, <1>3

\* A tick makes all mappings older and keeps the queues.
LEMMA TickProper ==
  ASSUME NEW n \in Interface
  PROVE  LET m == TickInterface(n, 1)
         IN  /\ m \in Interface
             /\ m.ethernet_address = n.ethernet_address /\ m.ip_address = n.ip_address
             /\ m.pending = n.pending
             /\ m.arp_cache = [ip \in Ip |-> Aged(n.arp_cache[ip], 1)]
<1> DEFINE c == [ip \in Ip |-> Aged(n.arp_cache[ip], 1)]
           t == [ip \in Ip |-> IF n.request_times[ip] > 1 THEN n.request_times[ip] - 1 ELSE 0]
           m == [n EXCEPT !.arp_cache = c, !.request_times = t]
<1>1. c \in [Ip -> Mapping]
  BY AgedMapping, InterfaceParts
<1>2. t \in [Ip -> 0 .. REQUEST_THROTTLE]
  <2>1. \A ip \in Ip : n.request_times[ip] \in 0 .. REQUEST_THROTTLE
    BY InterfaceParts
  <2>2. \A x \in 0 .. REQUEST_THROTTLE : (IF x > 1 THEN x - 1 ELSE 0) \in 0 .. REQUEST_THROTTLE
    BY InterfaceAssumption
  <2> QED BY <2>1, <2>2
<1>3. TickInterface(n, 1) = m
  BY DEF TickInterface
<1> HIDE DEF c, t
<1>4. m \in Interface
  BY <1>1, <1>2 DEF Interface
<1>5. /\ m.ethernet_address = n.ethernet_address /\ m.ip_address = n.ip_address
      /\ m.pending = n.pending /\ m.arp_cache = c
  BY DEF Interface
<1> HIDE DEF m
<1> QED BY <1>3, <1>4, <1>5 DEF c
-----------------------------------------------------------------------------
(* The segment.                                                              *)

\* Each interface has the addresses of its host.
Identity ==
  \A h \in Host : /\ nic[h].ip_address = h
                  /\ nic[h].ethernet_address = EthernetOf(h, h \in replaced)

\* All that is under way was made by the interface that its source names: none
\* is under way when a host is replaced.
NetworkOwned == \A frame \in network : \E h \in Host : OwnFrame(nic[h], frame)

SinceBounded == since \in [Host -> 0 .. MAPPING_TTL]

GivenTyped == given \in [Host -> Seq(Datagram)]

IInv ==
  /\ TypeOK /\ Identity /\ NetworkOwned /\ SinceBounded /\ GivenTyped
  /\ NothingWaitsForTheKnown /\ StaleMappingExpires

\* A mapping that a call changed is true.
MappingsTrue(n, m) ==
  \A h \in Host : m.arp_cache[h] = n.arp_cache[h] \/ m.arp_cache[h].mac = nic[h].ethernet_address

\* A call as the invariant needs it.
Sound(n, result) == Proper(n, result) /\ Settled(result.nic) /\ MappingsTrue(n, result.nic)

\* Sound calls keep the invariant, however many interfaces take part.
LEMMA TakeKeeps ==
  ASSUME IInv, NEW result, NEW left, Take(result, left), left \subseteq network,
         GivenTyped', \A h \in Host : Sound(nic[h], result[h])
  PROVE  IInv'
<1>1. /\ \A h \in Host : nic'[h] = result[h].nic
      /\ nic' = [h \in Host |-> result[h].nic]
      /\ replaced' = replaced /\ since' = since
  BY DEF Take
<1>2. \A h \in Host : /\ nic'[h] \in Interface
                      /\ nic'[h].ethernet_address = nic[h].ethernet_address
                      /\ nic'[h].ip_address = nic[h].ip_address
  BY <1>1 DEF Sound, Proper
<1>3. \A frame \in network' :
        frame \in network \/ \E h \in Host : OwnFrame(nic[h], frame)
  <2> SUFFICES ASSUME NEW frame \in network', frame \notin network
               PROVE  \E h \in Host : OwnFrame(nic[h], frame)
    OBVIOUS
  <2>1. frame \in UNION {ToSet(result[h].out) : h \in Host}
    BY DEF Take
  <2>2. PICK h \in Host : frame \in ToSet(result[h].out)
    BY <2>1
  <2>3. PICK i \in DOMAIN result[h].out : frame = result[h].out[i]
    BY <2>2 DEF ToSet
  <2>4. Proper(nic[h], result[h])
    BY DEF Sound
  <2>5. i \in 1 .. Len(result[h].out)
    BY <2>4 DEF Proper
  <2> QED BY <2>3, <2>4, <2>5 DEF Proper
<1>4. \A frame \in network' : \E h \in Host : OwnFrame(nic[h], frame)
  BY <1>3 DEF IInv, NetworkOwned
<1>5. NetworkOwned'
  BY <1>2, <1>4 DEF NetworkOwned, OwnFrame
<1>6. TypeOK'
  BY <1>1, <1>2, <1>4 DEF TypeOK, OwnFrame
<1>7. Identity' /\ SinceBounded'
  BY <1>1, <1>2 DEF IInv, Identity, SinceBounded
<1>8. NothingWaitsForTheKnown'
  BY <1>1 DEF NothingWaitsForTheKnown, Sound, Settled
<1>9. StaleMappingExpires'
  <2> SUFFICES ASSUME NEW g \in Host, NEW h \in Host, Knows(nic'[g], h),
                      nic'[g].arp_cache[h].mac # nic'[h].ethernet_address
               PROVE  nic'[g].arp_cache[h].left + since'[h] <= MAPPING_TTL
    BY DEF StaleMappingExpires
  <2>1. nic'[g].arp_cache[h] = nic[g].arp_cache[h]
    BY <1>1, <1>2 DEF Sound, MappingsTrue
  <2> QED BY <1>1, <1>2, <2>1 DEF IInv, StaleMappingExpires, Knows
<1> QED BY <1>5, <1>6, <1>7, <1>8, <1>9 DEF IInv

\* An interface that is not called.
LEMMA NoCallSound ==
  ASSUME IInv, NEW h \in Host
  PROVE  Sound(nic[h], NoCall(h))
<1>1. nic[h] \in Interface
  BY DEF IInv, TypeOK
<1>2. Settled(nic[h])
  BY DEF IInv, NothingWaitsForTheKnown, Settled
<1>3. Proper(nic[h], NoCall(h))
  BY <1>1, ProperNone DEF NoCall
<1>4. NoCall(h).nic = nic[h]
  BY DEF NoCall
<1> QED BY <1>2, <1>3, <1>4 DEF Sound, MappingsTrue

\* Sending learns nothing.
LEMMA SendSound ==
  ASSUME IInv, NEW h \in Host, NEW dgram \in Datagram, NEW ip \in Ip
  PROVE  Sound(nic[h], SendDatagram(nic[h], dgram, ip))
<1>1. nic[h] \in Interface
  BY DEF IInv, TypeOK
<1>2. Settled(nic[h])
  BY DEF IInv, NothingWaitsForTheKnown, Settled
<1> QED BY <1>1, <1>2, SendProper DEF Sound, MappingsTrue

\* A host believes what the frames of others say of them.
LEMMA HearSound ==
  ASSUME IInv, NEW h \in Host, NEW frame \in network
  PROVE  Sound(nic[h], Hear(h, frame))
<1>1. nic[h] \in Interface /\ frame \in Frame
  BY DEF IInv, TypeOK
<1>2. Settled(nic[h])
  BY DEF IInv, NothingWaitsForTheKnown, Settled
<1>3. CASE frame.src = nic[h].ethernet_address
  BY <1>3, NoCallSound DEF Hear
<1>4. CASE frame.src # nic[h].ethernet_address
  <2> DEFINE r == RecvFrame(nic[h], frame)
  <2>1. Hear(h, frame) = r
    BY <1>4 DEF Hear
  <2>2. Proper(nic[h], r) /\ Settled(r.nic)
    BY <1>1, <1>2, RecvProper
  <2>3. MappingsTrue(nic[h], r.nic)
    <3>1. CASE r.nic.arp_cache = nic[h].arp_cache
      BY <3>1 DEF MappingsTrue
    <3>2. CASE /\ frame.type = "ARP"
               /\ r.nic.arp_cache =
                    [nic[h].arp_cache EXCEPT ![ParseARP(frame.payload).sender_ip] =
                       [mac |-> ParseARP(frame.payload).sender_ethernet, left |-> MAPPING_TTL]]
      <4>1. PICK k \in Host : OwnFrame(nic[k], frame)
        BY DEF IInv, NetworkOwned
      <4>2. /\ frame.payload.sender_ip = k
            /\ frame.payload.sender_ethernet = nic[k].ethernet_address
            /\ ParseARP(frame.payload) = frame.payload
        BY <3>2, <4>1 DEF OwnFrame, ParseARP, IInv, Identity
      <4>3. k \in Ip
        BY SegmentAssumption
      <4>4. r.nic.arp_cache = [nic[h].arp_cache EXCEPT ![k] =
                                 [mac |-> nic[k].ethernet_address, left |-> MAPPING_TTL]]
        BY <3>2, <4>2
      <4>5. nic[h].arp_cache \in [Ip -> Mapping]
        BY <1>1, InterfaceParts
      <4> HIDE DEF r
      <4>6. ASSUME NEW g \in Host
            PROVE  r.nic.arp_cache[g] = nic[h].arp_cache[g]
                     \/ r.nic.arp_cache[g].mac = nic[g].ethernet_address
        <5>1. CASE g = k
          BY <4>3, <4>4, <4>5, <5>1
        <5>2. CASE g # k
          BY <4>3, <4>4, <4>5, <5>2, SegmentAssumption
        <5> QED BY <5>1, <5>2
      <4> QED BY <4>6 DEF MappingsTrue
    <3> QED BY <1>1, <3>1, <3>2, RecvProper
  <2> QED BY <2>1, <2>2, <2>3 DEF Sound
<1> QED BY <1>3, <1>4

\* An ARP message of an unknown kind teaches a mapping of the address zero,
\* which is no host's.
LEMMA HearUnknownSound ==
  ASSUME IInv, NEW h \in Host
  PROVE  Sound(nic[h], Hear(h, UnknownARP))
<1>1. nic[h] \in Interface
  BY DEF IInv, TypeOK
<1>2. UnknownARP \in Frame
  BY InterfaceAssumption DEF UnknownARP, Frame, ARPMessage
<1>3. Settled(nic[h])
  BY DEF IInv, NothingWaitsForTheKnown, Settled
<1>4. CASE UnknownARP.src = nic[h].ethernet_address
  BY <1>4, NoCallSound DEF Hear
<1>5. CASE UnknownARP.src # nic[h].ethernet_address
  <2> DEFINE r == RecvFrame(nic[h], UnknownARP)
  <2>1. Hear(h, UnknownARP) = r
    BY <1>5 DEF Hear
  <2>2. Proper(nic[h], r) /\ Settled(r.nic)
    BY <1>1, <1>2, <1>3, RecvProper
  <2>3. ParseARP(UnknownARP.payload).sender_ip = NoIp
    BY DEF UnknownARP, ParseARP
  <2>4. nic[h].arp_cache \in [Ip -> Mapping]
    BY <1>1, InterfaceParts
  <2>5. \/ r.nic.arp_cache = nic[h].arp_cache
        \/ \E mapping : r.nic.arp_cache = [nic[h].arp_cache EXCEPT ![NoIp] = mapping]
    <3>1. \/ r.nic.arp_cache = nic[h].arp_cache
          \/ r.nic.arp_cache =
               [nic[h].arp_cache EXCEPT ![ParseARP(UnknownARP.payload).sender_ip] =
                  [mac |-> ParseARP(UnknownARP.payload).sender_ethernet, left |-> MAPPING_TTL]]
      BY <1>1, <1>2, RecvProper
    <3> HIDE DEF r
    <3> QED BY <2>3, <3>1
  <2> HIDE DEF r
  <2>6. \A g \in Host : g \in Ip /\ g # NoIp
    BY SegmentAssumption
  <2>7. MappingsTrue(nic[h], r.nic)
    BY <2>4, <2>5, <2>6 DEF MappingsTrue
  <2> QED BY <2>1, <2>2, <2>7 DEF Sound
<1> QED BY <1>4, <1>5
-----------------------------------------------------------------------------
(* The actions.                                                              *)

\* A new interface knows nothing.
LEMMA NewProper ==
  ASSUME NEW mac \in EthernetAddress, NEW ip \in Ip
  PROVE  LET n == NewInterface(mac, ip)
         IN  /\ n \in Interface /\ n.ethernet_address = mac /\ n.ip_address = ip
             /\ Settled(n) /\ \A other \in Ip : ~Knows(n, other)
<1>1. 0 \in 0 .. REQUEST_THROTTLE /\ <<>> \in Seq(Datagram)
  BY InterfaceAssumption
<1>2. NewInterface(mac, ip) \in Interface
  BY <1>1 DEF NewInterface, Interface, Mapping
<1> QED BY <1>2 DEF NewInterface, Settled, Knows

\* The invariant holds at first,
LEMMA InitInv == Init => IInv
<1> SUFFICES ASSUME Init PROVE IInv
  OBVIOUS
<1>1. ASSUME NEW h \in Host
      PROVE  /\ nic[h] \in Interface /\ Settled(nic[h])
             /\ nic[h].ip_address = h /\ nic[h].ethernet_address = EthernetOf(h, FALSE)
             /\ \A ip \in Ip : ~Knows(nic[h], ip)
  BY NewProper, SegmentAssumption DEF Init
<1>2. TypeOK
  BY <1>1 DEF Init, TypeOK
<1>3. replaced = {} /\ network = {}
  BY DEF Init
<1>4. Identity /\ NetworkOwned
  <2>1. \A h \in Host : (h \in replaced) = FALSE
    BY <1>3
  <2>2. \A h \in Host : EthernetOf(h, h \in replaced) = EthernetOf(h, FALSE)
    BY <2>1, Zenon
  <2> QED BY <1>1, <1>3, <2>2 DEF Identity, NetworkOwned
<1>5. SinceBounded /\ GivenTyped
  BY InterfaceAssumption DEF Init, SinceBounded, GivenTyped
<1>6. NothingWaitsForTheKnown
  BY <1>1 DEF NothingWaitsForTheKnown
<1>7. StaleMappingExpires
  BY <1>1, SegmentAssumption DEF StaleMappingExpires
<1> QED BY <1>2, <1>4, <1>5, <1>6, <1>7 DEF IInv

\* and is kept by a datagram that is sent,
LEMMA SendKeeps == ASSUME IInv, NEW h \in Sender, Send(h) PROVE IInv'
<1>1. PICK ip \in Reachable \ {h} :
        LET dgram == NewDatagram(Len(given[h]) + 1, ip, 1)
        IN  /\ Take([g \in Host |-> IF g = h THEN SendDatagram(nic[h], dgram, ip) ELSE NoCall(g)], network)
            /\ given' = [given EXCEPT ![h] = Append(@, dgram)]
  BY DEF Send
<1> DEFINE dgram  == NewDatagram(Len(given[h]) + 1, ip, 1)
           result == [g \in Host |-> IF g = h THEN SendDatagram(nic[h], dgram, ip) ELSE NoCall(g)]
<1>2. ip \in Ip /\ h \in Host
  BY SegmentAssumption
<1>3. given \in [Host -> Seq(Datagram)]
  BY DEF IInv, GivenTyped
<1>4. Len(given[h]) \in Nat
  BY <1>2, <1>3
<1>5. dgram \in Datagram
  BY <1>2, <1>4 DEF NewDatagram, Datagram
<1>6. Take(result, network) /\ given' = [given EXCEPT ![h] = Append(@, dgram)]
  BY <1>1
<1> HIDE DEF dgram
<1>7. GivenTyped'
  <2>1. Append(given[h], dgram) \in Seq(Datagram)
    BY <1>2, <1>3, <1>5
  <2> QED BY <1>3, <1>6, <2>1 DEF GivenTyped
<1>8. \A g \in Host : Sound(nic[g], result[g])
  BY <1>2, <1>5, SendSound, NoCallSound
<1> HIDE DEF result
<1> QED BY <1>6, <1>7, <1>8, TakeKeeps

\* by a frame that arrives,
LEMMA DeliverKeeps == ASSUME IInv, Deliver PROVE IInv'
<1>1. PICK frame \in network : Take([h \in Host |-> Hear(h, frame)], network \ {frame})
  BY DEF Deliver
<1> DEFINE result == [h \in Host |-> Hear(h, frame)]
<1>2. Take(result, network \ {frame})
  BY <1>1
<1>3. \A h \in Host : Sound(nic[h], result[h])
  BY HearSound
<1>4. GivenTyped'
  BY DEF Deliver, IInv, GivenTyped
<1> HIDE DEF result
<1> QED BY <1>2, <1>3, <1>4, TakeKeeps

\* by one that is lost,
LEMMA LoseKeeps == ASSUME IInv, Lose PROVE IInv'
<1>1. network' \subseteq network
      /\ UNCHANGED <<nic, replaced, given, transmitted, quiet, since>>
  BY DEF Lose
<1>2. TypeOK' /\ NetworkOwned'
  BY <1>1 DEF IInv, TypeOK, NetworkOwned
<1>3. Identity' /\ SinceBounded' /\ GivenTyped'
  BY <1>1 DEF IInv, Identity, SinceBounded, GivenTyped
<1>4. NothingWaitsForTheKnown' /\ StaleMappingExpires'
  BY <1>1 DEF IInv, NothingWaitsForTheKnown, StaleMappingExpires
<1> QED BY <1>2, <1>3, <1>4 DEF IInv

\* by an ARP message of an unknown kind,
LEMMA UnknownKeeps == ASSUME IInv, UnknownArrives PROVE IInv'
<1> DEFINE result == [h \in Host |-> Hear(h, UnknownARP)]
<1>1. Take(result, network)
  BY DEF UnknownArrives
<1>2. \A h \in Host : Sound(nic[h], result[h])
  BY HearUnknownSound
<1>3. GivenTyped'
  BY DEF UnknownArrives, IInv, GivenTyped
<1> HIDE DEF result
<1> QED BY <1>1, <1>2, <1>3, TakeKeeps

\* by the replacement of a host,
LEMMA ReplaceKeeps == ASSUME IInv, NEW k \in Host, Replace(k) PROVE IInv'
<1> DEFINE fresh == NewInterface(EthernetOf(k, TRUE), k)
<1>1. /\ fresh \in Interface /\ Settled(fresh)
      /\ fresh.ip_address = k /\ fresh.ethernet_address = EthernetOf(k, TRUE)
      /\ \A ip \in Ip : ~Knows(fresh, ip)
  BY NewProper, SegmentAssumption
<1>2. /\ nic' = [nic EXCEPT ![k] = fresh] /\ replaced' = replaced \cup {k}
      /\ network' = network /\ since' = [since EXCEPT ![k] = 0]
      /\ given' = [given EXCEPT ![k] = <<>>]
      /\ \A frame \in network : frame.src # nic[k].ethernet_address
  BY DEF Replace
<1> HIDE DEF fresh
<1>3. /\ nic \in [Host -> Interface] /\ since \in [Host -> 0 .. MAPPING_TTL]
      /\ given \in [Host -> Seq(Datagram)]
  BY DEF IInv, TypeOK, SinceBounded, GivenTyped
<1>4. nic'[k] = fresh /\ \A h \in Host \ {k} : nic'[h] = nic[h]
  BY <1>2, <1>3
<1>5. TypeOK'
  BY <1>1, <1>2, <1>3 DEF IInv, TypeOK
<1>6. Identity'
  <2>1. ASSUME NEW h \in Host \ {k}
        PROVE  /\ nic'[h].ip_address = h
               /\ nic'[h].ethernet_address = EthernetOf(h, h \in replaced')
    <3>1. (h \in replaced') = (h \in replaced)
      BY <1>2
    <3>2. nic[h].ip_address = h /\ nic[h].ethernet_address = EthernetOf(h, h \in replaced)
      BY DEF IInv, Identity
    <3>3. nic'[h].ethernet_address = EthernetOf(h, h \in replaced)
      BY <1>4, <3>2
    <3>4. EthernetOf(h, h \in replaced') = EthernetOf(h, h \in replaced)
      BY <3>1, Zenon
    <3> QED BY <1>4, <3>2, <3>3, <3>4
  <2>2. (k \in replaced') = TRUE
    BY <1>2
  <2>3. EthernetOf(k, k \in replaced') = EthernetOf(k, TRUE)
    BY <2>2, Zenon
  <2>4. nic'[k].ip_address = k /\ nic'[k].ethernet_address = EthernetOf(k, k \in replaced')
    BY <1>1, <1>4, <2>3
  <2> QED BY <2>1, <2>4 DEF Identity
<1>7. NetworkOwned'
  <2> SUFFICES ASSUME NEW frame \in network PROVE \E h \in Host : OwnFrame(nic'[h], frame)
    BY <1>2 DEF NetworkOwned, OwnFrame
  <2>1. PICK h \in Host : OwnFrame(nic[h], frame)
    BY DEF IInv, NetworkOwned
  <2>2. h # k
    BY <1>2, <2>1 DEF OwnFrame
  <2> QED BY <1>4, <2>1, <2>2
<1>8. SinceBounded' /\ GivenTyped'
  <2>1. 0 \in 0 .. MAPPING_TTL /\ <<>> \in Seq(Datagram)
    BY InterfaceAssumption
  <2> QED BY <1>2, <1>3, <2>1 DEF SinceBounded, GivenTyped
<1>9. NothingWaitsForTheKnown'
  BY <1>1, <1>4 DEF IInv, NothingWaitsForTheKnown
<1>10. StaleMappingExpires'
  <2> SUFFICES ASSUME NEW g \in Host, NEW h \in Host, Knows(nic'[g], h),
                      nic'[g].arp_cache[h].mac # nic'[h].ethernet_address
               PROVE  nic'[g].arp_cache[h].left + since'[h] <= MAPPING_TTL
    BY DEF StaleMappingExpires
  <2>1. g # k /\ nic'[g] = nic[g]
    BY <1>1, <1>4, SegmentAssumption
  <2>2. CASE h = k
    <3>1. nic[g].arp_cache[h] \in Mapping /\ nic[g].arp_cache[h] # NoMapping
      BY <1>3, <2>1, MappingParts, SegmentAssumption DEF Knows
    <3>2. nic[g].arp_cache[h].left \in 1 .. MAPPING_TTL
      BY <3>1 DEF Mapping
    <3> QED BY <1>2, <1>3, <2>1, <2>2, <3>2, InterfaceAssumption
  <2>3. CASE h # k
    BY <1>2, <1>3, <1>4, <2>1, <2>3 DEF IInv, StaleMappingExpires
  <2> QED BY <2>2, <2>3
<1> QED BY <1>5, <1>6, <1>7, <1>8, <1>9, <1>10 DEF IInv

\* and by the passing of time.
LEMMA TickKeeps == ASSUME IInv, Tick PROVE IInv'
<1>1. /\ nic \in [Host -> Interface] /\ since \in [Host -> 0 .. MAPPING_TTL]
  BY DEF IInv, TypeOK, SinceBounded
<1>2. /\ nic' = [h \in Host |-> TickInterface(nic[h], 1)]
      /\ since' = [h \in Host |-> Later(since[h], 1, MAPPING_TTL)]
      /\ UNCHANGED <<network, faults, replaced, given, transmitted>>
  BY DEF Tick
<1>3. \A h \in Host :
        /\ nic'[h] \in Interface
        /\ nic'[h].ethernet_address = nic[h].ethernet_address
        /\ nic'[h].ip_address = nic[h].ip_address /\ nic'[h].pending = nic[h].pending
        /\ nic'[h].arp_cache = [ip \in Ip |-> Aged(nic[h].arp_cache[ip], 1)]
  BY <1>1, <1>2, TickProper
<1>4. \A h \in Host : \A ip \in Ip :
        Knows(nic'[h], ip) => /\ Knows(nic[h], ip)
                              /\ nic'[h].arp_cache[ip].mac = nic[h].arp_cache[ip].mac
                              /\ nic'[h].arp_cache[ip].left = nic[h].arp_cache[ip].left - 1
                              /\ nic[h].arp_cache[ip].left \in 1 .. MAPPING_TTL
  <2> SUFFICES ASSUME NEW h \in Host, NEW ip \in Ip, Knows(nic'[h], ip)
               PROVE  /\ Knows(nic[h], ip)
                      /\ nic'[h].arp_cache[ip].mac = nic[h].arp_cache[ip].mac
                      /\ nic'[h].arp_cache[ip].left = nic[h].arp_cache[ip].left - 1
                      /\ nic[h].arp_cache[ip].left \in 1 .. MAPPING_TTL
    OBVIOUS
  <2>1. nic'[h].arp_cache[ip] = Aged(nic[h].arp_cache[ip], 1)
    BY <1>3
  <2>2. nic[h].arp_cache[ip] \in Mapping
    BY <1>1, MappingParts
  <2>3. Aged(nic[h].arp_cache[ip], 1) # NoMapping
    BY <2>1 DEF Knows
  <2>4. nic[h].arp_cache[ip] # NoMapping
    BY <2>2, <2>3, AgedMapping
  <2>5. nic[h].arp_cache[ip].left \in 1 .. MAPPING_TTL
    BY <2>2, <2>4 DEF Mapping
  <2> QED BY <2>1, <2>2, <2>3, <2>4, <2>5, AgedMapping DEF Knows
<1>5. TypeOK' /\ NetworkOwned'
  <2>1. nic' \in [Host -> Interface] /\ network' = network
    BY <1>2, <1>3
  <2>2. TypeOK'
    BY <2>1 DEF IInv, TypeOK
  <2>3. \A h \in Host : \A frame : OwnFrame(nic[h], frame) => OwnFrame(nic'[h], frame)
    BY <1>3 DEF OwnFrame
  <2> QED BY <2>1, <2>2, <2>3 DEF IInv, NetworkOwned
<1>6. Identity' /\ GivenTyped'
  BY <1>2, <1>3 DEF IInv, Identity, GivenTyped
<1>7. \A h \in Host : since'[h] \in 0 .. MAPPING_TTL /\ since'[h] <= since[h] + 1
  BY <1>1, <1>2, InterfaceAssumption DEF Later
<1>8. SinceBounded'
  BY <1>2, <1>7 DEF SinceBounded
<1>9. NothingWaitsForTheKnown'
  <2> SUFFICES ASSUME NEW h \in Host, NEW ip \in Ip, Knows(nic'[h], ip)
               PROVE  nic'[h].pending[ip] = <<>>
    BY DEF NothingWaitsForTheKnown
  <2>1. Knows(nic[h], ip) /\ nic'[h].pending = nic[h].pending
    BY <1>3, <1>4
  <2> QED BY <2>1 DEF IInv, NothingWaitsForTheKnown
<1>10. StaleMappingExpires'
  <2> SUFFICES ASSUME NEW g \in Host, NEW h \in Host, Knows(nic'[g], h),
                      nic'[g].arp_cache[h].mac # nic'[h].ethernet_address
               PROVE  nic'[g].arp_cache[h].left + since'[h] <= MAPPING_TTL
    BY DEF StaleMappingExpires
  <2>1. h \in Ip
    BY SegmentAssumption
  <2>2. nic[g].arp_cache[h].left + since[h] <= MAPPING_TTL
    BY <1>3, <1>4, <2>1 DEF IInv, StaleMappingExpires
  <2>3. nic[g].arp_cache[h].left \in Nat /\ since[h] \in Nat /\ since'[h] \in Nat
    BY <1>1, <1>4, <1>7, <2>1, InterfaceAssumption
  <2> QED BY <1>4, <1>7, <2>1, <2>2, <2>3, InterfaceAssumption
<1> QED BY <1>5, <1>6, <1>8, <1>9, <1>10 DEF IInv
-----------------------------------------------------------------------------
(* What is proved of every segment, whatever the hosts, times and bounds.    *)

\* The invariant holds.
THEOREM InvHolds == Spec => []IInv
<1>1. ASSUME IInv, [Next]_vars PROVE IInv'
  <2>1. CASE UNCHANGED vars
    BY <1>1, <2>1 DEF IInv, vars, TypeOK, Identity, NetworkOwned, SinceBounded, GivenTyped,
                NothingWaitsForTheKnown, StaleMappingExpires
  <2>2. CASE Deliver
    BY <1>1, <2>2, DeliverKeeps
  <2>3. CASE Lose
    BY <1>1, <2>3, LoseKeeps
  <2>4. CASE UnknownArrives
    BY <1>1, <2>4, UnknownKeeps
  <2>5. CASE Tick
    BY <1>1, <2>5, TickKeeps
  <2>6. ASSUME NEW h \in Host, Replace(h) PROVE IInv'
    BY <1>1, <2>6, ReplaceKeeps
  <2>7. ASSUME NEW h \in Sender, Send(h) PROVE IInv'
    BY <1>1, <2>7, SendKeeps
  <2> QED BY <1>1, <2>1, <2>2, <2>3, <2>4, <2>5, <2>6, <2>7 DEF Next
<1> QED BY <1>1, InitInv, PTL DEF Spec

\* Every interface keeps its type, and only frames are under way.
THEOREM TypeCorrect == Spec => []TypeOK
<1>1. IInv => TypeOK
  BY DEF IInv
<1> QED BY <1>1, InvHolds, PTL

\* No datagram waits for an address that is known.
THEOREM NothingForgotten == Spec => []NothingWaitsForTheKnown
<1>1. IInv => NothingWaitsForTheKnown
  BY DEF IInv
<1> QED BY <1>1, InvHolds, PTL

\* No false mapping is used for longer than MAPPING_TTL after the replacement.
THEOREM StaleMappingsEnd == Spec => []StaleMappingExpires
<1>1. IInv => StaleMappingExpires
  BY DEF IInv
<1> QED BY <1>1, InvHolds, PTL
-----------------------------------------------------------------------------
(* What goes to one address, and how it is transmitted.                      *)

\* When the frames of a type come first, their payloads are carried in order.
LEMMA CarriedFirst ==
  ASSUME NEW frames \in Seq(Frame), NEW type, NEW n \in 0 .. Len(frames),
         \A i \in 1 .. Len(frames) : frames[i].type = type <=> i <= n
  PROVE  Carried(frames, type) = [k \in 1 .. n |-> frames[k].payload]
<1> DEFINE places == {i \in 1 .. Len(frames) : frames[i].type = type}
<1>1. Len(frames) \in Nat
  OBVIOUS
<1>2. places = 1 .. n
  BY <1>1
<1>3. \A i \in 0 .. n : Cardinality(1 .. i) = i
  BY FS_Interval
<1>4. Cardinality(places) = n
  <2>1. n \in 0 .. n
    BY <1>1
  <2> HIDE DEF places
  <2> QED BY <1>2, <1>3, <2>1
<1>5. \A i \in 1 .. n : Cardinality(places \cap (1 .. i)) = i
  <2> SUFFICES ASSUME NEW i \in 1 .. n PROVE Cardinality(places \cap (1 .. i)) = i
    OBVIOUS
  <2>1. places \cap (1 .. i) = 1 .. i /\ i \in 0 .. n
    BY <1>1, <1>2
  <2> HIDE DEF places
  <2> QED BY <1>3, <2>1
<1> DEFINE pick(k) == CHOOSE i \in places : Cardinality(places \cap (1 .. i)) = k
<1>6. \A k \in 1 .. n : pick(k) = k
  <2> HIDE DEF places
  <2> QED BY <1>2, <1>5
<1>7. Carried(frames, type) = [k \in 1 .. Cardinality(places) |-> frames[pick(k)].payload]
  BY DEF Carried
<1> HIDE DEF places, pick
<1> QED BY <1>4, <1>6, <1>7

\* The datagrams sent and waiting at one interface, of which n were given to
\* it: those to one address leave in the order of their numbers, and the ones
\* that wait for it come after those that went.
Orderly(sent, waiting, n) ==
  /\ sent \in Seq(Datagram) /\ waiting \in [Ip -> Seq(Datagram)]
  /\ \A i \in 1 .. Len(sent) : sent[i].id <= n
  /\ \A i, j \in 1 .. Len(sent) : i < j /\ sent[i].dst = sent[j].dst => sent[i].id < sent[j].id
  /\ \A ip \in Ip : \A i \in 1 .. Len(waiting[ip]) : waiting[ip][i].dst = ip /\ waiting[ip][i].id <= n
  /\ \A ip \in Ip : \A i, j \in 1 .. Len(waiting[ip]) : i < j => waiting[ip][i].id < waiting[ip][j].id
  /\ \A ip \in Ip : \A i \in 1 .. Len(sent) : \A j \in 1 .. Len(waiting[ip]) :
       sent[i].dst = ip => sent[i].id < waiting[ip][j].id

\* The datagrams of a sequence have numbers.
LEMMA NumbersOf ==
  ASSUME NEW s \in Seq(Datagram)
  PROVE  /\ Len(s) \in Nat
         /\ \A i \in 1 .. Len(s) : s[i] \in Datagram /\ s[i].id \in Nat
<1>1. Len(s) \in Nat /\ \A i \in 1 .. Len(s) : s[i] \in Datagram
  OBVIOUS
<1> QED BY <1>1 DEF Datagram

\* The elements of a sequence that continues another.
LEMMA JoinedElements ==
  ASSUME NEW T, NEW s \in Seq(T), NEW t \in Seq(T)
  PROVE  /\ s \o t \in Seq(T) /\ Len(s \o t) = Len(s) + Len(t)
         /\ Len(s) \in Nat /\ Len(t) \in Nat
         /\ \A i \in 1 .. Len(s \o t) :
              \/ i \in 1 .. Len(s) /\ (s \o t)[i] = s[i]
              \/ i - Len(s) \in 1 .. Len(t) /\ (s \o t)[i] = t[i - Len(s)] /\ i > Len(s)
<1>1. /\ s \o t \in Seq(T) /\ Len(s \o t) = Len(s) + Len(t)
      /\ Len(s) \in Nat /\ Len(t) \in Nat
  OBVIOUS
<1>2. ASSUME NEW i \in 1 .. Len(s \o t)
      PROVE  \/ i \in 1 .. Len(s) /\ (s \o t)[i] = s[i]
             \/ i - Len(s) \in 1 .. Len(t) /\ (s \o t)[i] = t[i - Len(s)] /\ i > Len(s)
  BY <1>1
<1> QED BY <1>1, <1>2

\* A release keeps the order: what went out is what waited longest.
LEMMA OrderlyRelease ==
  ASSUME NEW n \in Nat, NEW sent, NEW waiting, Orderly(sent, waiting, n), NEW ip \in Ip
  PROVE  Orderly(sent \o waiting[ip], [waiting EXCEPT ![ip] = <<>>], n)
<1> DEFINE t == sent \o waiting[ip]
           w == [waiting EXCEPT ![ip] = <<>>]
<1>1. sent \in Seq(Datagram) /\ waiting \in [Ip -> Seq(Datagram)] /\ waiting[ip] \in Seq(Datagram)
  BY DEF Orderly
<1>2. /\ t \in Seq(Datagram) /\ Len(t) = Len(sent) + Len(waiting[ip])
      /\ Len(sent) \in Nat /\ Len(waiting[ip]) \in Nat
      /\ \A i \in 1 .. Len(t) :
           \/ i \in 1 .. Len(sent) /\ t[i] = sent[i]
           \/ i - Len(sent) \in 1 .. Len(waiting[ip]) /\ t[i] = waiting[ip][i - Len(sent)] /\ i > Len(sent)
  BY <1>1, JoinedElements
<1>3. <<>> \in Seq(Datagram) /\ Len(<<>>) = 0
  OBVIOUS
<1>4. /\ w \in [Ip -> Seq(Datagram)] /\ w[ip] = <<>>
      /\ \A other \in Ip : other # ip => w[other] = waiting[other]
  BY <1>1, <1>3
<1> HIDE DEF t, w
<1>5. \A i \in 1 .. Len(t) : t[i].id <= n
  BY <1>2 DEF Orderly
<1>6. ASSUME NEW i \in 1 .. Len(t), NEW j \in 1 .. Len(t), i < j, t[i].dst = t[j].dst
      PROVE  t[i].id < t[j].id
  <2>1. CASE i \in 1 .. Len(sent) /\ j \in 1 .. Len(sent)
    BY SMTT(60), <1>2, <1>6, <2>1 DEF Orderly
  <2>2. CASE i \in 1 .. Len(sent) /\ j > Len(sent)
    <3>1. j - Len(sent) \in 1 .. Len(waiting[ip]) /\ t[j] = waiting[ip][j - Len(sent)]
      BY <1>2, <2>2
    <3>2. t[i] = sent[i]
      BY <1>2, <2>2
    <3>3. sent[i].dst = ip
      BY <1>6, <3>1, <3>2 DEF Orderly
    <3> QED BY <2>2, <3>1, <3>2, <3>3 DEF Orderly
  <2>3. CASE i > Len(sent)
    <3>1. /\ i - Len(sent) \in 1 .. Len(waiting[ip]) /\ t[i] = waiting[ip][i - Len(sent)]
          /\ j - Len(sent) \in 1 .. Len(waiting[ip]) /\ t[j] = waiting[ip][j - Len(sent)]
          /\ i - Len(sent) < j - Len(sent)
      <4>1. ~(i \in 1 .. Len(sent)) /\ ~(j \in 1 .. Len(sent))
        BY <1>2, <1>6, <2>3
      <4>2. i \in Int /\ j \in Int /\ i - Len(sent) < j - Len(sent)
        BY <1>2, <1>6
      <4> QED BY <1>2, <4>1, <4>2
    <3> QED BY <3>1 DEF Orderly
  <2> QED BY <1>2, <1>6, <2>1, <2>2, <2>3
<1>7. \A other \in Ip : \A i \in 1 .. Len(w[other]) :
        w[other][i].dst = other /\ w[other][i].id <= n
  <2> SUFFICES ASSUME NEW other \in Ip, NEW i \in 1 .. Len(w[other])
               PROVE  w[other][i].dst = other /\ w[other][i].id <= n
    OBVIOUS
  <2>1. other # ip /\ w[other] = waiting[other]
    BY <1>3, <1>4
  <2> QED BY <2>1 DEF Orderly
<1>8. \A other \in Ip : \A i, j \in 1 .. Len(w[other]) : i < j => w[other][i].id < w[other][j].id
  BY <1>3, <1>4 DEF Orderly
<1>9. ASSUME NEW other \in Ip, NEW i \in 1 .. Len(t), NEW j \in 1 .. Len(w[other]), t[i].dst = other
      PROVE  t[i].id < w[other][j].id
  <2>1. other # ip /\ w[other] = waiting[other]
    BY <1>3, <1>4, <1>9
  <2>2. i \in 1 .. Len(sent) /\ t[i] = sent[i]
    BY <1>2, <1>9, <2>1 DEF Orderly
  <2> QED BY <1>9, <2>1, <2>2 DEF Orderly
<1> QED BY <1>2, <1>4, <1>5, <1>6, <1>7, <1>8, <1>9 DEF Orderly, t, w

\* So does a datagram that is sent at once, when nothing waits,
LEMMA OrderlyTransmit ==
  ASSUME NEW n \in Nat, NEW sent, NEW waiting, Orderly(sent, waiting, n), NEW ip \in Ip,
         waiting[ip] = <<>>, NEW dgram \in Datagram, dgram.id = n + 1, dgram.dst = ip
  PROVE  Orderly(Append(sent, dgram), waiting, n + 1)
<1> DEFINE t == Append(sent, dgram)
<1>1. sent \in Seq(Datagram) /\ waiting \in [Ip -> Seq(Datagram)]
  BY DEF Orderly
<1>2. /\ t \in Seq(Datagram) /\ Len(t) = Len(sent) + 1 /\ Len(sent) \in Nat
      /\ t[Len(t)] = dgram
      /\ \A i \in 1 .. Len(t) : i # Len(t) => i \in 1 .. Len(sent) /\ t[i] = sent[i]
  BY <1>1
<1>3. \A i \in 1 .. Len(sent) : sent[i].id \in Nat /\ sent[i].id <= n
  BY <1>1, NumbersOf DEF Orderly
<1>4. \A other \in Ip : \A i \in 1 .. Len(waiting[other]) :
        waiting[other][i].id \in Nat /\ waiting[other][i].id <= n
  BY <1>1, NumbersOf DEF Orderly
<1> HIDE DEF t
<1>5. \A i \in 1 .. Len(t) : t[i].id <= n + 1
  BY <1>2, <1>3
<1>6. ASSUME NEW i \in 1 .. Len(t), NEW j \in 1 .. Len(t), i < j, t[i].dst = t[j].dst
      PROVE  t[i].id < t[j].id
  <2>1. i \in 1 .. Len(sent) /\ t[i] = sent[i]
    BY <1>2, <1>6
  <2>2. CASE j = Len(t)
    BY <1>2, <1>3, <2>1, <2>2
  <2>3. CASE j # Len(t)
    BY <1>2, <1>6, <2>1, <2>3 DEF Orderly
  <2> QED BY <2>2, <2>3
<1>7. \A other \in Ip : \A i \in 1 .. Len(waiting[other]) :
        waiting[other][i].dst = other /\ waiting[other][i].id <= n + 1
  BY SMTT(60), <1>4 DEF Orderly
<1>8. ASSUME NEW other \in Ip, NEW i \in 1 .. Len(t), NEW j \in 1 .. Len(waiting[other]),
             t[i].dst = other
      PROVE  t[i].id < waiting[other][j].id
  <2>1. CASE i = Len(t)
    <3>1. other = ip /\ Len(waiting[ip]) = 0
      BY <1>2, <1>8, <2>1
    <3> QED BY <3>1
  <2>2. CASE i # Len(t)
    BY <1>2, <1>8, <2>2 DEF Orderly
  <2> QED BY <2>1, <2>2
<1>9. \A other \in Ip : \A i, j \in 1 .. Len(waiting[other]) :
        i < j => waiting[other][i].id < waiting[other][j].id
  BY DEF Orderly
<1> QED BY <1>1, <1>2, <1>5, <1>6, <1>7, <1>8, <1>9 DEF Orderly, t

\* and one that joins those that wait, or takes the place of all that did.
LEMMA OrderlyQueue ==
  ASSUME NEW n \in Nat, NEW sent, NEW waiting, Orderly(sent, waiting, n), NEW ip \in Ip,
         NEW dgram \in Datagram, dgram.id = n + 1, dgram.dst = ip,
         NEW kept \in {<<>>, waiting[ip]}
  PROVE  Orderly(sent, [waiting EXCEPT ![ip] = Append(kept, dgram)], n + 1)
<1> DEFINE q == Append(kept, dgram)
           w == [waiting EXCEPT ![ip] = q]
<1>1. /\ sent \in Seq(Datagram) /\ waiting \in [Ip -> Seq(Datagram)]
      /\ waiting[ip] \in Seq(Datagram)
  BY DEF Orderly
<1>2. kept \in Seq(Datagram) /\ <<>> \in Seq(Datagram) /\ Len(<<>>) = 0
  <2>1. <<>> \in Seq(Datagram) /\ Len(<<>>) = 0
    OBVIOUS
  <2> QED BY <1>1, <2>1
<1>3. /\ q \in Seq(Datagram) /\ Len(q) = Len(kept) + 1 /\ Len(kept) \in Nat
      /\ q[Len(q)] = dgram
      /\ \A i \in 1 .. Len(q) : i # Len(q) => i \in 1 .. Len(kept) /\ q[i] = kept[i]
  BY <1>2
<1>4. \A i \in 1 .. Len(kept) :
        /\ i \in 1 .. Len(waiting[ip]) /\ kept[i] = waiting[ip][i]
        /\ kept[i].id \in Nat /\ kept[i].id <= n /\ kept[i].dst = ip
  <2>1. CASE kept = <<>>
    BY <1>2, <2>1
  <2>2. CASE kept = waiting[ip]
    BY <1>1, <2>2, NumbersOf DEF Orderly
  <2> QED BY <2>1, <2>2
<1>5. /\ w \in [Ip -> Seq(Datagram)] /\ w[ip] = q
      /\ \A other \in Ip : other # ip => w[other] = waiting[other]
  BY <1>1, <1>3
<1>6. \A i \in 1 .. Len(sent) : sent[i].id \in Nat /\ sent[i].id <= n
  BY <1>1, NumbersOf DEF Orderly
<1> HIDE DEF q, w
<1>7. \A i \in 1 .. Len(sent) : sent[i].id <= n + 1
  BY <1>6
<1>8. ASSUME NEW other \in Ip, NEW i \in 1 .. Len(w[other])
      PROVE  w[other][i].dst = other /\ w[other][i].id <= n + 1
  <2>1. CASE other = ip /\ i = Len(q)
    BY <1>3, <1>5, <2>1
  <2>2. CASE other = ip /\ i # Len(q)
    BY <1>3, <1>4, <1>5, <2>2
  <2>3. CASE other # ip
    <3>1. waiting[other] \in Seq(Datagram) /\ w[other] = waiting[other]
      BY <1>1, <1>5, <2>3
    <3>2. waiting[other][i].id \in Nat
      BY <3>1, NumbersOf
    <3> QED BY <3>1, <3>2 DEF Orderly
  <2> QED BY <2>1, <2>2, <2>3
<1>9. ASSUME NEW other \in Ip, NEW i \in 1 .. Len(w[other]), NEW j \in 1 .. Len(w[other]), i < j
      PROVE  w[other][i].id < w[other][j].id
  <2>1. CASE other = ip
    <3>1. i \in 1 .. Len(kept) /\ q[i] = kept[i]
      BY <1>3, <1>5, <1>9, <2>1
    <3>2. CASE j = Len(q)
      BY <1>3, <1>4, <1>5, <2>1, <3>1, <3>2
    <3>3. CASE j # Len(q)
      <4>1. j \in 1 .. Len(kept) /\ q[j] = kept[j]
        BY <1>3, <1>5, <2>1, <3>3
      <4>2. waiting[ip][i].id < waiting[ip][j].id
        BY <1>4, <1>9, <3>1, <4>1 DEF Orderly
      <4> QED BY <1>4, <1>5, <2>1, <3>1, <4>1, <4>2
    <3> QED BY <3>2, <3>3
  <2>2. CASE other # ip
    BY <1>5, <1>9, <2>2 DEF Orderly
  <2> QED BY <2>1, <2>2
<1>10. ASSUME NEW other \in Ip, NEW i \in 1 .. Len(sent), NEW j \in 1 .. Len(w[other]),
              sent[i].dst = other
       PROVE  sent[i].id < w[other][j].id
  <2>1. CASE other = ip /\ j = Len(q)
    BY <1>3, <1>5, <1>6, <2>1
  <2>2. CASE other = ip /\ j # Len(q)
    BY <1>3, <1>4, <1>5, <1>10, <2>2 DEF Orderly
  <2>3. CASE other # ip
    BY <1>5, <1>10, <2>3 DEF Orderly
  <2> QED BY <2>1, <2>2, <2>3
<1>11. \A i, j \in 1 .. Len(sent) : i < j /\ sent[i].dst = sent[j].dst => sent[i].id < sent[j].id
  BY DEF Orderly
<1> QED BY <1>1, <1>5, <1>7, <1>8, <1>9, <1>10, <1>11 DEF Orderly, q, w
-----------------------------------------------------------------------------
(* What a call does for the datagrams and the requests.                      *)

\* The datagrams that a call transmitted.
Sent(result) == Carried(result.out, "IPv4")

Requests(result, ip) == \E frame \in ToSet(result.out) : IsRequest(frame, ip)

\* An address is requested only when no request for it is under way.
Timed(n, result) ==
  \A ip \in Ip :
    IF Requests(result, ip)
    THEN n.request_times[ip] = 0 /\ result.nic.request_times[ip] = REQUEST_THROTTLE
    ELSE result.nic.request_times[ip] = n.request_times[ip]

\* What is sent to that Ethernet address reaches no host but the one with this
\* IP address.
Harmless(mac, ip) ==
  mac # ETHERNET_BROADCAST /\ \A h \in Host : \A r \in BOOLEAN : mac = EthernetOf(h, r) => ip = h

HarmlessCache(n) == \A ip \in Ip : Harmless(n.arp_cache[ip].mac, ip)

HarmlessFrame(frame) == frame.type = "IPv4" => Harmless(frame.dst, frame.payload.dst)

HarmlessCall(result) ==
  HarmlessCache(result.nic) /\ \A i \in 1 .. Len(result.out) : HarmlessFrame(result.out[i])

\* A host takes only what was sent to its address.
OwnReceived(n) == \A i \in 1 .. Len(n.received) : n.received[i].dst = n.ip_address

\* The elements of what a call transmits.
LEMMA FramesOf ==
  ASSUME NEW s \in Seq(Frame)
  PROVE  ToSet(s) = {s[i] : i \in 1 .. Len(s)}
BY DEF ToSet

\* A call that transmits nothing.
LEMMA SilentSent ==
  ASSUME NEW n
  PROVE  /\ Sent([nic |-> n, out |-> <<>>]) = <<>>
         /\ \A ip : ~Requests([nic |-> n, out |-> <<>>], ip)
<1> DEFINE r == [nic |-> n, out |-> <<>>]
<1>1. r.out = <<>> /\ <<>> \in Seq(Frame) /\ Len(<<>>) = 0 /\ 0 \in 0 .. 0
  OBVIOUS
<1>2. Carried(<<>>, "IPv4") = [k \in 1 .. 0 |-> <<>>[k].payload]
  <2>1. \A i \in 1 .. Len(<<>>) : <<>>[i].type = "IPv4" <=> i <= 0
    BY <1>1
  <2>2. 0 \in 0 .. Len(<<>>) /\ <<>> \in Seq(Frame)
    BY <1>1
  <2> QED BY <2>1, <2>2, CarriedFirst
<1>3. [k \in 1 .. 0 |-> <<>>[k].payload] = <<>>
  OBVIOUS
<1>4. ToSet(<<>>) = {}
  <2>1. ToSet(<<>>) = {<<>>[i] : i \in 1 .. 0}
    BY <1>1, FramesOf
  <2> QED BY <2>1
<1> HIDE DEF r
<1> QED BY <1>1, <1>2, <1>3, <1>4 DEF Sent, Requests, r

\* A call that transmits one frame.
LEMMA SingleSent ==
  ASSUME NEW n, NEW frame \in Frame
  PROVE  LET r == [nic |-> n, out |-> <<frame>>]
         IN  /\ frame.type = "IPv4" => Sent(r) = <<frame.payload>>
             /\ frame.type # "IPv4" => Sent(r) = <<>>
             /\ \A ip : Requests(r, ip) <=> IsRequest(frame, ip)
<1> DEFINE r == [nic |-> n, out |-> <<frame>>]
<1>1. r.out = <<frame>> /\ <<frame>> \in Seq(Frame) /\ Len(<<frame>>) = 1 /\ <<frame>>[1] = frame
  OBVIOUS
<1>2. ASSUME frame.type = "IPv4" PROVE Carried(<<frame>>, "IPv4") = <<frame.payload>>
  <2>1. \A i \in 1 .. Len(<<frame>>) : <<frame>>[i].type = "IPv4" <=> i <= 1
    BY <1>1, <1>2
  <2>2. 1 \in 0 .. Len(<<frame>>)
    BY <1>1
  <2>3. Carried(<<frame>>, "IPv4") = [k \in 1 .. 1 |-> <<frame>>[k].payload]
    <3> DEFINE one == <<frame>>
    <3>1. one \in Seq(Frame) /\ 1 \in 0 .. Len(one)
      BY <1>1, <2>2
    <3>2. \A i \in 1 .. Len(one) : one[i].type = "IPv4" <=> i <= 1
      BY <2>1
    <3> HIDE DEF one
    <3>3. Carried(one, "IPv4") = [k \in 1 .. 1 |-> one[k].payload]
      BY <3>1, <3>2, CarriedFirst
    <3> QED BY <3>3 DEF one
  <2>4. [k \in 1 .. 1 |-> <<frame>>[k].payload] = <<frame.payload>>
    OBVIOUS
  <2> QED BY <2>3, <2>4
<1>3. ASSUME frame.type # "IPv4" PROVE Carried(<<frame>>, "IPv4") = <<>>
  <2>1. \A i \in 1 .. Len(<<frame>>) : <<frame>>[i].type = "IPv4" <=> i <= 0
    BY <1>1, <1>3
  <2>2. 0 \in 0 .. Len(<<frame>>)
    BY <1>1
  <2>3. Carried(<<frame>>, "IPv4") = [k \in 1 .. 0 |-> <<frame>>[k].payload]
    BY ZenonT(60), <1>1, <2>1, <2>2, CarriedFirst
  <2>4. [k \in 1 .. 0 |-> <<frame>>[k].payload] = <<>>
    OBVIOUS
  <2> QED BY <2>3, <2>4
<1>4. ToSet(<<frame>>) = {frame}
  <2>1. ToSet(<<frame>>) = {<<frame>>[i] : i \in 1 .. 1}
    BY <1>1, FramesOf
  <2> QED BY <1>1, <2>1
<1> HIDE DEF r
<1> QED BY <1>1, <1>2, <1>3, <1>4 DEF Sent, Requests, r

\* What is learned from a host is harmless: its Ethernet address is its own;
LEMMA HostsAreHarmless ==
  ASSUME NEW h \in Host, NEW r \in BOOLEAN
  PROVE  Harmless(EthernetOf(h, r), h)
<1>1. EthernetOf(h, r) # ETHERNET_BROADCAST
  BY SegmentAssumption
<1>2. \A g \in Host : \A q \in BOOLEAN : EthernetOf(h, r) = EthernetOf(g, q) => h = g
  BY SegmentAssumption
<1> QED BY <1>1, <1>2 DEF Harmless

\* so are the zeros, for no host has them.
LEMMA ZerosAreHarmless == \A ip : Harmless(NoEthernet, ip)
<1>1. NoEthernet # ETHERNET_BROADCAST
  BY InterfaceAssumption
<1>2. \A g \in Host : \A q \in BOOLEAN : NoEthernet # EthernetOf(g, q)
  BY SegmentAssumption
<1> QED BY <1>1, <1>2 DEF Harmless

\* Sending: a request only after REQUEST_THROTTLE, the datagram in its order
\* and to its address.
LEMMA SendDutiful ==
  ASSUME NEW n \in Interface, NEW sent, NEW number \in Nat, NEW ip \in Ip,
         Orderly(sent, n.pending, number), Settled(n), HarmlessCache(n),
         NEW dgram \in Datagram, dgram.id = number + 1, dgram.dst = ip
  PROVE  LET r == SendDatagram(n, dgram, ip)
         IN  /\ Timed(n, r) /\ HarmlessCall(r)
             /\ Orderly(sent \o Sent(r), r.nic.pending, number + 1)
             /\ r.nic.received = n.received
<1> DEFINE r == SendDatagram(n, dgram, ip)
<1>1. sent \in Seq(Datagram) /\ n.pending \in [Ip -> Seq(Datagram)]
  BY DEF Orderly
<1>2. sent \o <<>> = sent /\ sent \o <<dgram>> = Append(sent, dgram)
  BY <1>1
<1>3. CASE Knows(n, ip)
  <2> DEFINE frame == DatagramFrame(n, dgram, ip)
  <2>1. r = [nic |-> n, out |-> <<frame>>]
    BY <1>3 DEF SendDatagram
  <2>2. frame \in Frame /\ frame.type = "IPv4" /\ frame.payload = dgram
        /\ frame.dst = n.arp_cache[ip].mac
    BY DatagramFrameOwn DEF OwnFrame, DatagramFrame
  <2> HIDE DEF r, frame
  <2>3. Sent(r) = <<dgram>> /\ \A other : ~Requests(r, other)
    BY <2>1, <2>2, SingleSent DEF IsRequest
  <2>4. r.nic = n /\ r.out = <<frame>> /\ Len(<<frame>>) = 1 /\ <<frame>>[1] = frame
    BY <2>1
  <2>5. HarmlessCall(r)
    BY <2>2, <2>4 DEF HarmlessCall, HarmlessCache, HarmlessFrame
  <2>6. n.pending[ip] = <<>>
    BY <1>3 DEF Settled
  <2>7. Orderly(sent \o Sent(r), r.nic.pending, number + 1)
    BY <1>2, <2>3, <2>4, <2>6, OrderlyTransmit
  <2> QED BY <2>3, <2>4, <2>5, <2>7 DEF Timed, r
<1>4. CASE ~Knows(n, ip) /\ n.request_times[ip] = 0
  <2> DEFINE waiting == [n EXCEPT !.pending[ip] = <<dgram>>]
             asked   == [waiting EXCEPT !.request_times[ip] = REQUEST_THROTTLE]
             frame   == RequestFrame(n, ip)
  <2>1. [n EXCEPT !.pending[ip] = <<dgram>>, !.request_times[ip] = REQUEST_THROTTLE] = asked
    BY DEF Interface
  <2>2. r = [nic |-> [n EXCEPT !.pending[ip] = <<dgram>>, !.request_times[ip] = REQUEST_THROTTLE],
             out |-> <<frame>>]
    BY <1>4 DEF SendDatagram, Ask
  <2>3. frame \in Frame /\ frame.type = "ARP" /\ frame.payload.opcode = "REQUEST"
        /\ frame.payload.target_ip = ip
    BY RequestFrameOwn DEF OwnFrame, RequestFrame
  <2>4. <<dgram>> \in Seq(Datagram) /\ <<dgram>> = Append(<<>>, dgram)
    OBVIOUS
  <2> HIDE DEF asked, waiting
  <2>5. /\ waiting \in Interface /\ waiting.arp_cache = n.arp_cache
        /\ waiting.pending = [n.pending EXCEPT ![ip] = <<dgram>>]
        /\ waiting.request_times = n.request_times /\ waiting.received = n.received
    BY ZenonT(60), <2>4, PendingReplaced DEF waiting
  <2>6. /\ asked.arp_cache = n.arp_cache
        /\ asked.pending = [n.pending EXCEPT ![ip] = <<dgram>>]
        /\ asked.request_times = [n.request_times EXCEPT ![ip] = REQUEST_THROTTLE]
        /\ asked.received = n.received
    BY <2>5 DEF asked, Interface
  <2>7. r = [nic |-> asked, out |-> <<frame>>]
    BY <2>1, <2>2
  <2> HIDE DEF r, frame
  <2>8. Sent(r) = <<>> /\ \A other : Requests(r, other) <=> other = ip
    BY <2>3, <2>7, SingleSent DEF IsRequest
  <2>9. r.nic = asked /\ r.out = <<frame>> /\ Len(<<frame>>) = 1 /\ <<frame>>[1] = frame
    BY <2>7
  <2>10. HarmlessCall(r)
    BY <2>3, <2>6, <2>9 DEF HarmlessCall, HarmlessCache, HarmlessFrame
  <2>11. Timed(n, r)
    <3>1. n.request_times \in [Ip -> 0 .. REQUEST_THROTTLE]
      BY InterfaceParts
    <3> QED BY <1>4, <2>6, <2>8, <2>9, <3>1 DEF Timed
  <2>12. Orderly(sent \o Sent(r), r.nic.pending, number + 1)
    <3>1. Orderly(sent, [n.pending EXCEPT ![ip] = Append(<<>>, dgram)], number + 1)
      BY OrderlyQueue
    <3> QED BY <1>2, <2>4, <2>6, <2>8, <2>9, <3>1
  <2> QED BY <2>6, <2>9, <2>10, <2>11, <2>12 DEF r
<1>5. CASE ~Knows(n, ip) /\ n.request_times[ip] # 0
  <2> DEFINE queued == [n EXCEPT !.pending[ip] = Append(n.pending[ip], dgram)]
  <2>1. r = [nic |-> queued, out |-> <<>>]
    BY <1>5 DEF SendDatagram
  <2>2. Append(n.pending[ip], dgram) \in Seq(Datagram)
    BY MappingParts
  <2>3. /\ queued.arp_cache = n.arp_cache /\ queued.request_times = n.request_times
        /\ queued.pending = [n.pending EXCEPT ![ip] = Append(n.pending[ip], dgram)]
        /\ queued.received = n.received
    BY <2>2, PendingReplaced
  <2> HIDE DEF queued, r
  <2>4. Sent(r) = <<>> /\ \A other : ~Requests(r, other)
    BY <2>1, SilentSent
  <2>5. r.nic = queued /\ r.out = <<>> /\ Len(<<>>) = 0
    BY <2>1
  <2>6. HarmlessCall(r)
    BY <2>3, <2>5 DEF HarmlessCall, HarmlessCache
  <2>7. Orderly(sent \o Sent(r), r.nic.pending, number + 1)
    <3>1. Orderly(sent, [n.pending EXCEPT ![ip] = Append(n.pending[ip], dgram)], number + 1)
      BY OrderlyQueue
    <3> QED BY <1>2, <2>3, <2>4, <2>5, <3>1
  <2> QED BY <2>3, <2>4, <2>5, <2>6, <2>7 DEF Timed, r
<1> QED BY <1>3, <1>4, <1>5

\* An answer is an ARP reply.
LEMMA AnswerKinds ==
  ASSUME NEW n \in Interface, NEW msg \in ARPMessage
  PROVE  \A i \in 1 .. Len(Answer(n, msg)) :
           Answer(n, msg)[i].type = "ARP" /\ Answer(n, msg)[i].payload.opcode = "REPLY"
BY DEF Answer, ReplyFrame

\* What follows the datagrams of a call is an answer.
LEMMA ReleaseSent ==
  ASSUME NEW n, NEW q \in Seq(Datagram), NEW frames \in Seq(Frame), NEW rest \in Seq(Frame),
         Len(frames) = Len(q),
         \A i \in 1 .. Len(q) : frames[i].type = "IPv4" /\ frames[i].payload = q[i],
         \A i \in 1 .. Len(rest) : rest[i].type = "ARP" /\ rest[i].payload.opcode = "REPLY"
  PROVE  LET r == [nic |-> n, out |-> frames \o rest]
         IN  Sent(r) = q /\ \A ip : ~Requests(r, ip)
<1> DEFINE out == frames \o rest
<1>1. /\ out \in Seq(Frame) /\ Len(out) = Len(q) + Len(rest) /\ Len(q) \in Nat /\ Len(rest) \in Nat
      /\ \A i \in 1 .. Len(q) : out[i] = frames[i]
      /\ \A i \in 1 .. Len(out) : i > Len(q) => i - Len(q) \in 1 .. Len(rest) /\ out[i] = rest[i - Len(q)]
  <2>1. /\ out \in Seq(Frame) /\ Len(out) = Len(frames) + Len(rest)
        /\ Len(frames) \in Nat /\ Len(rest) \in Nat
        /\ \A i \in 1 .. Len(out) :
              \/ i \in 1 .. Len(frames) /\ out[i] = frames[i]
              \/ i - Len(frames) \in 1 .. Len(rest) /\ out[i] = rest[i - Len(frames)] /\ i > Len(frames)
    BY JoinedElements
  <2> HIDE DEF out
  <2> QED BY SMTT(60), <2>1
<1> HIDE DEF out
<1>2. \A i \in 1 .. Len(out) : out[i].type = "IPv4" <=> i <= Len(q)
  <2> SUFFICES ASSUME NEW i \in 1 .. Len(out) PROVE out[i].type = "IPv4" <=> i <= Len(q)
    OBVIOUS
  <2>1. CASE i <= Len(q)
    <3>1. i \in 1 .. Len(q)
      BY <1>1, <2>1
    <3> QED BY <1>1, <2>1, <3>1
  <2>2. CASE i > Len(q)
    <3>1. out[i].type = "ARP"
      BY SMTT(60), <1>1, <2>2
    <3> QED BY <1>1, <2>2, <3>1
  <2> QED BY <1>1, <2>1, <2>2
<1>3. Len(q) \in 0 .. Len(out)
  BY <1>1
<1>4. Carried(out, "IPv4") = [k \in 1 .. Len(q) |-> out[k].payload]
  BY ZenonT(60), <1>1, <1>2, <1>3, CarriedFirst
<1>5. [k \in 1 .. Len(q) |-> out[k].payload] = q
  <2>1. \A k \in 1 .. Len(q) : out[k].payload = q[k]
    BY <1>1
  <2>2. q = [k \in 1 .. Len(q) |-> q[k]]
    OBVIOUS
  <2> QED BY <2>1, <2>2
<1>6. \A ip : \A frame \in ToSet(out) : ~IsRequest(frame, ip)
  <2> SUFFICES ASSUME NEW ip, NEW i \in 1 .. Len(out) PROVE ~IsRequest(out[i], ip)
    BY <1>1, FramesOf
  <2>1. CASE i <= Len(q)
    BY <1>1, <1>2, <2>1 DEF IsRequest
  <2>2. CASE i > Len(q)
    <3>1. out[i].payload.opcode = "REPLY"
      BY SMTT(60), <1>1, <2>2
    <3> QED BY <3>1 DEF IsRequest
  <2> QED BY <1>1, <2>1, <2>2
<1> QED BY <1>4, <1>5, <1>6 DEF Sent, Requests, out

\* An ARP message releases what waits for its sender, in its order, to the
\* Ethernet address it names, and asks for nothing.
LEMMA RecvARPDutiful ==
  ASSUME NEW n \in Interface, NEW msg \in ARPMessage, NEW sent, NEW number \in Nat,
         Orderly(sent, n.pending, number), HarmlessCache(n),
         Harmless(msg.sender_ethernet, msg.sender_ip)
  PROVE  LET r == RecvARP(n, msg)
         IN  /\ Timed(n, r) /\ HarmlessCall(r)
             /\ Orderly(sent \o Sent(r), r.nic.pending, number)
             /\ r.nic.received = n.received
             /\ r.nic.pending = [n.pending EXCEPT ![msg.sender_ip] = <<>>]
             /\ Sent(r) = n.pending[msg.sender_ip]
<1> DEFINE ip      == msg.sender_ip
           taught  == Learn(n, msg)
           q       == taught.pending[ip]
           emptied == [taught EXCEPT !.pending[ip] = <<>>]
           frames  == [i \in 1 .. Len(q) |-> DatagramFrame(taught, q[i], ip)]
           rest    == Answer(n, msg)
           r       == RecvARP(n, msg)
<1>1. ip \in Ip
  BY DEF ARPMessage
<1>2. r = [nic |-> emptied, out |-> frames \o rest]
  BY DEF RecvARP, Release
<1>3. /\ taught \in Interface /\ taught.pending = n.pending
      /\ taught.arp_cache = [n.arp_cache EXCEPT ![ip] = [mac |-> msg.sender_ethernet, left |-> MAPPING_TTL]]
  BY LearnProper
<1>4. taught.request_times = n.request_times /\ taught.received = n.received
  BY DEF Learn, Interface
<1> HIDE DEF taught
<1>5. q \in Seq(Datagram) /\ q = n.pending[ip]
  BY <1>1, <1>3, MappingParts
<1>6. <<>> \in Seq(Datagram)
  OBVIOUS
<1>7. /\ emptied.pending = [n.pending EXCEPT ![ip] = <<>>] /\ emptied.received = n.received
      /\ emptied.arp_cache = taught.arp_cache /\ emptied.request_times = n.request_times
  BY <1>1, <1>3, <1>4, <1>6, PendingReplaced
<1> HIDE DEF emptied, ip
<1>8. \A i \in 1 .. Len(q) :
        /\ DatagramFrame(taught, q[i], ip) \in Frame
        /\ DatagramFrame(taught, q[i], ip).type = "IPv4"
        /\ DatagramFrame(taught, q[i], ip).payload = q[i]
        /\ DatagramFrame(taught, q[i], ip).dst = taught.arp_cache[ip].mac
  <2> SUFFICES ASSUME NEW i \in 1 .. Len(q)
               PROVE  /\ DatagramFrame(taught, q[i], ip) \in Frame
                      /\ DatagramFrame(taught, q[i], ip).type = "IPv4"
                      /\ DatagramFrame(taught, q[i], ip).payload = q[i]
                      /\ DatagramFrame(taught, q[i], ip).dst = taught.arp_cache[ip].mac
    OBVIOUS
  <2>1. q[i] \in Datagram
    BY <1>5, NumbersOf
  <2>2. OwnFrame(taught, DatagramFrame(taught, q[i], ip))
    BY <1>1, <1>3, <2>1, DatagramFrameOwn
  <2> QED BY <2>2 DEF OwnFrame, DatagramFrame
<1> HIDE DEF q
<1>9. /\ frames \in Seq(Frame) /\ Len(frames) = Len(q)
      /\ \A i \in 1 .. Len(q) : /\ frames[i].type = "IPv4" /\ frames[i].payload = q[i]
                                /\ frames[i].dst = taught.arp_cache[ip].mac
  BY <1>5, <1>8
<1> HIDE DEF frames
<1>10. rest \in Seq(Frame) /\ \A i \in 1 .. Len(rest) :
         rest[i].type = "ARP" /\ rest[i].payload.opcode = "REPLY"
  BY AnswerProper, AnswerKinds
<1> HIDE DEF rest
<1>11. Sent(r) = q /\ \A other : ~Requests(r, other)
  <2>1. Len(frames) = Len(q) /\ frames \in Seq(Frame) /\ rest \in Seq(Frame) /\ q \in Seq(Datagram)
    BY <1>5, <1>9, <1>10
  <2>2. \A i \in 1 .. Len(q) : frames[i].type = "IPv4" /\ frames[i].payload = q[i]
    BY <1>9
  <2>3. LET s == [nic |-> emptied, out |-> frames \o rest] IN Sent(s) = q /\ \A other : ~Requests(s, other)
    BY <1>10, <2>1, <2>2, ReleaseSent
  <2> HIDE DEF r
  <2> QED BY <1>2, <2>3
<1>12. r.nic = emptied /\ r.out = frames \o rest
  BY <1>2
<1> HIDE DEF r
<1>13. Timed(n, r)
  BY <1>7, <1>11, <1>12 DEF Timed
<1>14. Orderly(sent \o Sent(r), r.nic.pending, number)
  <2>1. Orderly(sent \o n.pending[ip], [n.pending EXCEPT ![ip] = <<>>], number)
    BY <1>1, OrderlyRelease
  <2> QED BY <1>5, <1>7, <1>11, <1>12, <2>1
<1>15. HarmlessCache(emptied)
  <2> SUFFICES ASSUME NEW other \in Ip PROVE Harmless(emptied.arp_cache[other].mac, other)
    BY DEF HarmlessCache
  <2>1. n.arp_cache \in [Ip -> Mapping]
    BY InterfaceParts
  <2>2. CASE other = ip
    <3>1. emptied.arp_cache[other].mac = msg.sender_ethernet
      BY <1>1, <1>3, <1>7, <2>1, <2>2
    <3> QED BY <2>2, <3>1 DEF ip
  <2>3. CASE other # ip
    <3>1. emptied.arp_cache[other] = n.arp_cache[other]
      BY <1>1, <1>3, <1>7, <2>1, <2>3
    <3> QED BY <3>1 DEF HarmlessCache
  <2> QED BY <2>2, <2>3
<1>16. \A i \in 1 .. Len(q) : q[i].dst = ip
  BY <1>1, <1>5 DEF Orderly
<1>17. Harmless(taught.arp_cache[ip].mac, ip)
  BY <1>1, <1>7, <1>15 DEF HarmlessCache
<1>18. \A i \in 1 .. Len(frames \o rest) : HarmlessFrame((frames \o rest)[i])
  <2> SUFFICES ASSUME NEW i \in 1 .. Len(frames \o rest) PROVE HarmlessFrame((frames \o rest)[i])
    OBVIOUS
  <2>1. /\ Len(frames \o rest) = Len(frames) + Len(rest) /\ Len(frames) \in Nat /\ Len(rest) \in Nat
        /\ \/ i \in 1 .. Len(frames) /\ (frames \o rest)[i] = frames[i]
           \/ /\ i - Len(frames) \in 1 .. Len(rest) /\ i > Len(frames)
              /\ (frames \o rest)[i] = rest[i - Len(frames)]
    <3>1. frames \in Seq(Frame) /\ rest \in Seq(Frame)
      BY <1>9, <1>10
    <3>2. /\ Len(frames \o rest) = Len(frames) + Len(rest) /\ Len(frames) \in Nat /\ Len(rest) \in Nat
          /\ \A k \in 1 .. Len(frames \o rest) :
               \/ k \in 1 .. Len(frames) /\ (frames \o rest)[k] = frames[k]
               \/ k - Len(frames) \in 1 .. Len(rest) /\ (frames \o rest)[k] = rest[k - Len(frames)] /\ k > Len(frames)
      BY <3>1, JoinedElements
    <3> QED BY <3>2
  <2>2. CASE i <= Len(frames)
    <3>1. (frames \o rest)[i] = frames[i] /\ i \in 1 .. Len(q)
      BY <1>9, <1>10, <2>1, <2>2
    <3> QED BY <1>9, <1>16, <1>17, <3>1 DEF HarmlessFrame
  <2>3. CASE i > Len(frames)
    <3>1. (frames \o rest)[i] = rest[i - Len(frames)] /\ i - Len(frames) \in 1 .. Len(rest)
      BY <1>9, <1>10, <2>1, <2>3
    <3> QED BY <1>10, <3>1 DEF HarmlessFrame
  <2> QED BY <2>1, <2>2, <2>3
<1>19. HarmlessCall(r)
  BY <1>12, <1>15, <1>18 DEF HarmlessCall
<1> QED BY <1>5, <1>7, <1>11, <1>12, <1>13, <1>14, <1>19 DEF r, ip

\* A call that does nothing for datagrams.
LEMMA SilentDutiful ==
  ASSUME NEW n \in Interface, NEW m, NEW sent, NEW number,
         Orderly(sent, n.pending, number), HarmlessCache(n),
         m.pending = n.pending, m.arp_cache = n.arp_cache, m.request_times = n.request_times
  PROVE  LET r == [nic |-> m, out |-> <<>>]
         IN  /\ Timed(n, r) /\ HarmlessCall(r)
             /\ Orderly(sent \o Sent(r), r.nic.pending, number)
             /\ Sent(r) = <<>>
<1> DEFINE r == [nic |-> m, out |-> <<>>]
<1>1. Sent(r) = <<>> /\ \A ip : ~Requests(r, ip)
  BY SilentSent
<1>2. r.nic = m /\ r.out = <<>> /\ Len(<<>>) = 0
  OBVIOUS
<1> HIDE DEF r
<1>3. sent \in Seq(Datagram) /\ sent \o <<>> = sent
  BY DEF Orderly
<1>4. Timed(n, r)
  BY <1>1, <1>2 DEF Timed
<1>5. HarmlessCall(r)
  BY <1>2 DEF HarmlessCall, HarmlessCache
<1> QED BY <1>1, <1>2, <1>3, <1>4, <1>5 DEF r
-----------------------------------------------------------------------------
(* What the invariant says of datagrams and requests.                        *)

\* The time that a request is still not to be repeated is what is left of
\* REQUEST_THROTTLE since it was made.
ClockAgrees ==
  /\ quiet \in [Host -> [Ip -> 0 .. REQUEST_THROTTLE]]
  /\ \A h \in Host : \A ip \in Ip : nic[h].request_times[ip] + quiet[h][ip] = REQUEST_THROTTLE

AllOrderly == \A h \in Host : Orderly(transmitted[h], nic[h].pending, Len(given[h]))

CachesHarmless == \A h \in Host : HarmlessCache(nic[h])

FramesHarmless == \A frame \in network : HarmlessFrame(frame)

HistoryTyped == transmitted \in [Host -> Seq(Datagram)]

MailInv ==
  /\ IInv /\ HistoryTyped
  /\ ClockAgrees /\ AllOrderly /\ CachesHarmless /\ FramesHarmless /\ ReachesTheAddressed

\* A call as this invariant needs it, of an interface that was given so many
\* datagrams.
Dutiful(h, result, number) ==
  /\ Timed(nic[h], result) /\ HarmlessCall(result)
  /\ Orderly(transmitted[h] \o Sent(result), result.nic.pending, number)
  /\ \A i \in 1 .. Len(result.nic.received) : result.nic.received[i].dst = h

\* Nothing that waits is lost in a call.
Lossless(n, result) ==
  /\ Sent(result) \in Seq(Datagram)
  /\ \A ip \in Ip : \A i \in 1 .. Len(n.pending[ip]) :
       \/ \E k \in 1 .. Len(Sent(result)) : Sent(result)[k] = n.pending[ip][i]
       \/ \E k \in 1 .. Len(result.nic.pending[ip]) : result.nic.pending[ip][k] = n.pending[ip][i]

\* A host has the Ethernet address it was made with, or that of its replacement.
LEMMA HostHasItsAddress ==
  ASSUME Identity, NEW h \in Host
  PROVE  \E r \in BOOLEAN : nic[h].ethernet_address = EthernetOf(h, r)
<1>1. nic[h].ethernet_address = EthernetOf(h, h \in replaced)
  BY DEF Identity
<1>2. CASE h \in replaced
  <2>1. (h \in replaced) = TRUE
    BY <1>2
  <2>2. EthernetOf(h, h \in replaced) = EthernetOf(h, TRUE)
    BY <2>1, Zenon
  <2> QED BY <1>1, <2>2
<1>3. CASE h \notin replaced
  <2>1. (h \in replaced) = FALSE
    BY <1>3
  <2>2. EthernetOf(h, h \in replaced) = EthernetOf(h, FALSE)
    BY <2>1, Zenon
  <2> QED BY <1>1, <2>2
<1> QED BY <1>2, <1>3

\* An interface that is not called.
LEMMA NoCallDutiful ==
  ASSUME MailInv, NEW h \in Host
  PROVE  Dutiful(h, NoCall(h), Len(given[h])) /\ Lossless(nic[h], NoCall(h))
<1>1. nic[h] \in Interface /\ HarmlessCache(nic[h])
  BY DEF MailInv, IInv, TypeOK, CachesHarmless
<1>2. Orderly(transmitted[h], nic[h].pending, Len(given[h]))
  BY DEF MailInv, AllOrderly
<1> DEFINE r == [nic |-> nic[h], out |-> <<>>]
<1>3. NoCall(h) = r
  BY DEF NoCall
<1>4. /\ Timed(nic[h], r) /\ HarmlessCall(r)
      /\ Orderly(transmitted[h] \o Sent(r), r.nic.pending, Len(given[h]))
      /\ Sent(r) = <<>>
  BY <1>1, <1>2, SilentDutiful
<1>5. r.nic = nic[h] /\ <<>> \in Seq(Datagram)
  OBVIOUS
<1> HIDE DEF r
<1>6. \A i \in 1 .. Len(r.nic.received) : r.nic.received[i].dst = h
  BY <1>5 DEF MailInv, ReachesTheAddressed
<1> QED BY <1>3, <1>4, <1>5, <1>6 DEF Dutiful, Lossless

\* A host that hears a frame: if it goes to this host, its datagram does too;
\* if it says who has an address, it says so truly.
LEMMA HearDutiful ==
  ASSUME MailInv, NEW h \in Host, NEW frame \in Frame, HarmlessFrame(frame),
         frame.type = "ARP" => Harmless(ParseARP(frame.payload).sender_ethernet,
                                        ParseARP(frame.payload).sender_ip)
  PROVE  Dutiful(h, Hear(h, frame), Len(given[h])) /\ Lossless(nic[h], Hear(h, frame))
<1> DEFINE r == Hear(h, frame)
           n == nic[h]
<1>1. n \in Interface /\ HarmlessCache(n)
  BY DEF MailInv, IInv, TypeOK, CachesHarmless
<1>2. Orderly(transmitted[h], n.pending, Len(given[h]))
  BY DEF MailInv, AllOrderly
<1>3. \A i \in 1 .. Len(n.received) : n.received[i].dst = h
  BY DEF MailInv, ReachesTheAddressed
<1>4. CASE frame.src = n.ethernet_address
  BY <1>4, NoCallDutiful DEF Hear
<1>5. CASE frame.src # n.ethernet_address /\ ~Addressed(n, frame)
  <2>1. r = NoCall(h)
    BY <1>5 DEF Hear, RecvFrame, NoCall
  <2> QED BY <2>1, NoCallDutiful
<1>6. CASE frame.src # n.ethernet_address /\ Addressed(n, frame) /\ frame.type = "IPv4"
  <2> DEFINE dgram == ParseDatagram(frame.payload)
             m     == [n EXCEPT !.received = Append(n.received, dgram)]
  <2>1. r = [nic |-> m, out |-> <<>>]
    BY <1>6 DEF Hear, RecvFrame
  <2>2. frame.payload \in Datagram
    BY <1>6, FrameKinds
  <2>3. dgram \in Datagram /\ dgram.dst = frame.payload.dst
    BY <2>2, ParsedTypes DEF ParseDatagram, Datagram
  <2>4. dgram.dst = h
    <3>1. Harmless(frame.dst, frame.payload.dst)
      BY <1>6 DEF HarmlessFrame
    <3>2. frame.dst = n.ethernet_address
      BY <1>6, <3>1 DEF Addressed, Harmless
    <3>3. PICK b \in BOOLEAN : n.ethernet_address = EthernetOf(h, b)
      BY HostHasItsAddress DEF MailInv, IInv
    <3> QED BY <2>3, <3>1, <3>2, <3>3 DEF Harmless
  <2> HIDE DEF dgram
  <2>5. n.received \in Seq(Datagram)
    BY <1>1, InterfaceParts
  <2>6. /\ m.pending = n.pending /\ m.arp_cache = n.arp_cache
        /\ m.request_times = n.request_times /\ m.received = Append(n.received, dgram)
    BY <1>1 DEF Interface
  <2> HIDE DEF m
  <2>7. /\ Timed(n, r) /\ HarmlessCall(r)
        /\ Orderly(transmitted[h] \o Sent(r), r.nic.pending, Len(given[h]))
        /\ Sent(r) = <<>>
    BY <1>1, <1>2, <2>1, <2>6, SilentDutiful
  <2>8. r.nic = m /\ <<>> \in Seq(Datagram)
    BY <2>1
  <2> HIDE DEF r
  <2>9. \A i \in 1 .. Len(m.received) : m.received[i].dst = h
    BY <1>3, <2>3, <2>4, <2>5, <2>6
  <2> QED BY <2>6, <2>7, <2>8, <2>9 DEF Dutiful, Lossless, r
<1>7. CASE frame.src # n.ethernet_address /\ Addressed(n, frame) /\ frame.type = "ARP"
  <2> DEFINE msg == ParseARP(frame.payload)
  <2>1. r = RecvARP(n, msg)
    BY <1>7 DEF Hear, RecvFrame
  <2>2. msg \in ARPMessage
    BY <1>7, FrameKinds, ParsedTypes
  <2>3. Harmless(msg.sender_ethernet, msg.sender_ip)
    BY <1>7
  <2>4. Len(given[h]) \in Nat
    BY DEF MailInv, IInv, GivenTyped
  <2> HIDE DEF msg, r, n
  <2>5. /\ Timed(n, r) /\ HarmlessCall(r)
        /\ Orderly(transmitted[h] \o Sent(r), r.nic.pending, Len(given[h]))
        /\ r.nic.received = n.received
        /\ r.nic.pending = [n.pending EXCEPT ![msg.sender_ip] = <<>>]
        /\ Sent(r) = n.pending[msg.sender_ip]
    BY <1>1, <1>2, <2>1, <2>2, <2>3, <2>4, RecvARPDutiful
  <2>6. Lossless(n, r)
    <3> SUFFICES ASSUME NEW ip \in Ip, NEW i \in 1 .. Len(n.pending[ip])
                 PROVE  \/ \E k \in 1 .. Len(Sent(r)) : Sent(r)[k] = n.pending[ip][i]
                        \/ \E k \in 1 .. Len(r.nic.pending[ip]) : r.nic.pending[ip][k] = n.pending[ip][i]
      <4>1. Sent(r) \in Seq(Datagram)
        BY <1>1, <2>2, <2>5, InterfaceParts DEF ARPMessage
      <4> QED BY <4>1 DEF Lossless
    <3>1. CASE ip = msg.sender_ip
      BY <2>5, <3>1
    <3>2. CASE ip # msg.sender_ip
      <4>1. n.pending \in [Ip -> Seq(Datagram)]
        BY <1>1, InterfaceParts
      <4>2. r.nic.pending[ip] = n.pending[ip]
        BY <2>5, <3>2, <4>1
      <4> QED BY <4>2
    <3> QED BY <3>1, <3>2
  <2> QED BY <1>3, <2>5, <2>6 DEF Dutiful, n, r
<1> QED BY <1>4, <1>5, <1>6, <1>7, FrameKinds

\* What is under way is true.
LEMMA NetworkTells ==
  ASSUME MailInv, NEW frame \in network
  PROVE  /\ frame \in Frame /\ HarmlessFrame(frame)
         /\ frame.type = "ARP" => Harmless(ParseARP(frame.payload).sender_ethernet,
                                           ParseARP(frame.payload).sender_ip)
<1>1. frame \in Frame /\ HarmlessFrame(frame)
  BY DEF MailInv, IInv, TypeOK, FramesHarmless
<1>2. PICK h \in Host : OwnFrame(nic[h], frame)
  BY DEF MailInv, IInv, NetworkOwned
<1>3. ASSUME frame.type = "ARP"
      PROVE  Harmless(ParseARP(frame.payload).sender_ethernet, ParseARP(frame.payload).sender_ip)
  <2>1. /\ ParseARP(frame.payload) = frame.payload
        /\ frame.payload.sender_ip = h
        /\ frame.payload.sender_ethernet = nic[h].ethernet_address
    BY <1>2, <1>3 DEF OwnFrame, ParseARP, MailInv, IInv, Identity
  <2>2. PICK b \in BOOLEAN : nic[h].ethernet_address = EthernetOf(h, b)
    BY HostHasItsAddress DEF MailInv, IInv
  <2>3. Harmless(EthernetOf(h, b), h)
    BY HostsAreHarmless
  <2> QED BY <2>1, <2>2, <2>3
<1> QED BY <1>1, <1>3

\* It names the zeros.
LEMMA UnknownTells ==
  /\ UnknownARP \in Frame /\ HarmlessFrame(UnknownARP)
  /\ Harmless(ParseARP(UnknownARP.payload).sender_ethernet, ParseARP(UnknownARP.payload).sender_ip)
<1>1. UnknownARP \in Frame
  BY InterfaceAssumption DEF UnknownARP, Frame, ARPMessage
<1>2. HarmlessFrame(UnknownARP)
  BY DEF UnknownARP, HarmlessFrame
<1>3. ParseARP(UnknownARP.payload).sender_ethernet = NoEthernet
  BY DEF UnknownARP, ParseARP
<1> QED BY <1>1, <1>2, <1>3, ZerosAreHarmless
-----------------------------------------------------------------------------
(* The actions, once more.                                                   *)

\* Calls keep the invariant.
LEMMA TakeMail ==
  ASSUME MailInv, IInv', NEW result, NEW left, Take(result, left), left \subseteq network,
         \A h \in Host : Proper(nic[h], result[h]) /\ Dutiful(h, result[h], Len(given'[h]))
  PROVE  MailInv'
<1>1. /\ nic' = [h \in Host |-> result[h].nic]
      /\ network' = left \cup UNION {ToSet(result[h].out) : h \in Host}
      /\ transmitted' = [h \in Host |-> transmitted[h] \o Sent(result[h])]
      /\ quiet' = [h \in Host |-> [ip \in Ip |-> IF Requests(result[h], ip) THEN 0 ELSE quiet[h][ip]]]
  BY DEF Take, Sent, Requests
<1>2. HistoryTyped'
  <2>1. \A h \in Host : transmitted[h] \o Sent(result[h]) \in Seq(Datagram)
    BY DEF Dutiful, Orderly
  <2> QED BY <1>1, <2>1 DEF HistoryTyped
<1>3. ClockAgrees'
  <2>1. ASSUME NEW h \in Host, NEW ip \in Ip
        PROVE  /\ quiet'[h][ip] \in 0 .. REQUEST_THROTTLE
               /\ nic'[h].request_times[ip] + quiet'[h][ip] = REQUEST_THROTTLE
    <3>1. /\ quiet[h][ip] \in 0 .. REQUEST_THROTTLE
          /\ nic[h].request_times[ip] + quiet[h][ip] = REQUEST_THROTTLE
      BY DEF MailInv, ClockAgrees
    <3>2. Timed(nic[h], result[h])
      BY DEF Dutiful
    <3>3. CASE Requests(result[h], ip)
      <4>1. quiet'[h][ip] = 0 /\ nic'[h].request_times[ip] = REQUEST_THROTTLE
        BY <1>1, <3>2, <3>3 DEF Timed
      <4> QED BY <4>1, InterfaceAssumption
    <3>4. CASE ~Requests(result[h], ip)
      <4>1. quiet'[h][ip] = quiet[h][ip] /\ nic'[h].request_times[ip] = nic[h].request_times[ip]
        BY <1>1, <3>2, <3>4 DEF Timed
      <4> QED BY <3>1, <4>1
    <3> QED BY <3>3, <3>4
  <2>2. \A h \in Host : quiet'[h] = [ip \in Ip |-> quiet'[h][ip]]
    BY <1>1
  <2>3. quiet' = [h \in Host |-> quiet'[h]]
    BY <1>1
  <2>4. \A h \in Host : quiet'[h] \in [Ip -> 0 .. REQUEST_THROTTLE]
    BY <2>1, <2>2
  <2> QED BY <2>1, <2>3, <2>4 DEF ClockAgrees
<1>4. AllOrderly'
  BY <1>1 DEF AllOrderly, Dutiful
<1>5. CachesHarmless'
  BY <1>1 DEF CachesHarmless, Dutiful, HarmlessCall
<1>6. FramesHarmless'
  <2> SUFFICES ASSUME NEW frame \in network' PROVE HarmlessFrame(frame)
    BY DEF FramesHarmless
  <2>1. CASE frame \in network
    BY <2>1 DEF MailInv, FramesHarmless
  <2>2. CASE frame \notin network
    <3>1. PICK h \in Host : frame \in ToSet(result[h].out)
      BY <1>1, <2>2
    <3>2. result[h].out \in Seq(Frame)
      BY DEF Proper
    <3>3. PICK i \in 1 .. Len(result[h].out) : frame = result[h].out[i]
      BY <3>1, <3>2, FramesOf
    <3> QED BY <3>3 DEF Dutiful, HarmlessCall
  <2> QED BY <2>1, <2>2
<1>7. ReachesTheAddressed'
  BY <1>1 DEF ReachesTheAddressed, Dutiful
<1> QED BY <1>2, <1>3, <1>4, <1>5, <1>6, <1>7 DEF MailInv

\* What is sent:
LEMMA SendDutifulCalls ==
  ASSUME MailInv, NEW h \in Sender, NEW ip \in Reachable \ {h}
  PROVE  LET dgram  == NewDatagram(Len(given[h]) + 1, ip, 1)
             result == [g \in Host |-> IF g = h THEN SendDatagram(nic[h], dgram, ip) ELSE NoCall(g)]
         IN  /\ dgram \in Datagram /\ ip \in Ip
             /\ \A g \in Host : Proper(nic[g], result[g])
             /\ Dutiful(h, result[h], Len(given[h]) + 1)
             /\ \A g \in Host \ {h} : result[g] = NoCall(g) /\ Dutiful(g, result[g], Len(given[g]))
<1> DEFINE dgram  == NewDatagram(Len(given[h]) + 1, ip, 1)
           result == [g \in Host |-> IF g = h THEN SendDatagram(nic[h], dgram, ip) ELSE NoCall(g)]
<1>1. ip \in Ip /\ h \in Host
  BY SegmentAssumption
<1>2. Len(given[h]) \in Nat
  BY <1>1 DEF MailInv, IInv, GivenTyped
<1>3. dgram \in Datagram /\ dgram.id = Len(given[h]) + 1 /\ dgram.dst = ip
  BY <1>1, <1>2 DEF NewDatagram, Datagram
<1> HIDE DEF dgram
<1>4. nic[h] \in Interface /\ HarmlessCache(nic[h]) /\ Settled(nic[h])
  BY <1>1 DEF MailInv, IInv, TypeOK, CachesHarmless, NothingWaitsForTheKnown, Settled
<1>5. Orderly(transmitted[h], nic[h].pending, Len(given[h]))
  BY <1>1 DEF MailInv, AllOrderly
<1>6. result[h] = SendDatagram(nic[h], dgram, ip)
  BY <1>1
<1>7. \A g \in Host \ {h} : result[g] = NoCall(g)
  OBVIOUS
<1>8. \A i \in 1 .. Len(nic[h].received) : nic[h].received[i].dst = h
  BY <1>1 DEF MailInv, ReachesTheAddressed
<1> HIDE DEF result
<1>9. Proper(nic[h], result[h])
  BY <1>1, <1>3, <1>4, <1>6, SendProper
<1>10. \A g \in Host \ {h} : Proper(nic[g], result[g]) /\ Dutiful(g, result[g], Len(given[g]))
  BY <1>7, NoCallDutiful, NoCallSound DEF Sound, MailInv
<1>11. /\ Timed(nic[h], result[h]) /\ HarmlessCall(result[h])
       /\ Orderly(transmitted[h] \o Sent(result[h]), result[h].nic.pending, Len(given[h]) + 1)
       /\ result[h].nic.received = nic[h].received
  <2> DEFINE n == nic[h]
             s == SendDatagram(n, dgram, ip)
  <2>1. Orderly(transmitted[h], n.pending, Len(given[h])) /\ n \in Interface
        /\ Settled(n) /\ HarmlessCache(n)
    BY <1>4, <1>5
  <2> HIDE DEF n
  <2>2. /\ Timed(n, s) /\ HarmlessCall(s)
        /\ Orderly(transmitted[h] \o Sent(s), s.nic.pending, Len(given[h]) + 1)
        /\ s.nic.received = n.received
    BY <1>1, <1>2, <1>3, <2>1, SendDutiful
  <2> QED BY <1>6, <2>2 DEF n
<1>12. Dutiful(h, result[h], Len(given[h]) + 1)
  BY <1>8, <1>11 DEF Dutiful
<1> QED BY <1>1, <1>3, <1>7, <1>9, <1>10, <1>12 DEF dgram, result

\* A datagram that a host sends keeps the invariant of the mail.
LEMMA SendMail == ASSUME MailInv, IInv', NEW h \in Sender, Send(h) PROVE MailInv'
<1>1. PICK ip \in Reachable \ {h} :
        LET dgram == NewDatagram(Len(given[h]) + 1, ip, 1)
        IN  /\ Take([g \in Host |-> IF g = h THEN SendDatagram(nic[h], dgram, ip) ELSE NoCall(g)], network)
            /\ given' = [given EXCEPT ![h] = Append(@, dgram)]
  BY DEF Send
<1> DEFINE dgram  == NewDatagram(Len(given[h]) + 1, ip, 1)
           result == [g \in Host |-> IF g = h THEN SendDatagram(nic[h], dgram, ip) ELSE NoCall(g)]
<1>2. /\ Take(result, network) /\ given' = [given EXCEPT ![h] = Append(@, dgram)]
  BY <1>1
<1>3. /\ dgram \in Datagram
      /\ \A g \in Host : Proper(nic[g], result[g])
      /\ Dutiful(h, result[h], Len(given[h]) + 1)
      /\ \A g \in Host \ {h} : Dutiful(g, result[g], Len(given[g]))
  BY SendDutifulCalls
<1> HIDE DEF dgram, result
<1>4. h \in Host /\ given \in [Host -> Seq(Datagram)]
  BY SegmentAssumption DEF MailInv, IInv, GivenTyped
<1>5. given'[h] = Append(given[h], dgram) /\ \A g \in Host \ {h} : given'[g] = given[g]
  BY <1>2, <1>4
<1>6. Len(given'[h]) = Len(given[h]) + 1
  BY <1>3, <1>4, <1>5
<1>7. \A g \in Host : Dutiful(g, result[g], Len(given'[g]))
  BY <1>3, <1>5, <1>6
<1> QED BY <1>2, <1>3, <1>7, TakeMail

\* So does a frame that all the hosts hear,
LEMMA DeliverMail == ASSUME MailInv, IInv', Deliver PROVE MailInv'
<1>1. PICK frame \in network : Take([h \in Host |-> Hear(h, frame)], network \ {frame})
  BY DEF Deliver
<1> DEFINE result == [h \in Host |-> Hear(h, frame)]
<1>2. Take(result, network \ {frame})
  BY <1>1
<1>3. \A h \in Host : result[h] = Hear(h, frame)
  OBVIOUS
<1> HIDE DEF result
<1>4. \A h \in Host : Proper(nic[h], result[h])
  BY <1>3, HearSound DEF Sound, MailInv
<1>5. \A h \in Host : Dutiful(h, result[h], Len(given[h]))
  BY <1>3, HearDutiful, NetworkTells
<1>6. given' = given
  BY DEF Deliver
<1> QED BY <1>2, <1>4, <1>5, <1>6, TakeMail

\* a message of an unknown kind,
LEMMA UnknownMail == ASSUME MailInv, IInv', UnknownArrives PROVE MailInv'
<1> DEFINE result == [h \in Host |-> Hear(h, UnknownARP)]
<1>1. Take(result, network)
  BY DEF UnknownArrives
<1>2. \A h \in Host : result[h] = Hear(h, UnknownARP)
  OBVIOUS
<1> HIDE DEF result
<1>3. \A h \in Host : Proper(nic[h], result[h])
  BY <1>2, HearUnknownSound DEF Sound, MailInv
<1>4. \A h \in Host : Dutiful(h, result[h], Len(given[h]))
  BY <1>2, HearDutiful, UnknownTells
<1>5. given' = given
  BY DEF UnknownArrives
<1> QED BY <1>1, <1>3, <1>4, <1>5, TakeMail

\* a frame that is lost,
LEMMA LoseMail == ASSUME MailInv, IInv', Lose PROVE MailInv'
<1>1. network' \subseteq network
      /\ UNCHANGED <<nic, replaced, given, transmitted, quiet, since>>
  BY DEF Lose
<1>2. HistoryTyped' /\ ClockAgrees' /\ AllOrderly'
  BY <1>1 DEF MailInv, HistoryTyped, ClockAgrees, AllOrderly
<1>3. CachesHarmless' /\ FramesHarmless' /\ ReachesTheAddressed'
  BY <1>1 DEF MailInv, CachesHarmless, FramesHarmless, ReachesTheAddressed
<1> QED BY <1>2, <1>3 DEF MailInv

\* A new interface has nothing to send and believes nothing.
LEMMA NewDutiful ==
  ASSUME NEW mac \in EthernetAddress, NEW h \in Host
  PROVE  LET n == NewInterface(mac, h)
         IN  /\ Orderly(<<>>, n.pending, 0) /\ HarmlessCache(n)
             /\ n.received = <<>> /\ \A ip \in Ip : n.request_times[ip] = 0
<1> DEFINE n == NewInterface(mac, h)
<1>1. n.pending = [ip \in Ip |-> <<>>] /\ n.received = <<>>
      /\ n.request_times = [ip \in Ip |-> 0] /\ n.arp_cache = [ip \in Ip |-> NoMapping]
  BY DEF NewInterface
<1> HIDE DEF n
<1>2. <<>> \in Seq(Datagram) /\ Len(<<>>) = 0
  OBVIOUS
<1>3. Orderly(<<>>, n.pending, 0)
  <2>1. n.pending \in [Ip -> Seq(Datagram)] /\ \A ip \in Ip : Len(n.pending[ip]) = 0
    BY <1>1, <1>2
  <2> QED BY <1>2, <2>1 DEF Orderly
<1>4. HarmlessCache(n)
  <2>1. NoMapping.mac = NoEthernet
    BY DEF NoMapping
  <2>2. \A ip \in Ip : n.arp_cache[ip].mac = NoEthernet
    BY <1>1, <2>1
  <2> QED BY <2>2, ZerosAreHarmless DEF HarmlessCache
<1> QED BY <1>1, <1>3, <1>4 DEF n

\* a host that is replaced,
LEMMA ReplaceMail == ASSUME MailInv, IInv', NEW k \in Host, Replace(k) PROVE MailInv'
<1> DEFINE fresh == NewInterface(EthernetOf(k, TRUE), k)
<1>1. /\ nic' = [nic EXCEPT ![k] = fresh] /\ network' = network
      /\ given' = [given EXCEPT ![k] = <<>>] /\ transmitted' = [transmitted EXCEPT ![k] = <<>>]
      /\ quiet' = [quiet EXCEPT ![k] = [ip \in Ip |-> REQUEST_THROTTLE]]
  BY DEF Replace
<1>2. EthernetOf(k, TRUE) \in EthernetAddress
  BY SegmentAssumption
<1>3. /\ Orderly(<<>>, fresh.pending, 0) /\ HarmlessCache(fresh)
      /\ fresh.received = <<>> /\ \A ip \in Ip : fresh.request_times[ip] = 0
  BY <1>2, NewDutiful
<1> HIDE DEF fresh
<1>4. /\ nic \in [Host -> Interface] /\ given \in [Host -> Seq(Datagram)]
      /\ transmitted \in [Host -> Seq(Datagram)] /\ quiet \in [Host -> [Ip -> 0 .. REQUEST_THROTTLE]]
  BY DEF MailInv, IInv, TypeOK, GivenTyped, HistoryTyped, ClockAgrees
<1>5. /\ nic'[k] = fresh /\ given'[k] = <<>> /\ transmitted'[k] = <<>>
      /\ quiet'[k] = [ip \in Ip |-> REQUEST_THROTTLE]
      /\ \A h \in Host \ {k} : /\ nic'[h] = nic[h] /\ given'[h] = given[h]
                               /\ transmitted'[h] = transmitted[h] /\ quiet'[h] = quiet[h]
  BY <1>1, <1>4
<1>6. <<>> \in Seq(Datagram) /\ Len(<<>>) = 0 /\ REQUEST_THROTTLE \in Nat
  BY InterfaceAssumption
<1>7. HistoryTyped'
  BY <1>1, <1>4, <1>6 DEF HistoryTyped
<1>8. ClockAgrees'
  <2>1. [ip \in Ip |-> REQUEST_THROTTLE] \in [Ip -> 0 .. REQUEST_THROTTLE]
    BY <1>6
  <2>2. quiet' \in [Host -> [Ip -> 0 .. REQUEST_THROTTLE]]
    BY <1>1, <1>4, <2>1
  <2>3. ASSUME NEW h \in Host, NEW ip \in Ip
        PROVE  nic'[h].request_times[ip] + quiet'[h][ip] = REQUEST_THROTTLE
    <3>1. CASE h = k
      BY <1>3, <1>5, <1>6, <3>1
    <3>2. CASE h # k
      BY <1>5, <3>2 DEF MailInv, ClockAgrees
    <3> QED BY <3>1, <3>2
  <2> QED BY <2>2, <2>3 DEF ClockAgrees
<1>9. AllOrderly'
  <2> SUFFICES ASSUME NEW h \in Host
               PROVE  Orderly(transmitted'[h], nic'[h].pending, Len(given'[h]))
    BY DEF AllOrderly
  <2>1. CASE h = k
    BY <1>3, <1>5, <1>6, <2>1
  <2>2. CASE h # k
    BY <1>5, <2>2 DEF MailInv, AllOrderly
  <2> QED BY <2>1, <2>2
<1>10. CachesHarmless'
  BY <1>3, <1>5 DEF MailInv, CachesHarmless
<1>11. FramesHarmless'
  BY <1>1 DEF MailInv, FramesHarmless
<1>12. ReachesTheAddressed'
  BY <1>3, <1>5, <1>6 DEF MailInv, ReachesTheAddressed
<1> QED BY <1>7, <1>8, <1>9, <1>10, <1>11, <1>12 DEF MailInv

\* and the time that goes by.
LEMMA TickMail == ASSUME MailInv, IInv', Tick PROVE MailInv'
<1>1. /\ nic' = [h \in Host |-> TickInterface(nic[h], 1)]
      /\ quiet' = [h \in Host |-> [ip \in Ip |-> Later(quiet[h][ip], 1, REQUEST_THROTTLE)]]
      /\ UNCHANGED <<network, faults, replaced, given, transmitted>>
  BY DEF Tick
<1>2. \A h \in Host : nic[h] \in Interface
  BY DEF MailInv, IInv, TypeOK
<1>3. \A h \in Host : /\ nic'[h].pending = nic[h].pending
                      /\ nic'[h].arp_cache = [ip \in Ip |-> Aged(nic[h].arp_cache[ip], 1)]
  BY <1>1, <1>2, TickProper
<1>4. \A h \in Host :
        /\ nic'[h].received = nic[h].received
        /\ nic'[h].request_times =
             [ip \in Ip |-> IF nic[h].request_times[ip] > 1 THEN nic[h].request_times[ip] - 1 ELSE 0]
  BY <1>1, <1>2 DEF TickInterface, Interface
<1>5. HistoryTyped' /\ FramesHarmless' /\ AllOrderly' /\ ReachesTheAddressed'
  <2>1. HistoryTyped' /\ FramesHarmless'
    BY <1>1 DEF MailInv, HistoryTyped, FramesHarmless
  <2>2. AllOrderly'
    BY <1>1, <1>3 DEF MailInv, AllOrderly
  <2>3. ReachesTheAddressed'
    BY <1>4 DEF MailInv, ReachesTheAddressed
  <2> QED BY <2>1, <2>2, <2>3
<1>6. ClockAgrees'
  <2>1. ASSUME NEW h \in Host, NEW ip \in Ip
        PROVE  /\ Later(quiet[h][ip], 1, REQUEST_THROTTLE) \in 0 .. REQUEST_THROTTLE
               /\ nic'[h].request_times[ip] + Later(quiet[h][ip], 1, REQUEST_THROTTLE) = REQUEST_THROTTLE
    <3>1. /\ quiet[h][ip] \in 0 .. REQUEST_THROTTLE
          /\ nic[h].request_times[ip] + quiet[h][ip] = REQUEST_THROTTLE
      BY DEF MailInv, ClockAgrees
    <3>2. nic[h].request_times[ip] \in 0 .. REQUEST_THROTTLE
      BY <1>2, InterfaceParts
    <3>3. nic'[h].request_times[ip] =
            IF nic[h].request_times[ip] > 1 THEN nic[h].request_times[ip] - 1 ELSE 0
      BY <1>4
    <3> DEFINE x == nic[h].request_times[ip]
               y == quiet[h][ip]
               z == nic'[h].request_times[ip]
    <3> HIDE DEF x, y, z
    <3>4. Later(y, 1, REQUEST_THROTTLE) \in 0 .. REQUEST_THROTTLE
          /\ z + Later(y, 1, REQUEST_THROTTLE) = REQUEST_THROTTLE
      <4>1. /\ y \in 0 .. REQUEST_THROTTLE /\ x + y = REQUEST_THROTTLE
            /\ x \in 0 .. REQUEST_THROTTLE /\ z = (IF x > 1 THEN x - 1 ELSE 0)
        BY <3>1, <3>2, <3>3 DEF x, y, z
      <4> QED BY <4>1, InterfaceAssumption DEF Later
    <3> QED BY <3>4 DEF y, z
  <2> QED BY <1>1, <2>1 DEF ClockAgrees
<1>7. CachesHarmless'
  <2> SUFFICES ASSUME NEW h \in Host, NEW ip \in Ip PROVE Harmless(nic'[h].arp_cache[ip].mac, ip)
    BY DEF CachesHarmless, HarmlessCache
  <2>1. nic'[h].arp_cache[ip] = Aged(nic[h].arp_cache[ip], 1)
    BY <1>3
  <2>2. nic[h].arp_cache[ip] \in Mapping /\ Harmless(nic[h].arp_cache[ip].mac, ip)
    BY <1>2, MappingParts DEF MailInv, CachesHarmless, HarmlessCache
  <2>3. CASE Aged(nic[h].arp_cache[ip], 1) = NoMapping
    BY <2>1, <2>3, ZerosAreHarmless DEF NoMapping
  <2>4. CASE Aged(nic[h].arp_cache[ip], 1) # NoMapping
    BY <2>1, <2>2, <2>4, AgedMapping
  <2> QED BY <2>3, <2>4
<1> QED BY <1>5, <1>6, <1>7 DEF MailInv

\* It holds at first.
LEMMA InitMail == ASSUME Init PROVE MailInv
<1>1. IInv
  BY InitInv
<1>2. \A h \in Host : LET n == NewInterface(EthernetOf(h, FALSE), h)
                      IN  /\ nic[h] = n /\ Orderly(<<>>, n.pending, 0) /\ HarmlessCache(n)
                          /\ n.received = <<>> /\ \A ip \in Ip : n.request_times[ip] = 0
  <2> SUFFICES ASSUME NEW h \in Host
               PROVE  LET n == NewInterface(EthernetOf(h, FALSE), h)
                      IN  /\ nic[h] = n /\ Orderly(<<>>, n.pending, 0) /\ HarmlessCache(n)
                          /\ n.received = <<>> /\ \A ip \in Ip : n.request_times[ip] = 0
    OBVIOUS
  <2>1. EthernetOf(h, FALSE) \in EthernetAddress
    BY SegmentAssumption
  <2>2. nic[h] = NewInterface(EthernetOf(h, FALSE), h)
    BY DEF Init
  <2> QED BY <2>1, <2>2, NewDutiful
<1>3. <<>> \in Seq(Datagram) /\ Len(<<>>) = 0 /\ REQUEST_THROTTLE \in Nat
  BY InterfaceAssumption
<1>4. HistoryTyped /\ FramesHarmless
  BY <1>3 DEF Init, HistoryTyped, FramesHarmless
<1>5. ClockAgrees
  <2>1. \A h \in Host : \A ip \in Ip : quiet[h][ip] = REQUEST_THROTTLE
    BY DEF Init
  <2>2. quiet \in [Host -> [Ip -> 0 .. REQUEST_THROTTLE]]
    BY <1>3 DEF Init
  <2>3. \A h \in Host : \A ip \in Ip : nic[h].request_times[ip] = 0
    BY <1>2
  <2> QED BY <1>3, <2>1, <2>2, <2>3 DEF ClockAgrees
<1>6. AllOrderly
  BY <1>2, <1>3 DEF Init, AllOrderly
<1>7. CachesHarmless /\ ReachesTheAddressed
  <2>1. \A h \in Host : HarmlessCache(nic[h]) /\ Len(nic[h].received) = 0
    BY <1>2, <1>3
  <2> QED BY <2>1 DEF CachesHarmless, ReachesTheAddressed
<1> QED BY <1>1, <1>4, <1>5, <1>6, <1>7 DEF MailInv

\* The invariant of datagrams and requests holds.
THEOREM MailInvariant == Spec => []MailInv
<1>1. ASSUME IInv, IInv', MailInv, [Next]_vars PROVE MailInv'
  <2>1. CASE UNCHANGED vars
    BY <1>1, <2>1 DEF MailInv, vars, HistoryTyped, ClockAgrees, AllOrderly, CachesHarmless,
                      FramesHarmless, ReachesTheAddressed
  <2>2. CASE Deliver
    BY <1>1, <2>2, DeliverMail
  <2>3. CASE Lose
    BY <1>1, <2>3, LoseMail
  <2>4. CASE UnknownArrives
    BY <1>1, <2>4, UnknownMail
  <2>5. CASE Tick
    BY <1>1, <2>5, TickMail
  <2>6. ASSUME NEW h \in Host, Replace(h) PROVE MailInv'
    BY <1>1, <2>6, ReplaceMail
  <2>7. ASSUME NEW h \in Sender, Send(h) PROVE MailInv'
    BY <1>1, <2>7, SendMail
  <2> QED BY <1>1, <2>1, <2>2, <2>3, <2>4, <2>5, <2>6, <2>7 DEF Next
<1>2. Init => MailInv
  BY InitMail
<1> QED BY <1>1, <1>2, InvHolds, PTL DEF Spec

\* A datagram reaches no host but the one with the address it was sent to.
THEOREM RightHost == Spec => []ReachesTheAddressed
<1>1. MailInv => ReachesTheAddressed
  BY DEF MailInv
<1> QED BY <1>1, MailInvariant, PTL

\* The datagrams to one address leave in the order of the calls, and once only.
THEOREM OrderKept == Spec => []InOrderAndOnce
<1>1. ASSUME MailInv PROVE InOrderAndOnce
  <2> SUFFICES ASSUME NEW h \in Host, NEW ip \in Ip,
                      NEW i \in 1 .. Len(transmitted[h] \o nic[h].pending[ip]),
                      NEW j \in 1 .. Len(transmitted[h] \o nic[h].pending[ip]),
                      i < j,
                      (transmitted[h] \o nic[h].pending[ip])[i].dst = ip,
                      (transmitted[h] \o nic[h].pending[ip])[j].dst = ip
               PROVE  (transmitted[h] \o nic[h].pending[ip])[i].id
                        < (transmitted[h] \o nic[h].pending[ip])[j].id
    BY ZenonT(60) DEF InOrderAndOnce
  <2> DEFINE sent    == transmitted[h]
             waiting == nic[h].pending[ip]
             order   == sent \o waiting
  <2>1. Orderly(sent, nic[h].pending, Len(given[h]))
    BY <1>1 DEF MailInv, AllOrderly
  <2>2. sent \in Seq(Datagram) /\ waiting \in Seq(Datagram)
    BY <2>1 DEF Orderly
  <2>3. /\ Len(sent) \in Nat /\ Len(order) = Len(sent) + Len(waiting)
        /\ \A k \in 1 .. Len(order) :
             \/ k \in 1 .. Len(sent) /\ order[k] = sent[k]
             \/ k - Len(sent) \in 1 .. Len(waiting) /\ order[k] = waiting[k - Len(sent)] /\ k > Len(sent)
    BY <2>2, JoinedElements
  <2>4. i \in 1 .. Len(order) /\ j \in 1 .. Len(order) /\ order[i].dst = ip /\ order[j].dst = ip
    OBVIOUS
  <2>5. order[i].id < order[j].id => (transmitted[h] \o nic[h].pending[ip])[i].id
                                       < (transmitted[h] \o nic[h].pending[ip])[j].id
    OBVIOUS
  <2>6. waiting = nic[h].pending[ip]
    OBVIOUS
  <2> HIDE DEF order, sent, waiting
  <2>7. CASE j <= Len(sent)
    <3>1. i \in 1 .. Len(sent) /\ j \in 1 .. Len(sent) /\ order[i] = sent[i] /\ order[j] = sent[j]
      BY <2>3, <2>4, <2>7
    <3> QED BY <2>1, <2>4, <2>5, <2>6, <3>1 DEF Orderly
  <2>8. CASE j > Len(sent) /\ i <= Len(sent)
    <3>1. /\ i \in 1 .. Len(sent) /\ order[i] = sent[i]
          /\ j - Len(sent) \in 1 .. Len(waiting) /\ order[j] = waiting[j - Len(sent)]
      BY <2>3, <2>4, <2>8
    <3> QED BY SMTT(60), <2>1, <2>4, <2>5, <2>6, <3>1 DEF Orderly
  <2>9. CASE i > Len(sent)
    <3>1. /\ i - Len(sent) \in 1 .. Len(waiting) /\ order[i] = waiting[i - Len(sent)]
          /\ j - Len(sent) \in 1 .. Len(waiting) /\ order[j] = waiting[j - Len(sent)]
          /\ i - Len(sent) < j - Len(sent)
      BY <2>3, <2>4, <2>9
    <3> QED BY <2>1, <2>4, <2>5, <2>6, <3>1 DEF Orderly
  <2> QED BY SMTT(60), <2>3, <2>4, <2>7, <2>8, <2>9
<1> QED BY <1>1, MailInvariant, PTL
-----------------------------------------------------------------------------
(* What a step never does.                                                   *)

\* A call repeats no request before its time.
LEMMA TakeThrottles ==
  ASSUME MailInv, NEW result, NEW left, Take(result, left), left \subseteq network,
         \A h \in Host : Proper(nic[h], result[h]) /\ Timed(nic[h], result[h]),
         NEW h \in Host, NEW ip \in Ip, quiet[h][ip] < REQUEST_THROTTLE,
         NEW frame \in network' \ network, frame.src = nic[h].ethernet_address, IsRequest(frame, ip)
  PROVE  FALSE
<1>1. frame \in UNION {ToSet(result[g].out) : g \in Host}
  BY DEF Take
<1>2. PICK g \in Host : frame \in ToSet(result[g].out)
  BY <1>1
<1>3. result[g].out \in Seq(Frame)
  BY DEF Proper
<1>4. PICK i \in 1 .. Len(result[g].out) : frame = result[g].out[i]
  BY <1>2, <1>3, FramesOf
<1>5. OwnFrame(nic[g], frame)
  BY <1>4 DEF Proper
<1>6. g = h
  <2>1. nic[g].ethernet_address = nic[h].ethernet_address
    BY <1>5 DEF OwnFrame
  <2>2. Identity
    BY DEF MailInv, IInv
  <2>3. PICK q \in BOOLEAN : nic[g].ethernet_address = EthernetOf(g, q)
    BY <2>2, HostHasItsAddress
  <2>4. PICK r \in BOOLEAN : nic[h].ethernet_address = EthernetOf(h, r)
    BY <2>2, HostHasItsAddress
  <2> QED BY <2>1, <2>3, <2>4, SegmentAssumption
<1>7. Requests(result[h], ip)
  BY <1>2, <1>6 DEF Requests
<1>8. nic[h].request_times[ip] = 0
  BY <1>7 DEF Timed
<1>9. nic[h].request_times[ip] + quiet[h][ip] = REQUEST_THROTTLE /\ quiet[h][ip] \in 0 .. REQUEST_THROTTLE
  BY DEF MailInv, ClockAgrees
<1> QED BY <1>8, <1>9, InterfaceAssumption

\* A datagram to an unknown address that may be requested has it requested.
LEMMA SendRequests ==
  ASSUME MailInv, NEW h \in Host, NEW ip \in Ip, NEW dgram, NEW result, NEW left,
         Take(result, left), result[h] = SendDatagram(nic[h], dgram, ip), Proper(nic[h], result[h]),
         ~Knows(nic[h], ip), quiet[h][ip] = REQUEST_THROTTLE
  PROVE  \E frame \in network' : Asks(h, frame, ip)
<1>1. nic[h].request_times[ip] + REQUEST_THROTTLE = REQUEST_THROTTLE /\ nic[h] \in Interface
  BY DEF MailInv, IInv, TypeOK, ClockAgrees
<1>2. nic[h].request_times[ip] = 0
  BY <1>1, InterfaceAssumption, InterfaceParts
<1> DEFINE frame == RequestFrame(nic[h], ip)
<1>3. result[h].out = <<frame>>
  BY <1>2 DEF SendDatagram, Ask
<1>4. Asks(h, frame, ip)
  BY DEF Asks, IsRequest, RequestFrame
<1> HIDE DEF frame
<1>5. frame \in ToSet(result[h].out)
  BY <1>3 DEF ToSet
<1>6. frame \in network'
  BY <1>5 DEF Take
<1> QED BY <1>4, <1>6

\* An address is requested again only when REQUEST_THROTTLE has passed, and then
\* it is, for the next datagram to it while it is unknown (send_datagram).
THEOREM Throttled == Spec => RequestsAreThrottled
<1> DEFINE Early == \A h \in Host : \A ip \in Ip : quiet[h][ip] < REQUEST_THROTTLE =>
                      \A frame \in network' \ network : ~Asks(h, frame, ip)
           Due == \A h \in Host : LET ip == LastAddress(h)'
                  IN  given'[h] # given[h] /\ ~Knows(nic[h], ip) /\ quiet[h][ip] = REQUEST_THROTTLE
                        => \E frame \in network' : Asks(h, frame, ip)
           A == \A h \in Host : nic'[h].ethernet_address = nic[h].ethernet_address =>
                  /\ \A ip \in Ip : quiet[h][ip] < REQUEST_THROTTLE =>
                       \A frame \in network' \ network : ~Asks(h, frame, ip)
                  /\ LET ip == LastAddress(h)'
                     IN  given'[h] # given[h] /\ ~Knows(nic[h], ip) /\ quiet[h][ip] = REQUEST_THROTTLE
                           => \E frame \in network' : Asks(h, frame, ip)
<1>1. ASSUME Early, Due PROVE A
  BY <1>1
<1>2. ASSUME given' = given PROVE Due
  BY <1>2
<1>3. ASSUME network' \subseteq network PROVE Early
  BY <1>3
<1>4. ASSUME MailInv, NEW result, NEW left, Take(result, left), left \subseteq network,
             \A h \in Host : Proper(nic[h], result[h]) /\ Timed(nic[h], result[h])
      PROVE  Early
  BY <1>4, TakeThrottles DEF Asks
<1>5. ASSUME MailInv, [Next]_vars PROVE [A]_vars
  <2>1. CASE UNCHANGED vars
    BY <2>1
  <2>2. CASE Lose
    <3>1. Early
      BY <1>3, <2>2 DEF Lose
    <3> QED BY <1>1, <1>2, <2>2, <3>1 DEF Lose
  <2>3. CASE Tick
    <3>1. Early
      BY <1>3, <2>3 DEF Tick
    <3> QED BY <1>1, <1>2, <2>3, <3>1 DEF Tick
  <2>4. ASSUME NEW k \in Host, Replace(k) PROVE A
    <3>1. Early
      BY <1>3, <2>4 DEF Replace
    <3>2. /\ k \notin replaced /\ nic' = [nic EXCEPT ![k] = NewInterface(EthernetOf(k, TRUE), k)]
          /\ given' = [given EXCEPT ![k] = <<>>]
      BY <2>4 DEF Replace
    <3>3. nic[k].ethernet_address = EthernetOf(k, FALSE) /\ nic \in [Host -> Interface]
      <4>1. nic[k].ethernet_address = EthernetOf(k, k \in replaced) /\ nic \in [Host -> Interface]
        BY <1>5 DEF MailInv, IInv, Identity, TypeOK
      <4>2. (k \in replaced) = FALSE
        BY <3>2
      <4> QED BY <4>1, <4>2, Zenon
    <3>4. nic'[k].ethernet_address = EthernetOf(k, TRUE)
      BY <3>2, <3>3 DEF NewInterface
    <3>5. EthernetOf(k, TRUE) # EthernetOf(k, FALSE)
      BY SegmentAssumption
    <3>6. \A h \in Host \ {k} : given'[h] = given[h]
      BY <1>5, <3>2 DEF MailInv, IInv, GivenTyped
    <3> QED BY <3>1, <3>3, <3>4, <3>5, <3>6
  <2>5. CASE Deliver
    <3>1. PICK frame \in network : Take([h \in Host |-> Hear(h, frame)], network \ {frame})
      BY <2>5 DEF Deliver
    <3> DEFINE result == [h \in Host |-> Hear(h, frame)]
    <3>2. \A h \in Host : Proper(nic[h], result[h]) /\ Timed(nic[h], result[h])
      BY <1>5, HearSound, HearDutiful, NetworkTells DEF Sound, Dutiful, MailInv
    <3>3. Take(result, network \ {frame}) /\ network \ {frame} \subseteq network
      BY <3>1
    <3> HIDE DEF result
    <3>4. Early
      BY <1>4, <1>5, <3>2, <3>3
    <3> QED BY <1>1, <1>2, <2>5, <3>4 DEF Deliver
  <2>6. CASE UnknownArrives
    <3> DEFINE result == [h \in Host |-> Hear(h, UnknownARP)]
    <3>1. \A h \in Host : Proper(nic[h], result[h]) /\ Timed(nic[h], result[h])
      BY <1>5, HearUnknownSound, HearDutiful, UnknownTells DEF Sound, Dutiful, MailInv
    <3>2. Take(result, network)
      BY <2>6 DEF UnknownArrives
    <3> HIDE DEF result
    <3>3. Early
      BY <1>4, <1>5, <3>1, <3>2
    <3> QED BY <1>1, <1>2, <2>6, <3>3 DEF UnknownArrives
  <2>7. ASSUME NEW h \in Sender, Send(h) PROVE A
    <3>1. PICK ip \in Reachable \ {h} :
            LET dgram == NewDatagram(Len(given[h]) + 1, ip, 1)
            IN  /\ Take([g \in Host |-> IF g = h THEN SendDatagram(nic[h], dgram, ip) ELSE NoCall(g)], network)
                /\ given' = [given EXCEPT ![h] = Append(@, dgram)]
      BY <2>7 DEF Send
    <3> DEFINE dgram  == NewDatagram(Len(given[h]) + 1, ip, 1)
               result == [g \in Host |-> IF g = h THEN SendDatagram(nic[h], dgram, ip) ELSE NoCall(g)]
    <3>2. Take(result, network) /\ given' = [given EXCEPT ![h] = Append(@, dgram)]
      BY <3>1
    <3>3. /\ \A g \in Host : Proper(nic[g], result[g])
          /\ Dutiful(h, result[h], Len(given[h]) + 1)
          /\ \A g \in Host \ {h} : Dutiful(g, result[g], Len(given[g]))
          /\ dgram \in Datagram /\ ip \in Ip
      BY <1>5, SendDutifulCalls
    <3>4. h \in Host /\ result[h] = SendDatagram(nic[h], dgram, ip) /\ dgram.dst = ip
      BY SegmentAssumption DEF NewDatagram
    <3> HIDE DEF result, dgram
    <3>5. \A g \in Host : Timed(nic[g], result[g])
      BY <3>3 DEF Dutiful
    <3>6. Early
      BY <1>4, <1>5, <3>2, <3>3, <3>5
    <3>7. given[h] \in Seq(Datagram) /\ given \in [Host -> Seq(Datagram)]
      BY <1>5, <3>4 DEF MailInv, IInv, GivenTyped
    <3>8. given'[h] = Append(given[h], dgram) /\ \A g \in Host \ {h} : given'[g] = given[g]
      BY <3>2, <3>4, <3>7
    <3>9. LastAddress(h)' = ip
      BY <3>3, <3>4, <3>7, <3>8 DEF LastAddress
    <3>10. ~Knows(nic[h], ip) /\ quiet[h][ip] = REQUEST_THROTTLE
             => \E frame \in network' : Asks(h, frame, ip)
      BY <1>5, <3>2, <3>3, <3>4, SendRequests
    <3>11. Due
      BY <3>8, <3>9, <3>10
    <3> QED BY <1>1, <3>6, <3>11
  <2> QED BY <1>5, <2>1, <2>2, <2>3, <2>4, <2>5, <2>6, <2>7 DEF Next
<1> QED BY <1>5, MailInvariant, PTL DEF Spec, RequestsAreThrottled

\* The datagram is still there after a call.
Retained(result, dgram) ==
  \/ \E k \in 1 .. Len(Sent(result)) : Sent(result)[k] = dgram
  \/ \E ip \in Ip : \E k \in 1 .. Len(result.nic.pending[ip]) : result.nic.pending[ip][k] = dgram

\* Sending gives up only what waits for the same address, when its request has
\* expired.
LEMMA SendRetains ==
  ASSUME NEW n \in Interface, NEW ip \in Ip, NEW dgram \in Datagram
  PROVE  LET r == SendDatagram(n, dgram, ip)
         IN  /\ Sent(r) \in Seq(Datagram) /\ Retained(r, dgram)
             /\ \A other \in Ip : \A i \in 1 .. Len(n.pending[other]) :
                  \/ Retained(r, n.pending[other][i])
                  \/ other = ip /\ n.request_times[ip] = 0
<1> DEFINE r == SendDatagram(n, dgram, ip)
<1>1. n.pending \in [Ip -> Seq(Datagram)] /\ n.pending[ip] \in Seq(Datagram)
  BY InterfaceParts
<1>2. CASE Knows(n, ip)
  <2> DEFINE frame == DatagramFrame(n, dgram, ip)
  <2>1. r = [nic |-> n, out |-> <<frame>>]
    BY <1>2 DEF SendDatagram
  <2>2. frame \in Frame /\ frame.type = "IPv4" /\ frame.payload = dgram
    BY DatagramFrameOwn DEF OwnFrame, DatagramFrame
  <2> HIDE DEF r, frame
  <2>3. Sent(r) = <<dgram>> /\ r.nic = n
    BY <2>1, <2>2, SingleSent
  <2>4. Sent(r) \in Seq(Datagram) /\ Len(Sent(r)) = 1 /\ Sent(r)[1] = dgram
    BY <2>3
  <2> QED BY <2>3, <2>4 DEF Retained, r
<1>3. CASE ~Knows(n, ip) /\ n.request_times[ip] = 0
  <2> DEFINE asked == [n EXCEPT !.pending[ip] = <<dgram>>, !.request_times[ip] = REQUEST_THROTTLE]
             frame == RequestFrame(n, ip)
  <2>1. r = [nic |-> asked, out |-> <<frame>>]
    BY <1>3 DEF SendDatagram, Ask
  <2>2. asked.pending = [n.pending EXCEPT ![ip] = <<dgram>>]
    BY DEF Interface
  <2>3. frame \in Frame /\ frame.type = "ARP"
    BY RequestFrameOwn DEF OwnFrame, RequestFrame
  <2> HIDE DEF r, asked, frame
  <2>4. r.nic.pending = [n.pending EXCEPT ![ip] = <<dgram>>]
    BY <2>1, <2>2
  <2>5. Sent(r) = <<>> /\ <<>> \in Seq(Datagram)
    BY <2>1, <2>3, SingleSent
  <2>6. Len(r.nic.pending[ip]) = 1 /\ r.nic.pending[ip][1] = dgram
    BY <1>1, <2>4
  <2>7. \A other \in Ip : other # ip => r.nic.pending[other] = n.pending[other]
    BY <1>1, <2>4
  <2> QED BY <1>3, <2>5, <2>6, <2>7 DEF Retained, r
<1>4. CASE ~Knows(n, ip) /\ n.request_times[ip] # 0
  <2>1. r.nic.pending = [n.pending EXCEPT ![ip] = Append(n.pending[ip], dgram)]
    BY <1>4 DEF SendDatagram, Interface
  <2>2. Sent(r) = <<>> /\ <<>> \in Seq(Datagram)
    BY <1>4, SilentSent DEF SendDatagram
  <2> HIDE DEF r
  <2> DEFINE q == Append(n.pending[ip], dgram)
  <2>3. /\ Len(q) \in 1 .. Len(q) /\ q[Len(q)] = dgram
        /\ \A i \in 1 .. Len(n.pending[ip]) : i \in 1 .. Len(q) /\ q[i] = n.pending[ip][i]
    BY <1>1
  <2>4. r.nic.pending[ip] = q /\ \A other \in Ip : other # ip => r.nic.pending[other] = n.pending[other]
    BY <1>1, <2>1
  <2> HIDE DEF q
  <2> QED BY <2>2, <2>3, <2>4 DEF Retained, r
<1> QED BY <1>2, <1>3, <1>4

\* A datagram that goes missing in a call was waiting and was not retained.
LEMMA TakeMissing ==
  ASSUME MailInv, NEW result, NEW left, Take(result, left), NEW h \in Host,
         Dutiful(h, result[h], Len(given'[h])),
         Sent(result[h]) \in Seq(Datagram),
         \A d \in ToSet(given'[h]) : d \in ToSet(given[h]) \/ Retained(result[h], d),
         NEW dgram \in Missing(h)', dgram \notin Missing(h)
  PROVE  /\ ~Retained(result[h], dgram)
         /\ dgram.dst \in Ip
         /\ \E i \in 1 .. Len(nic[h].pending[dgram.dst]) : nic[h].pending[dgram.dst][i] = dgram
<1>1. nic'[h] = result[h].nic /\ transmitted'[h] = transmitted[h] \o Sent(result[h])
  BY DEF Take, Sent
<1>2. Orderly(transmitted[h], nic[h].pending, Len(given[h]))
  BY DEF MailInv, AllOrderly
<1>3. /\ transmitted[h] \in Seq(Datagram) /\ nic[h].pending \in [Ip -> Seq(Datagram)]
      /\ transmitted'[h] \in Seq(Datagram) /\ nic'[h].pending \in [Ip -> Seq(Datagram)]
  BY <1>1, <1>2 DEF Orderly, Dutiful
<1>4. /\ dgram \in ToSet(given'[h]) /\ dgram \notin ToSet(transmitted'[h])
      /\ \A ip \in Ip : dgram \notin ToSet(nic'[h].pending[ip])
  BY DEF Missing
<1>5. \A s \in Seq(Datagram) : \A k \in 1 .. Len(s) : s[k] \in ToSet(s)
  BY DEF ToSet
<1>6. ~Retained(result[h], dgram)
  <2>1. ASSUME NEW k \in 1 .. Len(Sent(result[h])), Sent(result[h])[k] = dgram PROVE FALSE
    <3> DEFINE s == transmitted[h]
               t == Sent(result[h])
    <3>1. s \in Seq(Datagram) /\ s \o t \in Seq(Datagram)
      BY <1>1, <1>3
    <3>2. t \in Seq(Datagram)
      OBVIOUS
    <3> HIDE DEF s, t
    <3>3. Len(s) + k \in 1 .. Len(s \o t) /\ (s \o t)[Len(s) + k] = t[k]
      BY <2>1, <3>1, <3>2 DEF t
    <3> QED BY <1>1, <1>4, <1>5, <2>1, <3>1, <3>3 DEF s, t
  <2>2. ASSUME NEW ip \in Ip, NEW k \in 1 .. Len(result[h].nic.pending[ip]),
               result[h].nic.pending[ip][k] = dgram
        PROVE  FALSE
    BY <1>1, <1>3, <1>4, <1>5, <2>2
  <2> QED BY <2>1, <2>2 DEF Retained
<1>7. dgram \in ToSet(given[h])
  BY <1>4, <1>6
<1>8. dgram \notin ToSet(transmitted[h])
  <2> SUFFICES ASSUME dgram \in ToSet(transmitted[h]) PROVE FALSE
    OBVIOUS
  <2> DEFINE s == transmitted[h]
             t == Sent(result[h])
  <2>1. PICK k \in 1 .. Len(s) : s[k] = dgram
    BY <1>3 DEF ToSet
  <2>2. t \in Seq(Datagram)
    OBVIOUS
  <2>3. s \in Seq(Datagram)
    BY <1>3
  <2> HIDE DEF s, t
  <2>4. k \in 1 .. Len(s \o t) /\ (s \o t)[k] = s[k]
    BY <2>2, <2>3
  <2> QED BY <1>1, <1>3, <1>4, <1>5, <2>1, <2>4 DEF s, t
<1>9. PICK ip \in Ip : dgram \in ToSet(nic[h].pending[ip])
  BY <1>7, <1>8 DEF Missing
<1>10. PICK i \in 1 .. Len(nic[h].pending[ip]) : nic[h].pending[ip][i] = dgram
  BY <1>3, <1>9 DEF ToSet
<1>11. dgram.dst = ip
  BY <1>2, <1>10 DEF Orderly
<1> QED BY <1>6, <1>10, <1>11

\* Calls that are given nothing new lose nothing.
LEMMA TakeLosesNothing ==
  ASSUME MailInv, NEW result, NEW left, Take(result, left), given' = given, NEW h \in Host,
         Dutiful(h, result[h], Len(given[h])), Lossless(nic[h], result[h])
  PROVE  Missing(h)' \subseteq Missing(h)
<1> SUFFICES ASSUME NEW dgram \in Missing(h)', dgram \notin Missing(h) PROVE FALSE
  OBVIOUS
<1>1. Sent(result[h]) \in Seq(Datagram)
  BY DEF Lossless
<1>2. \A d \in ToSet(given'[h]) : d \in ToSet(given[h]) \/ Retained(result[h], d)
  OBVIOUS
<1>3. /\ ~Retained(result[h], dgram) /\ dgram.dst \in Ip
      /\ \E i \in 1 .. Len(nic[h].pending[dgram.dst]) : nic[h].pending[dgram.dst][i] = dgram
  BY <1>1, <1>2, TakeMissing
<1> DEFINE ip == dgram.dst
<1>4. PICK i \in 1 .. Len(nic[h].pending[ip]) : nic[h].pending[ip][i] = dgram
  BY <1>3
<1>5. ip \in Ip /\ ~Retained(result[h], dgram)
  BY <1>3
<1> HIDE DEF ip
<1>6. \/ \E k \in 1 .. Len(Sent(result[h])) : Sent(result[h])[k] = dgram
      \/ \E k \in 1 .. Len(result[h].nic.pending[ip]) : result[h].nic.pending[ip][k] = dgram
  BY <1>4, <1>5 DEF Lossless
<1> QED BY <1>5, <1>6 DEF Retained

\* A datagram is given up only after its request was out for REQUEST_THROTTLE.
THEOREM GivenUpLate == Spec => GivenUpOnlyUnanswered
<1> DEFINE A == \A h \in Host : \A dgram \in Missing(h)' \ Missing(h) :
                  /\ dgram \in ToSet(nic[h].pending[dgram.dst])
                  /\ quiet[h][dgram.dst] >= REQUEST_THROTTLE
<1>1. ASSUME MailInv, [Next]_vars PROVE [A]_vars
  <2>1. CASE UNCHANGED vars
    BY <2>1
  <2>2. ASSUME \A h \in Host : Missing(h)' \subseteq Missing(h) PROVE A
    BY <2>2
  <2>3. CASE Lose
    BY <2>2, <2>3 DEF Lose, Missing
  <2>4. CASE Tick
    <3>1. \A h \in Host : nic[h] \in Interface
      BY <1>1 DEF MailInv, IInv, TypeOK
    <3>2. \A h \in Host : nic'[h].pending = nic[h].pending
      BY <2>4, <3>1, TickProper DEF Tick
    <3>3. given' = given /\ transmitted' = transmitted
      BY <2>4 DEF Tick
    <3> QED BY <2>2, <3>2, <3>3 DEF Missing
  <2>5. ASSUME NEW k \in Host, Replace(k) PROVE A
    <3>1. /\ nic' = [nic EXCEPT ![k] = NewInterface(EthernetOf(k, TRUE), k)]
          /\ given' = [given EXCEPT ![k] = <<>>]
          /\ transmitted' = [transmitted EXCEPT ![k] = <<>>]
      BY <2>5 DEF Replace
    <3>2. /\ nic \in [Host -> Interface] /\ given \in [Host -> Seq(Datagram)]
          /\ transmitted \in [Host -> Seq(Datagram)]
      BY <1>1 DEF MailInv, IInv, TypeOK, GivenTyped, HistoryTyped
    <3>3. ASSUME NEW h \in Host PROVE Missing(h)' \subseteq Missing(h)
      <4>1. CASE h = k
        <5>1. given'[h] = <<>>
          BY <3>1, <3>2, <4>1
        <5>2. ToSet(<<>>) = {}
          BY DEF ToSet
        <5> QED BY <5>1, <5>2 DEF Missing
      <4>2. CASE h # k
        BY <3>1, <3>2, <4>2 DEF Missing
      <4> QED BY <4>1, <4>2
    <3> QED BY <2>2, <3>3
  <2>6. CASE Deliver
    <3>1. PICK frame \in network : Take([h \in Host |-> Hear(h, frame)], network \ {frame})
      BY <2>6 DEF Deliver
    <3> DEFINE result == [h \in Host |-> Hear(h, frame)]
    <3>2. \A h \in Host : Dutiful(h, result[h], Len(given[h])) /\ Lossless(nic[h], result[h])
      BY <1>1, HearDutiful, NetworkTells
    <3>3. Take(result, network \ {frame}) /\ given' = given
      BY <2>6, <3>1 DEF Deliver
    <3> HIDE DEF result
    <3> QED BY <1>1, <2>2, <3>2, <3>3, TakeLosesNothing
  <2>7. CASE UnknownArrives
    <3> DEFINE result == [h \in Host |-> Hear(h, UnknownARP)]
    <3>1. \A h \in Host : Dutiful(h, result[h], Len(given[h])) /\ Lossless(nic[h], result[h])
      BY <1>1, HearDutiful, UnknownTells
    <3>2. Take(result, network) /\ given' = given
      BY <2>7 DEF UnknownArrives
    <3> HIDE DEF result
    <3> QED BY <1>1, <2>2, <3>1, <3>2, TakeLosesNothing
  <2>8. ASSUME NEW h \in Sender, Send(h) PROVE A
    <3>1. PICK ip \in Reachable \ {h} :
            LET dgram == NewDatagram(Len(given[h]) + 1, ip, 1)
            IN  /\ Take([g \in Host |-> IF g = h THEN SendDatagram(nic[h], dgram, ip) ELSE NoCall(g)], network)
                /\ given' = [given EXCEPT ![h] = Append(@, dgram)]
      BY <2>8 DEF Send
    <3> DEFINE dgram  == NewDatagram(Len(given[h]) + 1, ip, 1)
               result == [g \in Host |-> IF g = h THEN SendDatagram(nic[h], dgram, ip) ELSE NoCall(g)]
    <3>2. Take(result, network) /\ given' = [given EXCEPT ![h] = Append(@, dgram)]
      BY <3>1
    <3>3. /\ dgram \in Datagram /\ ip \in Ip
          /\ Dutiful(h, result[h], Len(given[h]) + 1)
          /\ \A g \in Host \ {h} : result[g] = NoCall(g) /\ Dutiful(g, result[g], Len(given[g]))
      BY <1>1, SendDutifulCalls
    <3>4. h \in Host /\ given \in [Host -> Seq(Datagram)] /\ nic[h] \in Interface
      BY <1>1, SegmentAssumption DEF MailInv, IInv, TypeOK, GivenTyped
    <3>5. result[h] = SendDatagram(nic[h], dgram, ip)
      BY <3>4
    <3> HIDE DEF dgram, result
    <3>6. given'[h] = Append(given[h], dgram) /\ \A g \in Host \ {h} : given'[g] = given[g]
      BY <3>2, <3>4
    <3>7. /\ Sent(result[h]) \in Seq(Datagram) /\ Retained(result[h], dgram)
          /\ \A other \in Ip : \A i \in 1 .. Len(nic[h].pending[other]) :
               \/ Retained(result[h], nic[h].pending[other][i])
               \/ other = ip /\ nic[h].request_times[ip] = 0
      BY <3>3, <3>4, <3>5, SendRetains
    <3>8. \A d \in ToSet(given'[h]) : d \in ToSet(given[h]) \/ Retained(result[h], d)
      <4>1. \A d \in ToSet(given'[h]) : d \in ToSet(given[h]) \/ d = dgram
        BY <3>3, <3>4, <3>6 DEF ToSet
      <4> QED BY <3>7, <4>1
    <3>9. Dutiful(h, result[h], Len(given'[h]))
      <4>1. Len(given'[h]) = Len(given[h]) + 1
        BY <3>3, <3>4, <3>6
      <4> QED BY <3>3, <4>1
    <3>10. ASSUME NEW d \in Missing(h)' \ Missing(h)
           PROVE  /\ d \in ToSet(nic[h].pending[d.dst])
                  /\ quiet[h][d.dst] >= REQUEST_THROTTLE
      <4>1. /\ ~Retained(result[h], d) /\ d.dst \in Ip
            /\ \E i \in 1 .. Len(nic[h].pending[d.dst]) : nic[h].pending[d.dst][i] = d
        BY <1>1, <3>2, <3>4, <3>7, <3>8, <3>9, <3>10, TakeMissing
      <4>2. d.dst = ip /\ nic[h].request_times[ip] = 0
        BY <3>7, <4>1
      <4>3. nic[h].pending[d.dst] \in Seq(Datagram)
        BY <3>4, <4>1, MappingParts
      <4>4. d \in ToSet(nic[h].pending[d.dst])
        BY <4>1, <4>3 DEF ToSet
      <4>5. /\ quiet[h][d.dst] \in 0 .. REQUEST_THROTTLE
            /\ nic[h].request_times[d.dst] + quiet[h][d.dst] = REQUEST_THROTTLE
        BY <1>1, <3>4, <4>1 DEF MailInv, ClockAgrees
      <4> QED BY <4>2, <4>4, <4>5, InterfaceAssumption
    <3>11. ASSUME NEW g \in Host \ {h} PROVE Missing(g)' \subseteq Missing(g)
      <4>1. nic'[g] = nic[g] /\ transmitted'[g] = transmitted[g] \o Sent(result[g])
        <5>1. nic'[g] = result[g].nic /\ transmitted'[g] = transmitted[g] \o Sent(result[g])
          BY <3>2 DEF Take, Sent
        <5>2. NoCall(g).nic = nic[g]
          BY DEF NoCall
        <5>3. result[g].nic = nic[g]
          BY <3>3, <5>2
        <5> QED BY <5>1, <5>3
      <4>2. transmitted[g] \in Seq(Datagram)
        BY <1>1 DEF MailInv, HistoryTyped
      <4>3. Sent(result[g]) = <<>>
        BY <3>3, SilentSent DEF NoCall
      <4>4. transmitted'[g] = transmitted[g]
        BY <4>1, <4>2, <4>3
      <4> QED BY <3>6, <4>1, <4>4 DEF Missing
    <3> QED BY <3>4, <3>10, <3>11
  <2> QED BY <1>1, <2>1, <2>3, <2>4, <2>5, <2>6, <2>7, <2>8 DEF Next
<1> QED BY <1>1, MailInvariant, PTL DEF Spec, GivenUpOnlyUnanswered
=============================================================================
