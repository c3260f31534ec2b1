--------------------------- MODULE NetworkInterface ---------------------------
(* NetworkInterface (src/src/network_interface.cc): puts datagrams into      *)
(* Ethernet frames, learns by ARP which Ethernet address belongs to the next *)
(* hop, and holds datagrams back until it knows.  The members that are       *)
(* points in time are kept as the time that is left until then, which is all *)
(* that the code compares; so no clock is needed.                            *)
EXTENDS Integers, Sequences

CONSTANTS
  Ip, EthernetAddress,     \* the addresses of the two layers
  ETHERNET_BROADCAST,
  NoIp, NoEthernet,        \* the addresses that consist of zeros
  MAPPING_TTL,             \* 30000 ms: how long a mapping is used
  REQUEST_THROTTLE         \* 5000 ms: how long no request is repeated

ASSUME InterfaceAssumption ==
  /\ NoIp \in Ip /\ NoEthernet \in EthernetAddress
  /\ ETHERNET_BROADCAST \in EthernetAddress \ {NoEthernet}
  /\ MAPPING_TTL \in Nat \ {0} /\ REQUEST_THROTTLE \in Nat \ {0}
-----------------------------------------------------------------------------
(* What is sent.                                                             *)

\* InternetDatagram.  Of all that the checksum covers only the TTL changes on
\* the way, so a checksum is the TTL for which it was computed.
Datagram == [id : Nat, dst : Ip, ttl : Nat, cksum : Nat]

NewDatagram(id, dst, ttl) == [id |-> id, dst |-> dst, ttl |-> ttl, cksum |-> ttl]

ChecksumMatches(dgram) == dgram.cksum = dgram.ttl

\* IPv4Header::parse verifies the checksum by computing it anew, and leaves the
\* new one in the header.  recv_frame does not ask for the verdict.
ParseDatagram(dgram) == [dgram EXCEPT !.cksum = dgram.ttl]

ARPMessage == [supported : BOOLEAN, opcode : {"REQUEST", "REPLY"},
               sender_ethernet : EthernetAddress, sender_ip : Ip,
               target_ethernet : EthernetAddress, target_ip : Ip]

\* ARPMessage::parse leaves the addresses of a message that it does not support
\* as they were made.
ParseARP(msg) ==
  IF msg.supported THEN msg
  ELSE [msg EXCEPT !.sender_ethernet = NoEthernet, !.sender_ip = NoIp,
                   !.target_ethernet = NoEthernet, !.target_ip = NoIp]

Frame == [src : EthernetAddress, dst : EthernetAddress, type : {"ARP"}, payload : ARPMessage]
           \cup
         [src : EthernetAddress, dst : EthernetAddress, type : {"IPv4"}, payload : Datagram]
-----------------------------------------------------------------------------
(* The state of an interface.                                                *)

NoMapping == [mac |-> NoEthernet, left |-> 0]

Mapping == [mac : EthernetAddress, left : 1 .. MAPPING_TTL] \cup {NoMapping}

\* An address without a request, and one whose request has expired, have a
\* request_times of 0: nothing waits for the former, so that there is nothing
\* to forget for it either.
Interface ==
  [ethernet_address : EthernetAddress, ip_address : Ip,
   arp_cache : [Ip -> Mapping], pending : [Ip -> Seq(Datagram)],
   request_times : [Ip -> 0 .. REQUEST_THROTTLE], received : Seq(Datagram)]

NewInterface(ethernet_address, ip_address) ==
  [ethernet_address |-> ethernet_address, ip_address |-> ip_address,
   arp_cache |-> [ip \in Ip |-> NoMapping], pending |-> [ip \in Ip |-> <<>>],
   request_times |-> [ip \in Ip |-> 0], received |-> <<>>]

Knows(nic, ip) == nic.arp_cache[ip] # NoMapping

DatagramFrame(nic, dgram, ip) ==
  [src |-> nic.ethernet_address, dst |-> nic.arp_cache[ip].mac, type |-> "IPv4",
   payload |-> dgram]

RequestFrame(nic, ip) ==
  [src |-> nic.ethernet_address, dst |-> ETHERNET_BROADCAST, type |-> "ARP",
   payload |-> [supported |-> TRUE, opcode |-> "REQUEST",
                sender_ethernet |-> nic.ethernet_address, sender_ip |-> nic.ip_address,
                target_ethernet |-> NoEthernet, target_ip |-> ip]]

ReplyFrame(nic, msg) ==
  [src |-> nic.ethernet_address, dst |-> msg.sender_ethernet, type |-> "ARP",
   payload |-> [supported |-> TRUE, opcode |-> "REPLY",
                sender_ethernet |-> nic.ethernet_address, sender_ip |-> nic.ip_address,
                target_ethernet |-> msg.sender_ethernet, target_ip |-> msg.sender_ip]]
-----------------------------------------------------------------------------
(* Sending: the interface after the call and the frames it transmitted.      *)

\* With no request under way, whatever waited for the last one is forgotten.
Ask(nic, dgram, ip) ==
  [nic |-> [nic EXCEPT !.pending[ip] = <<dgram>>, !.request_times[ip] = REQUEST_THROTTLE],
   out |-> <<RequestFrame(nic, ip)>>]

\* Bug variants: every datagram makes a request; a mapping that is used lasts
\* longer; only the first datagram waits.
SendDatagram_Unthrottled(nic, dgram, ip) ==
  IF Knows(nic, ip) THEN [nic |-> nic, out |-> <<DatagramFrame(nic, dgram, ip)>>]
  ELSE Ask(nic, dgram, ip)

SendDatagram_Refreshing(nic, dgram, ip) ==
  CASE Knows(nic, ip) -> [nic |-> [nic EXCEPT !.arp_cache[ip].left = MAPPING_TTL],
                          out |-> <<DatagramFrame(nic, dgram, ip)>>]
    [] ~Knows(nic, ip) /\ nic.request_times[ip] = 0 -> Ask(nic, dgram, ip)
    [] OTHER -> [nic |-> [nic EXCEPT !.pending[ip] = Append(@, dgram)], out |-> <<>>]

SendDatagram_OneWaits(nic, dgram, ip) ==
  CASE Knows(nic, ip) -> [nic |-> nic, out |-> <<DatagramFrame(nic, dgram, ip)>>]
    [] ~Knows(nic, ip) /\ nic.request_times[ip] = 0 -> Ask(nic, dgram, ip)
    [] OTHER -> [nic |-> nic, out |-> <<>>]

SendDatagram(nic, dgram, ip) ==
  CASE Knows(nic, ip) -> [nic |-> nic, out |-> <<DatagramFrame(nic, dgram, ip)>>]
    [] ~Knows(nic, ip) /\ nic.request_times[ip] = 0 -> Ask(nic, dgram, ip)
    [] OTHER -> [nic |-> [nic EXCEPT !.pending[ip] = Append(@, dgram)], out |-> <<>>]
-----------------------------------------------------------------------------
(* Receiving.                                                                *)

\* Bug variants: frames to others are taken; broadcasts are not.
Addressed_ToAnyone(nic, frame) == TRUE

Addressed_ToUsOnly(nic, frame) == frame.dst = nic.ethernet_address

Addressed(nic, frame) == frame.dst \in {nic.ethernet_address, ETHERNET_BROADCAST}

Learn(nic, msg) ==
  [nic EXCEPT !.arp_cache[msg.sender_ip] = [mac |-> msg.sender_ethernet, left |-> MAPPING_TTL]]

\* Bug variant: what has been sent stays in the queue.
Release_NotPopped(nic, ip) ==
  [nic |-> nic,
   out |-> [i \in 1 .. Len(nic.pending[ip]) |-> DatagramFrame(nic, nic.pending[ip][i], ip)]]

\* What waits for an address that has just been learned goes through
\* send_datagram once more, which now finds the mapping.
Release(nic, ip) ==
  [nic |-> [nic EXCEPT !.pending[ip] = <<>>],
   out |-> [i \in 1 .. Len(nic.pending[ip]) |-> DatagramFrame(nic, nic.pending[ip][i], ip)]]

Answer(nic, msg) ==
  IF msg.opcode = "REQUEST" /\ msg.target_ip = nic.ip_address
  THEN <<ReplyFrame(nic, msg)>> ELSE <<>>

\* Bug variant: only a reply releases what waits.
RecvARP_RepliesRelease(nic, msg) ==
  LET released == IF msg.opcode = "REPLY" THEN Release(Learn(nic, msg), msg.sender_ip)
                  ELSE [nic |-> Learn(nic, msg), out |-> <<>>]
  IN  [nic |-> released.nic, out |-> released.out \o Answer(nic, msg)]

RecvARP(nic, msg) ==
  LET released == Release(Learn(nic, msg), msg.sender_ip)
  IN  [nic |-> released.nic, out |-> released.out \o Answer(nic, msg)]

RecvFrame(nic, frame) ==
  CASE ~Addressed(nic, frame) -> [nic |-> nic, out |-> <<>>]
    [] Addressed(nic, frame) /\ frame.type = "IPv4" ->
         [nic |-> [nic EXCEPT !.received = Append(@, ParseDatagram(frame.payload))], out |-> <<>>]
    [] Addressed(nic, frame) /\ frame.type = "ARP" -> RecvARP(nic, ParseARP(frame.payload))
-----------------------------------------------------------------------------
(* Time.                                                                     *)

Aged(mapping, ms) ==
  IF mapping.left > ms THEN [mapping EXCEPT !.left = @ - ms] ELSE NoMapping

TickInterface(nic, ms) ==
  [nic EXCEPT !.arp_cache = [ip \in Ip |-> Aged(nic.arp_cache[ip], ms)],
              !.request_times = [ip \in Ip |-> IF @[ip] > ms THEN @[ip] - ms ELSE 0]]
=============================================================================
