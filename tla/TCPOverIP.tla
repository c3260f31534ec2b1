----------------------------- MODULE TCPOverIP ------------------------------
(* TCPOverIPv4Adapter (src/util/tcp_over_ip.cc) and the TCP header           *)
(* (src/util/tcp_segment.cc): how a message of a TCPPeer becomes an Internet *)
(* datagram, and which datagrams become messages for it.                     *)
EXTENDS TCPMessages

CONSTANTS
  Hosts,          \* addresses of 32 bits
  AnyHost,        \* INADDR_ANY
  Ports,
  HeaderWords     \* 5: the header without options, in words

ASSUME AdapterAssumption == AnyHost \notin Hosts /\ HeaderWords \in Nat \ {0}

Address == [host : Hosts \cup {AnyHost}, port : Ports]

\* FdAdapterBase: whom we are, whom we talk to, and whether that is still open.
Adapter == [source : Address, destination : Address, listening : BOOLEAN]

TCPMessage == [sender : SenderMessage, receiver : ReceiverMessage]

\* No message was read.
NoMessage == [none |-> TRUE]
-----------------------------------------------------------------------------
(* TCPSegment.                                                               *)

\* serialize and compute_checksum: one flag for both RSTs, and an ackno that
\* is absent is a zero without its flag.
SerializeSegment(src_port, dst_port, msg) ==
  [src_port |-> src_port, dst_port |-> dst_port,
   seqno |-> msg.sender.seqno,
   ackno |-> IF msg.receiver.ackno = NoAck THEN 0 ELSE msg.receiver.ackno,
   data_offset |-> HeaderWords,
   ACK |-> msg.receiver.ackno # NoAck, RST |-> msg.sender.RST \/ msg.receiver.RST,
   SYN |-> msg.sender.SYN, FIN |-> msg.sender.FIN,
   window_size |-> msg.receiver.window_size, payload |-> msg.sender.payload,
   intact |-> TRUE]

\* parse succeeds on an intact segment whose header is long enough.  Options
\* are skipped.
Parses(seg) == seg.intact /\ seg.data_offset >= HeaderWords

ParseSegment(seg) ==
  [sender   |-> [seqno |-> seg.seqno, SYN |-> seg.SYN, payload |-> seg.payload,
                 FIN |-> seg.FIN, RST |-> seg.RST],
   receiver |-> [ackno |-> IF seg.ACK THEN seg.ackno ELSE NoAck,
                 window_size |-> seg.window_size, RST |-> seg.RST]]
-----------------------------------------------------------------------------
(* TCPOverIPv4Adapter.                                                       *)

\* wrap_tcp_in_ip
WrapInIP(adapter, msg) ==
  [src |-> adapter.source.host, dst |-> adapter.destination.host, proto |-> "TCP", intact |-> TRUE,
   segment |-> SerializeSegment(adapter.source.port, adapter.destination.port, msg)]

\* Bug variant: the port of the sender is not looked at.
ForUs_AnySourcePort(adapter, dgram) ==
  /\ adapter.listening \/ (/\ dgram.dst = adapter.source.host
                           /\ dgram.src = adapter.destination.host)
  /\ dgram.proto = "TCP" /\ Parses(dgram.segment)
  /\ dgram.segment.dst_port = adapter.source.port

\* A datagram of the connection; while the adapter listens, a segment to its
\* port that opens one.
ForUs(adapter, dgram) ==
  /\ adapter.listening \/ (/\ dgram.dst = adapter.source.host
                           /\ dgram.src = adapter.destination.host
                           /\ dgram.segment.src_port = adapter.destination.port)
  /\ dgram.proto = "TCP" /\ Parses(dgram.segment)
  /\ dgram.segment.dst_port = adapter.source.port
  /\ adapter.listening => dgram.segment.SYN /\ ~dgram.segment.RST

\* The first such segment decides who the connection is with.
Meets(adapter, dgram) ==
  [source      |-> [adapter.source EXCEPT !.host = dgram.dst],
   destination |-> [host |-> dgram.src, port |-> dgram.segment.src_port],
   listening   |-> FALSE]

\* unwrap_tcp_in_ip: the adapter afterwards, and the message if there is one.
UnwrapFromIP(adapter, dgram) ==
  IF ~ForUs(adapter, dgram) THEN [adapter |-> adapter, message |-> NoMessage]
  ELSE [adapter |-> IF adapter.listening THEN Meets(adapter, dgram) ELSE adapter,
        message |-> ParseSegment(dgram.segment)]

\* TCPOverIPv4OverTunFdAdapter::read: what the device delivers must be an IPv4
\* datagram whose header checksum matches.
ReadDatagram(adapter, dgram) ==
  IF dgram.intact THEN UnwrapFromIP(adapter, dgram) ELSE [adapter |-> adapter, message |-> NoMessage]
=============================================================================
