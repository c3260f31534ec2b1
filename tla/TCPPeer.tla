------------------------------- MODULE TCPPeer -------------------------------
(* TCPPeer (src/util/tcp_peer.hh): a TCPSender and a TCPReceiver that answer *)
(* for each other, and the rule by which an endpoint decides that it is      *)
(* through with the connection.  need_send_ is false between two calls, so   *)
(* it is a part of receive and not of the state.                             *)
EXTENDS TCPSender, TCPReceiver

CONSTANT LINGER_TIMEOUTS    \* 10: how many initial timeouts a peer lingers

ASSUME LingerAssumption == LINGER_TIMEOUTS \in Nat \ {0}

LingerTime == LINGER_TIMEOUTS * INITIAL_RTO

\* idle is the time since the last receipt, cumulative_time_ less
\* time_of_last_receipt_, which is only ever compared with LingerTime.
Peer == [sender : Sender, receiver : Receiver,
         linger_after_streams_finish : BOOLEAN, idle : 0 .. LingerTime]

NewPeer(send_capacity, recv_capacity, isn) ==
  [sender   |-> NewSender(send_capacity, isn),
   receiver |-> NewReceiver(recv_capacity),
   linger_after_streams_finish |-> TRUE, idle |-> 0]

\* TCPMessage
Message == [sender : SenderMessage, receiver : ReceiverMessage]

\* What reaches the other side when both halves are put into one TCP header
\* and taken out again: there is one RST flag for the two of them.
OnWire(msg, rcv) ==
  LET ack   == Acknowledge(rcv)
      reset == msg.RST \/ ack.RST
  IN  [sender   |-> [msg EXCEPT !.RST = reset],
       receiver |-> [ack EXCEPT !.RST = reset]]

\* send, for each of the segments that the sender transmits.
Outgoing(msgs, rcv) == [i \in 1 .. Len(msgs) |-> OnWire(msgs[i], rcv)]
-----------------------------------------------------------------------------
(* active                                                                    *)

AnyErrors(p)       == Output(p.receiver).error \/ HasError(p.sender)
InboundClosed(p)   == Output(p.receiver).closed
OutboundFinished(p) == IsFinished(p.sender.input)

\* Bug variant: what is in flight is not waited for.
Active_IgnoringFlight(p) ==
  /\ ~AnyErrors(p)
  /\ \/ ~OutboundFinished(p)
     \/ ~InboundClosed(p)
     \/ p.linger_after_streams_finish /\ p.idle < LingerTime

Active(p) ==
  /\ ~AnyErrors(p)
  /\ \/ p.sender.flight > 0 \/ ~OutboundFinished(p)
     \/ ~InboundClosed(p)
     \/ p.linger_after_streams_finish /\ p.idle < LingerTime
-----------------------------------------------------------------------------
(* Operations: each gives the peer after the call and what was transmitted.  *)

PeerPush(p) ==
  LET pushed == Push(p.sender)
  IN  [peer |-> [p EXCEPT !.sender = pushed.snd],
       out  |-> Outgoing(pushed.out, p.receiver)]

PeerTick(p, ms) ==
  LET ticked == Tick(p.sender, ms)
  IN  [peer |-> [p EXCEPT !.sender = ticked.snd, !.idle = Least(@ + ms, LingerTime)],
       out  |-> Outgoing(ticked.out, p.receiver)]

\* Bug variant: only data is answered.
NeedsReply_DataOnly(p, msg) == msg.payload # <<>>

\* A reply is owed to a segment that takes a sequence number, and to one that
\* stands just before what is expected, which is a keep-alive.
NeedsReply(p, msg) ==
  LET ours == Acknowledge(p.receiver).ackno
  IN  \/ SequenceLength(msg) > 0
      \/ ours # NoAck /\ (msg.seqno + 1) % Modulus = ours

\* Bug variant: no side lingers.
Lingers_Never(p) == [p EXCEPT !.linger_after_streams_finish = FALSE]

\* The side whose inbound stream ends first does not linger.
Lingers(p) ==
  IF InboundClosed(p) /\ ~OutboundFinished(p)
  THEN [p EXCEPT !.linger_after_streams_finish = FALSE] ELSE p

\* receive: the receiver takes its half before any reply leaves, so that
\* whatever is sent acknowledges it; the sender pushes, and an empty segment
\* is the reply when it has nothing to push.
PeerReceive(p, msg) ==
  LET rcv    == ReceiveSegment(p.receiver, msg.sender)
      pushed == Push(Receive(p.sender, msg.receiver))
      reply  == IF pushed.out = <<>> /\ NeedsReply(p, msg.sender)
                THEN <<MakeEmptyMessage(pushed.snd)>> ELSE pushed.out
  IN  IF ~Active(p) THEN [peer |-> p, out |-> <<>>]
      ELSE [peer |-> Lingers([p EXCEPT !.sender = pushed.snd, !.receiver = rcv, !.idle = 0]),
            out  |-> Outgoing(reply, rcv)]
=============================================================================
