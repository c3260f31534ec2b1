---------------------------- MODULE TCPConnection ----------------------------
(* Two TCPPeers, one that connects and one that listens, with the rules by   *)
(* which the event loop of each endpoint calls its peer                      *)
(* (src/util/tcp_minnow_socket_impl.hh), and a network that loses, repeats,  *)
(* delays and reorders their segments.                                       *)
EXTENDS TCPPeer

CONSTANTS
  ClientIsn, ServerIsn,           \* TCPConfig::isn
  SendCapacity, RecvCapacity,     \* TCPConfig::send_capacity, recv_capacity
  ClientBytes, ServerBytes,       \* bound: the bytes each application writes
  Ticks,                          \* the intervals between two ticks
  MaxFaults,                      \* bound: segments lost, repeated, late or foreign
  MaxInTransit,                   \* bound: segments on their way to a side
  MaxDupAcks,                     \* bound: duplicate acknowledgments in a row
  Resets                          \* whether a reset may arrive from elsewhere

ASSUME ConnectionAssumption ==
  /\ ClientIsn \in Wrap32 /\ ServerIsn \in Wrap32
  /\ SendCapacity \in Nat \ {0} /\ RecvCapacity \in Nat \ {0}
  /\ ClientBytes \in Nat /\ ServerBytes \in Nat /\ IndexModulus > ClientBytes + ServerBytes
  \* The network may keep a segment for as long as the connection lives: no
  \* stream takes more than half of the sequence numbers meanwhile.
  /\ ClientBytes + 2 < HalfModulus /\ ServerBytes + 2 < HalfModulus
  /\ Ticks \subseteq Nat \ {0} /\ MaxFaults \in Nat /\ MaxInTransit \in Nat
  /\ MaxDupAcks \in Nat
  /\ Resets \in BOOLEAN

Side == {"client", "server"}

Other(s)    == IF s = "client" THEN "server" ELSE "client"
Isn(s)      == IF s = "client" THEN ClientIsn ELSE ServerIsn
MaxBytes(s) == IF s = "client" THEN ClientBytes ELSE ServerBytes

VARIABLES
  peer,       \* the TCPPeer of each side
  network,    \* the segments on their way to each side
  listening,  \* the server's adapter has not met its client yet
  faults      \* how many segments were lost, repeated, late or foreign

vars == <<peer, network, listening, faults>>

Inbound(s)  == Output(peer[s].receiver)
Outbound(s) == peer[s].sender.input

Init ==
  /\ peer = [s \in Side |-> NewPeer(SendCapacity, RecvCapacity, Isn(s))]
  /\ network = [s \in Side |-> {}]
  /\ listening = TRUE
  /\ faults = 0
-----------------------------------------------------------------------------
(* The network.                                                              *)

\* A call that did nothing.
NoCall == [s \in Side |-> [peer |-> peer[s], out |-> <<>>]]

\* The peers become the results of calls, and of what these transmitted any
\* part is lost (LossyFdAdapter::write).  left is what remains on the way, and
\* fault is 1 if the calls were themselves the consequence of a fault.
Take(result, left, fault) ==
  LET out == UNION {{<<Other(s), result[s].out[i]>> : i \in 1 .. Len(result[s].out)} : s \in Side}
  IN  \E lost \in SUBSET out :
        /\ faults' = faults + fault + Cardinality(lost)
        /\ faults' <= MaxFaults
        /\ peer' = [s \in Side |-> result[s].peer]
        /\ network' = [s \in Side |-> left[s] \cup {m[2] : m \in {m \in out \ lost : m[1] = s}}]
        /\ \A s \in Side : Cardinality(network'[s]) <= MaxInTransit

Do(s, result) == Take([NoCall EXCEPT ![s] = result], network, 0) /\ UNCHANGED listening

InTransit(s) == Active(peer[s]) /\ network[s] # {}
-----------------------------------------------------------------------------
(* The owner.                                                                *)

\* connect: the SYN.
Connect == /\ ~peer["client"].sender.syn_sent
           /\ Do("client", PeerPush(peer["client"]))

\* connect and listen_and_accept hold the owner until the SYN of its side is
\* acknowledged.
Established(s) == peer[s].sender.ackno > 0

\* The rule that reads from the owner is interested in a live peer with room.
MayRead(s) == /\ Established(s) /\ Active(peer[s])
              /\ ~Outbound(s).closed /\ AvailableCapacity(Outbound(s)) > 0

Write(s) ==
  /\ MayRead(s)
  /\ \E n \in 1 .. Least(AvailableCapacity(Outbound(s)), MaxBytes(s) - Outbound(s).total_pushed) :
       Do(s, PeerPush([peer[s] EXCEPT !.sender.input =
                         PushBytes(@, [i \in 1 .. n |-> @.total_pushed + i])]))

\* The owner shuts down its writing side: end of file.
CloseWrite(s) ==
  /\ MayRead(s)
  /\ Do(s, PeerPush([peer[s] EXCEPT !.sender.input = Close(@)]))

\* The rule that writes to the owner, who may take a part only.
Read(s) ==
  /\ \E n \in 1 .. BytesBuffered(Inbound(s)) :
       peer' = [peer EXCEPT ![s].receiver.reassembler.output = PopBytes(@, n)]
  /\ UNCHANGED <<network, listening, faults>>
-----------------------------------------------------------------------------
(* The clock and the network.                                                *)

\* _tcp_loop serves a peer that has begun and is active.
Running(s) == Active(peer[s]) /\ (s = "client" => peer[s].sender.syn_sent)

\* Both loops report the time.  When a timer runs out with segments in transit,
\* these are late.
Clock ==
  /\ \E s \in Side : Running(s)
  /\ \E ms \in Ticks :
       LET result  == [s \in Side |-> IF Running(s) THEN PeerTick(peer[s], ms) ELSE NoCall[s]]
           expired == \E s \in Side : \/ result[s].out # <<>>
                                      \/ Active(peer[s]) /\ ~Active(result[s].peer)
       IN  Take(result, network, Count(expired /\ \E s \in Side : InTransit(s)))
  /\ UNCHANGED listening

\* A listening adapter lets only a SYN through, and then listens no more.
Filtered(s, msg) == s = "server" /\ listening /\ (~msg.sender.SYN \/ msg.sender.RST)

Met(s, msg) == listening' = (listening /\ (s = "client" \/ Filtered(s, msg)))

\* A segment arrives, and may stay on the way to arrive again.
Deliver(s, msg, repeated) ==
  LET result == IF Filtered(s, msg) THEN NoCall[s] ELSE PeerReceive(peer[s], msg)
  IN  /\ Active(peer[s])
      /\ result.peer.sender.dup_acks <= MaxDupAcks
      /\ Take([NoCall EXCEPT ![s] = result],
              IF repeated = 1 THEN network ELSE [network EXCEPT ![s] = @ \ {msg}], repeated)
      /\ Met(s, msg)

Arrives(s) == \E msg \in network[s] : Deliver(s, msg, 0)

ArrivesAndRemains(s) == \E msg \in network[s] : Deliver(s, msg, 1)

\* LossyFdAdapter::read drops a segment that the adapter below it has read, and
\* which has ended its listening.
DroppedOnRead(s) ==
  \E msg \in network[s] :
    /\ Active(peer[s])
    /\ Take(NoCall, [network EXCEPT ![s] = @ \ {msg}], 1)
    /\ Met(s, msg)

\* A reset that neither peer sent: the host of the other side, which knows no
\* such connection, answers a segment.
Reset == [sender   |-> [seqno |-> 0, SYN |-> FALSE, payload |-> <<>>, FIN |-> FALSE, RST |-> TRUE],
          receiver |-> [ackno |-> NoAck, window_size |-> 0, RST |-> TRUE]]

ResetArrives(s) ==
  /\ Resets /\ Running(s) /\ ~Filtered(s, Reset)
  /\ Take([NoCall EXCEPT ![s] = PeerReceive(peer[s], Reset)], network, 1)
  /\ UNCHANGED listening
-----------------------------------------------------------------------------
Next ==
  \/ Connect \/ Clock
  \/ \E s \in Side : \/ Write(s) \/ CloseWrite(s) \/ Read(s)
                     \/ Arrives(s) \/ ArrivesAndRemains(s)
                     \/ DroppedOnRead(s) \/ ResetArrives(s)

Spec == Init /\ [][Next]_vars

\* Something waits for the side s: its owner to close or to read, a segment to
\* arrive, or, with none in transit, time that matters.
Ready(s) ==
  \/ MayRead(s) \/ BytesBuffered(Inbound(s)) > 0 \/ InTransit(s)
  \/ /\ Running(s) /\ \A dest \in Side : ~InTransit(dest)
     /\ peer[s].sender.timer_running \/ peer[s].idle < LingerTime

\* While something waits, something happens; no action is favoured.
Fairness ==
  <>[](~peer["client"].sender.syn_sent \/ \E s \in Side : Ready(s)) => []<><<TRUE>>_vars

FairSpec == Spec /\ Fairness
-----------------------------------------------------------------------------
(* Safety.                                                                   *)

\* The owner of a side ends the connection without an error.
Cleanly(s) == ~Active(peer[s]) /\ ~AnyErrors(peer[s])

\* The bytes one owner can read are the bytes the other one wrote, in their
\* order, whatever the network does and also after a reset.
ReaderSeesTheStream ==
  \A s \in Side :
    Inbound(s).buffer = [i \in 1 .. BytesBuffered(Inbound(s)) |-> Inbound(s).total_poped + i]

\* What a sender believes to be acknowledged (SYN, bytes, FIN) has reached the
\* inbound stream of the other side, across both wrapped sequence spaces.
AckedIsDelivered ==
  \A s \in Side :
    peer[s].sender.ackno <= Count(peer[Other(s)].receiver.SYN) + Inbound(Other(s)).total_pushed
                              + Count(Inbound(Other(s)).closed)

\* A side that ends without an error leaves nothing undone: all that it wrote,
\* and the end, is with the other side, and it has all that the other one wrote.
CleanCloseIsComplete ==
  \A s \in Side : Cleanly(s) =>
    /\ Inbound(s).closed /\ Inbound(s).total_pushed = Outbound(Other(s)).total_pushed
    /\ Inbound(Other(s)).closed /\ Inbound(Other(s)).total_pushed = Outbound(s).total_pushed
    /\ peer[s].sender.flight = 0

\* The side that leaves without lingering is not missed: the other side has
\* had the acknowledgment of all that it sent, so it will not retransmit to a
\* peer that is gone.
EarlyLeaverIsNotMissed ==
  \A s \in Side : (Cleanly(s) /\ ~peer[s].linger_after_streams_finish) =>
    peer[Other(s)].sender.fin_sent /\ peer[Other(s)].sender.flight = 0

\* Each direction of the connection is a reliable stream.
Stream1 == INSTANCE ReliableStream WITH
  written  <- Outbound("client").total_pushed, closed <- Outbound("client").closed,
  readable <- Inbound("server").total_pushed,  ended  <- Inbound("server").closed

Stream2 == INSTANCE ReliableStream WITH
  written  <- Outbound("server").total_pushed, closed <- Outbound("server").closed,
  readable <- Inbound("client").total_pushed,  ended  <- Inbound("client").closed

StreamsAreReliable == Stream1!Spec /\ Stream2!Spec
-----------------------------------------------------------------------------
(* Liveness.                                                                 *)

\* If the owners close and read, and no more segments are lost or late than
\* retransmission makes up for, then the connection ends on both sides without
\* an error, and the owners have read all that was written.
EndsCleanly ==
  <>[](\A s \in Side : /\ Cleanly(s) /\ BytesBuffered(Inbound(s)) = 0
                       /\ Inbound(s).total_poped = Outbound(Other(s)).total_pushed)
=============================================================================
