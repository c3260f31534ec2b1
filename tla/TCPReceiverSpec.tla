--------------------------- MODULE TCPReceiverSpec ---------------------------
(* One TCPReceiver that is given the segments of a peer's stream, cut in any *)
(* way, in any order, repeated, and reaching beyond the window.              *)
EXTENDS TCPReceiver

CONSTANTS
  Isn,            \* the initial sequence number of the peer
  Capacity,       \* TCPConfig::recv_capacity
  Length          \* bound: the bytes of the peer's stream

ASSUME ReceiverAssumption ==
  /\ Isn \in Wrap32 /\ Capacity \in Nat /\ Length \in Nat
  /\ IndexModulus > Length

VARIABLES
  receiver,       \* the TCPReceiver
  arrived         \* the sequence numbers that arrived when there was room for them

vars == <<receiver, arrived>>

Out == Output(receiver)

Init == receiver = NewReceiver(Capacity) /\ arrived = {}

\* The absolute sequence numbers of the stream: the SYN is 0, the bytes are
\* 1 .. Length, the FIN is Fin.
Fin == Length + 1

\* A segment that takes the sequence numbers first .. end - 1.
Segment(first, end) ==
  [seqno |-> Wrap(first, Isn), SYN |-> first = 0 /\ end > 0,
   payload |-> [k \in 1 .. Least(end, Fin) - Greatest(first, 1) |-> Greatest(first, 1) + k - 1],
   FIN |-> first <= Fin /\ end > Fin, RST |-> FALSE]

\* No segment is delayed so long that the stream has moved on by half of the
\* sequence numbers.
Recent(first) == Distance(first, Out.total_pushed + 1) < HalfModulus

\* What the segment brings into the window; the end of the stream is noted
\* wherever it lies.
Accepted(first, end) ==
  (first .. end - 1) \cap ((0 .. Out.total_poped + Capacity) \cup {Fin})

\* A segment that takes no sequence number may stand anywhere: an
\* acknowledgment, or the keep-alive in front of what is expected.
SegmentArrives ==
  \E first \in 0 .. Fin + 1 : \E end \in first .. Fin + 1 :
    /\ Recent(first)
    /\ receiver' = ReceiveSegment(receiver, Segment(first, end))
    /\ arrived'  = arrived \cup (IF receiver'.SYN THEN Accepted(first, end) ELSE {})

\* A keep-alive with an octet of garbage, as RFC 1122 (4.2.3.6) lets a peer send
\* it: at a number that the receiver has, which may be that of the SYN.
KeepAlive(first) ==
  [seqno |-> Wrap(first, Isn), SYN |-> FALSE, payload |-> <<Blank>>, FIN |-> FALSE, RST |-> FALSE]

KeepAliveArrives ==
  /\ \E first \in 0 .. Length :
       /\ first <= Out.total_pushed /\ Recent(first)
       /\ receiver' = ReceiveSegment(receiver, KeepAlive(first))
  /\ UNCHANGED arrived

\* TCPPeer gives nothing to a receiver whose stream is in error.
ResetArrives ==
  /\ ~Out.error
  /\ \E first \in 0..Fin :
       receiver' = ReceiveSegment(receiver, [Segment(first, first) EXCEPT !.RST = TRUE])
  /\ UNCHANGED arrived

DoRead ==
  /\ \E n \in 1 .. BytesBuffered(Out) :
       receiver' = [receiver EXCEPT !.reassembler.output = PopBytes(@, n)]
  /\ UNCHANGED arrived

Next == (~Out.error /\ (SegmentArrives \/ KeepAliveArrives)) \/ ResetArrives \/ DoRead

Spec == Init /\ [][Next]_vars
-----------------------------------------------------------------------------
(* The Reassembler.                                                          *)

reassembler == receiver.reassembler

Filled == reassembler.filled

\* The indices that are known but not yet written.
Pending == UNION {i.first .. i.end - 1 : i \in Filled}

\* The map holds non-empty intervals that neither overlap nor touch, all of
\* them beyond a gap and within the capacity: an interval left behind would be
\* first in the map for ever and hold up the stream.
IntervalsApart ==
  /\ \A i \in Filled : /\ Out.total_pushed < i.first /\ i.first < i.end
                       /\ i.end <= Out.total_poped + Capacity
  /\ \A i, j \in Filled : i # j => i.end < j.first \/ j.end < i.first

\* What is pending is counted and kept: pending_bytes_ is the number of bytes the
\* map stands for, after any merges, and the slot of a pending index holds the
\* byte that arrived for it, wherever the front of the ring has moved since.
PendingIsKept ==
  /\ reassembler.pending_bytes = Cardinality(Pending)
  /\ \A k \in Pending : reassembler.ring[Slot(reassembler, k) + 1] = k + 1

\* Seen from outside, the Reassembler is a set of received bytes.
Promise == INSTANCE StreamReassembly WITH
  received <- (0 .. Out.total_pushed - 1) \cup Pending,
  popped   <- Out.total_poped,
  output   <- Out.buffer,
  ended    <- reassembler.eof_received,
  closed   <- Out.closed

\* Whatever segments arrive, insert keeps the promise of its comment: order,
\* completeness, retention, clipping at the capacity, and the close after the
\* last byte.
KeepsPromise == Promise!Spec
-----------------------------------------------------------------------------
(* The acknowledgments.                                                      *)

\* The acknowledgment is cumulative: it names the first sequence number that
\* has not arrived, of the SYN, the bytes and the FIN alike, and what is
\* acknowledged is in the output and can be read.
AckIsFirstGap ==
  receiver.SYN =>
    /\ Acknowledge(receiver).ackno = Wrap(AbsoluteAckno(receiver), Isn)
    /\ 0 .. AbsoluteAckno(receiver) - 1 \subseteq arrived
    /\ AbsoluteAckno(receiver) \notin arrived

\* Neither the acknowledgment nor the end of the advertised window ever moves
\* back: a sender may rely on the room it was once granted.
WindowNeverRetreats ==
  [][receiver.SYN =>
       /\ AbsoluteAckno(receiver') >= AbsoluteAckno(receiver)
       /\ Output(receiver').total_pushed + Acknowledge(receiver').window_size
            >= Out.total_pushed + Acknowledge(receiver).window_size]_vars
=============================================================================
