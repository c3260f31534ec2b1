---------------------------- MODULE TCPSenderSpec ----------------------------
(* One TCPSender under the calls its owner makes: the application writes and *)
(* closes the outbound stream, the owner pushes, delivers whatever messages  *)
(* arrive from the peer's receiver, in any order, and reports the time.      *)
EXTENDS TCPSender

CONSTANTS
  Isn,          \* TCPConfig::isn
  Capacity,     \* TCPConfig::send_capacity
  Windows,      \* the window sizes the peer advertises
  Ticks,        \* the intervals between two ticks, in milliseconds
  MaxBytes,     \* bound: the bytes the application writes
  MaxDupAcks    \* bound: duplicate acknowledgments in a row

ASSUME SystemAssumption ==
  /\ Isn \in Wrap32 /\ Capacity \in Nat
  /\ Windows \subseteq 0 .. MAX_WINDOW /\ Ticks \subseteq Nat \ {0}
  /\ MaxBytes \in Nat /\ MaxDupAcks \in Nat

VARIABLES
  sender,   \* the TCPSender
  sent      \* the segments transmitted by the last call

vars == <<sender, sent>>

Init == /\ sender = NewSender(Capacity, Isn)
        /\ sent = <<>>

\* The peer is active(): only then is it given segments and ticks.
Alive == ~HasError(sender)

\* Writer::push by the owner, who never offers more than fits and never
\* writes after close (the interest of the rule that reads the application).
AppWrite ==
  /\ ~sender.input.closed
  /\ \E n \in 1 .. Least(AvailableCapacity(sender.input), MaxBytes - sender.input.total_pushed) :
       sender' = [sender EXCEPT
                    !.input = PushBytes(@, [i \in 1..n |-> @.total_pushed + i])]
  /\ sent' = <<>>

AppClose == /\ ~sender.input.closed
            /\ sender' = [sender EXCEPT !.input = Close(@)]
            /\ sent' = <<>>

DoPush == LET pushed == Push(sender)
          IN  /\ sender' = pushed.snd
              /\ sent'   = pushed.out

\* Any acknowledgment may arrive: old ones that were delayed, repeated ones,
\* and ones for positions that were never sent.
DoReceive ==
  /\ Alive
  /\ \E msg \in [ackno : Wrap32 \cup {NoAck}, window_size : Windows, RST : BOOLEAN] :
       sender' = Receive(sender, msg)
  /\ sender'.dup_acks <= MaxDupAcks
  /\ sent' = <<>>

DoTick == /\ Alive
          /\ \E ms \in Ticks : LET ticked == Tick(sender, ms)
                               IN  /\ sender' = ticked.snd
                                   /\ sent'   = ticked.out

Next == AppWrite \/ AppClose \/ DoPush \/ DoReceive \/ DoTick

Spec == Init /\ [][Next]_vars

\* The event loop reports the time at least every TCP_TICK_MS while the peer
\* is active.
FairSpec == Spec /\ WF_vars(DoTick)
-----------------------------------------------------------------------------
(* Where things are in the sequence space.                                   *)

\* The absolute position of a segment, recovered as the code recovers it.
Start(msg) == Unwrap(msg.seqno, sender.isn, sender.next_seqno)
End(msg)   == Start(msg) + SequenceLength(msg)

Queue == sender.outstanding
-----------------------------------------------------------------------------
(* Safety.                                                                   *)

\* The members of the class hold values of their types, and what is handed to
\* the network are segments.
TypeOK == sender \in Sender /\ sent \in Seq(SenderMessage)

\* The outstanding segments tile the sequence numbers in flight, in order and
\* without a hole, and flight_numbers_length is their total: what `receive'
\* unwraps against a moving next_seqno is still where each segment was sent.
QueueTilesFlight ==
  /\ \A i \in 1 .. Len(Queue) - 1 : End(Queue[i]) = Start(Queue[i+1])
  /\ Queue # <<>> => /\ End(Queue[Len(Queue)]) = sender.next_seqno
                     /\ sender.flight = sender.next_seqno - Start(Queue[1])
  /\ Queue = <<>> => sender.flight = 0

\* No acknowledged segment stays in the queue to be retransmitted, and the
\* queue runs dry only when all that was sent is acknowledged, also under
\* acknowledgments that are delayed, partial or invalid.
QueueIsUnacknowledged ==
  /\ sender.ackno <= sender.next_seqno
  /\ \A i \in 1 .. Len(Queue) : End(Queue[i]) > sender.ackno
  /\ Queue = <<>> => sender.ackno = sender.next_seqno

\* The timer runs exactly while something is outstanding and never stands at
\* its limit between two calls: tick() takes front() of the queue on expiry
\* without asking whether the queue is empty.
TimerGuardsQueue ==
  /\ sender.timer_running <=> Queue # <<>>
  /\ ~sender.timer_running => sender.time_elapsed = 0
  /\ sender.time_elapsed < sender.current_RTO

\* Every sequence number used so far is the SYN, a byte popped off the stream
\* or the FIN, and the FIN comes after the last byte written.
StreamPosition ==
  /\ sender.next_seqno = Count(sender.syn_sent) + sender.input.total_poped
                           + Count(sender.fin_sent)
  /\ sender.input.total_pushed = sender.input.total_poped + Len(sender.input.buffer)
  /\ sender.input.total_pushed - sender.input.total_poped <= sender.input.capacity
  /\ sender.fin_sent => sender.input.closed /\ sender.input.buffer = <<>>

\* A segment in flight carries the bytes, the SYN and the FIN that belong at
\* its position of the stream, however the 32-bit numbers have wrapped.
SegmentsCarryTheStream ==
  \A i \in 1 .. Len(Queue) :
    LET msg == Queue[i]
    IN  /\ msg.SYN <=> Start(msg) = 0
        /\ \A j \in 1 .. Len(msg.payload) :
             msg.payload[j] = Start(msg) + Count(msg.SYN) + j - 1
        /\ msg.FIN <=> sender.fin_sent /\ End(msg) = sender.next_seqno

\* The congestion window never falls below one segment: below that, silly
\* window avoidance would hold back the data for ever.
CongestionWindowFloor == sender.cwnd >= MSS /\ sender.ssthresh >= MSS

\* The timeout is the initial one doubled once for each counted timeout since
\* the last new acknowledgment, and the count passes the limit only in error.
\* So it does not depend on how long acknowledgments take: README.md, line 34, and
\* README_EN.md, line 28, claim adaptive RTT estimation, of which the code has none.
Backoff ==
  /\ sender.current_RTO = Doubled(sender.retransmissions)
  /\ sender.retransmissions > MAX_RETX_ATTEMPTS => HasError(sender)
-----------------------------------------------------------------------------
(* Action properties.                                                        *)

\* New data never reaches beyond the window the peer advertised last, nor
\* beyond the congestion window, both counted from the acknowledged position
\* (a closed window counts as one).
NewDataInWindow ==
  [][sender'.next_seqno > sender.next_seqno
       => sender'.next_seqno - sender.ackno <= EffectiveWindow(sender)]_vars

\* After push, data or a FIN waits only behind something in flight, whose
\* acknowledgment or timeout brings the sender back: it never stalls.
PushNeverStalls ==
  [][DoPush => \/ sender'.flight > 0
               \/ /\ sender'.syn_sent
                  /\ sender'.input.buffer = <<>>
                  /\ sender'.input.closed => sender'.fin_sent]_vars
-----------------------------------------------------------------------------
(* Liveness.                                                                 *)

\* Unless the peer keeps closing its window, what is in flight does not stay
\* unresolved: it is acknowledged, or the connection is given up.
FlightResolves ==
  <>[](sender.window_size > 0) => []<>(sender.flight = 0 \/ HasError(sender))
-----------------------------------------------------------------------------
(* Claims of the repository that the code does not meet.                     *)

\* tests/congestion_control.cc: after a timeout with 4000 bytes in flight
\* "ssthresh should be max(4000/2, 1000) = 2000", half of the data in flight.
TimeoutHalvesFlight ==
  [][(/\ sender.ackno > 0
      /\ sender'.retransmissions > sender.retransmissions
      /\ ~HasError(sender'))
       => sender'.ssthresh = Greatest(sender.flight \div 2, MSS)]_vars

\* README.md: the sender has the Fast Recovery of TCP Reno, whose end, the
\* acknowledgment of new data, takes the window back to ssthresh (from where
\* it may grow by no more than what is acknowledged).
FastRecoveryEnds ==
  [][(sender.ackno > 0 /\ sender.dup_acks >= 3 /\ sender'.ackno > sender.ackno)
       => sender'.cwnd <= sender'.ssthresh + (sender'.ackno - sender.ackno)]_vars
=============================================================================
