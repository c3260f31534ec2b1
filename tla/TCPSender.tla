------------------------------ MODULE TCPSender ------------------------------
(* TCPSender (src/src/tcp_sender.cc, .hh) as operators on a record with one  *)
(* field for each member of the class: push, receive and tick map a sender   *)
(* to the sender after the call, with the segments handed to `transmit'.     *)
(* The number that stands for a byte of the outbound stream is its absolute  *)
(* sequence number.                                                          *)
EXTENDS TCPMessages, Iteration

CONSTANTS
  MAX_PAYLOAD_SIZE,     \* TCPConfig::MAX_PAYLOAD_SIZE, also the MSS
  MAX_RETX_ATTEMPTS,    \* TCPConfig::MAX_RETX_ATTEMPTS
  INITIAL_CWND,         \* TCPConfig::DEFAULT_CAPACITY
  INITIAL_SSTHRESH,     \* UINT64_MAX
  INITIAL_RTO           \* TCPConfig::rt_timeout

ASSUME SenderAssumption ==
  /\ MAX_PAYLOAD_SIZE \in Nat \ {0}
  /\ MAX_RETX_ATTEMPTS \in Nat
  /\ INITIAL_CWND \in Nat /\ INITIAL_CWND > MAX_PAYLOAD_SIZE
  /\ INITIAL_SSTHRESH \in Nat /\ INITIAL_SSTHRESH >= MAX_PAYLOAD_SIZE
  /\ INITIAL_RTO \in Nat \ {0}
-----------------------------------------------------------------------------
(* State.                                                                    *)

Sender ==
  [input : Stream, isn : Wrap32, syn_sent : BOOLEAN, fin_sent : BOOLEAN,
   ackno : Nat, next_seqno : Nat, window_size : 0 .. MAX_WINDOW,
   outstanding : Seq(SenderMessage), flight : Nat,
   time_elapsed : Nat, current_RTO : Nat, retransmissions : Nat,
   timer_running : BOOLEAN,
   cwnd : Nat \ {0}, ssthresh : Nat, dup_acks : Nat, fast_retransmit : BOOLEAN]

NewSender(capacity, isn) ==
  [input |-> NewStream(capacity), isn |-> isn, syn_sent |-> FALSE, fin_sent |-> FALSE,
   ackno |-> 0, next_seqno |-> 0, window_size |-> 1,
   outstanding |-> <<>>, flight |-> 0,
   time_elapsed |-> 0, current_RTO |-> INITIAL_RTO, retransmissions |-> 0,
   timer_running |-> FALSE,
   cwnd |-> INITIAL_CWND, ssthresh |-> INITIAL_SSTHRESH, dup_acks |-> 0,
   fast_retransmit |-> FALSE]

HasError(snd) == snd.input.error

-----------------------------------------------------------------------------
(* push                                                                      *)

MakeEmptyMessage(snd) ==
  [seqno |-> Wrap(snd.next_seqno, snd.isn), SYN |-> FALSE, payload |-> <<>>,
   FIN |-> FALSE, RST |-> HasError(snd)]

\* A closed window is probed with one sequence number.
EffectiveWindow(snd) ==
  Least(snd.cwnd, IF snd.window_size = 0 THEN 1 ELSE snd.window_size)

\* Bug variant: what is in flight is not subtracted.
AvailableWindow_IgnoringFlight(snd) == EffectiveWindow(snd) - Count(~snd.syn_sent)

\* The room for payload, once the SYN has its sequence number.
AvailableWindow(snd) ==
  EffectiveWindow(snd) - snd.flight - Count(~snd.syn_sent)

PayloadLen(snd) ==
  Least(MAX_PAYLOAD_SIZE, Least(AvailableWindow(snd), Len(snd.input.buffer)))

\* Bug variant: also when the peer's window is the limit.
SillyWindow_OfPeer(snd) ==
  /\ PayloadLen(snd) < MAX_PAYLOAD_SIZE
  /\ PayloadLen(snd) < Len(snd.input.buffer)
  /\ snd.window_size > 0

\* Less than a full payload fits and the congestion window is what limits it.
SillyWindow(snd) ==
  /\ PayloadLen(snd) < MAX_PAYLOAD_SIZE
  /\ PayloadLen(snd) < Len(snd.input.buffer)
  /\ snd.window_size > 0
  /\ snd.cwnd < snd.window_size

\* Bug variant: the FIN goes out with the first segment after close.
NextSegment_EarlyFin(snd) ==
  LET len == PayloadLen(snd)
  IN  [MakeEmptyMessage(snd) EXCEPT
         !.SYN     = ~snd.syn_sent,
         !.payload = SubSeq(snd.input.buffer, 1, len),
         !.FIN     = snd.input.closed /\ ~snd.fin_sent /\ AvailableWindow(snd) > len]

NextSegment(snd) ==
  LET len == PayloadLen(snd)
  IN  [MakeEmptyMessage(snd) EXCEPT
         !.SYN     = ~snd.syn_sent,
         !.payload = SubSeq(snd.input.buffer, 1, len),
         !.FIN     = /\ snd.input.closed
                     /\ ~snd.fin_sent
                     /\ AvailableWindow(snd) > len
                     /\ len = Len(snd.input.buffer)]

\* Bug variant: SYN and FIN are not counted as in flight.
Sent_PayloadInFlight(snd, msg) ==
  [snd EXCEPT !.input         = PopBytes(@, Len(msg.payload)),
              !.syn_sent      = TRUE,
              !.fin_sent      = @ \/ msg.FIN,
              !.outstanding   = Append(@, msg),
              !.next_seqno    = @ + SequenceLength(msg),
              !.flight        = @ + Len(msg.payload),
              !.timer_running = TRUE]

\* The sender once msg has been transmitted for the first time.
Sent(snd, msg) ==
  [snd EXCEPT !.input         = PopBytes(@, Len(msg.payload)),
              !.syn_sent      = TRUE,
              !.fin_sent      = @ \/ msg.FIN,
              !.outstanding   = Append(@, msg),
              !.next_seqno    = @ + SequenceLength(msg),
              !.flight        = @ + SequenceLength(msg),
              !.timer_running = TRUE]

\* One pass of the loop of push.  The flag of the SYN is set before the pass
\* may leave without sending it.
PushPass(p) ==
  LET snd == p.snd
      msg == NextSegment(snd)
  IN  IF p.done THEN p
      ELSE IF EffectiveWindow(snd) <= snd.flight
        THEN [p EXCEPT !.done = TRUE]
      ELSE IF SillyWindow(snd)
        THEN [p EXCEPT !.snd = [@ EXCEPT !.syn_sent = TRUE], !.done = TRUE]
      ELSE IF SequenceLength(msg) = 0
        THEN [p EXCEPT !.done = TRUE]
      ELSE [snd |-> Sent(snd, msg), out |-> Append(p.out, msg), done |-> msg.FIN]

\* The state at the head of that loop: the sender, the segments transmitted
\* so far, and whether the loop has been left.
PushState == [snd : Sender, out : Seq(SenderMessage), done : BOOLEAN]

\* push: the pending fast retransmission, then the loop.  A pass that does not
\* leave the loop uses a sequence number of the window, which bounds them.
Push(snd) ==
  LET first == IF snd.fast_retransmit /\ snd.outstanding # <<>>
               THEN <<Head(snd.outstanding)>> ELSE <<>>
      start == [snd |-> [snd EXCEPT !.fast_retransmit = FALSE],
                out |-> first, done |-> FALSE]
  IN  Iterate([p \in PushState |-> PushPass(p)], start, MAX_WINDOW + 1)
-----------------------------------------------------------------------------
(* receive                                                                   *)

MSS == MAX_PAYLOAD_SIZE

\* Congestion avoidance: one increment for each full MSS acknowledged, each
\* from the window the one before left, and one for what remains.
AvoidCongestion(cwnd, acked) ==
  LET grown == Iterate([w \in Nat \ {0} |-> w + (MSS * MSS) \div w], cwnd, acked \div MSS)
  IN  grown + ((acked % MSS) * MSS) \div grown

\* Bug variant: a new acknowledgment does not end the backoff.
OnNewAck_KeepsRTO(snd, ackno) ==
  [snd EXCEPT !.retransmissions = 0, !.time_elapsed = 0, !.timer_running = TRUE,
              !.ackno = ackno, !.dup_acks = 0]

OnNewAck(snd, ackno) ==
  [snd EXCEPT !.current_RTO     = INITIAL_RTO,
              !.retransmissions = 0,
              !.time_elapsed    = 0,
              !.timer_running   = TRUE,
              !.ackno           = ackno,
              !.dup_acks        = 0,
              !.cwnd = IF snd.ackno = 0 /\ ackno = 1 THEN @
                       ELSE IF @ < snd.ssthresh THEN @ + (ackno - snd.ackno)
                       ELSE AvoidCongestion(@, ackno - snd.ackno)]

\* The third acknowledgment of the same position halves the window and asks
\* for a fast retransmission, each further one widens the window.
OnDuplicateAck(snd) ==
  LET half == Greatest(snd.cwnd \div 2, MSS)
  IN  [snd EXCEPT !.dup_acks        = @ + 1,
                  !.fast_retransmit = @ \/ snd.dup_acks = 2,
                  !.ssthresh        = IF snd.dup_acks = 2 THEN half ELSE @,
                  !.cwnd            = CASE snd.dup_acks = 2 -> half + 3 * MSS
                                        [] snd.dup_acks > 2 -> @ + MSS
                                        [] OTHER            -> @]

\* Bug variant: a segment acknowledged exactly to its end stays.
PopPass_Strict(snd, ackno) ==
  LET front == Head(snd.outstanding)
  IN  IF /\ snd.outstanding # <<>>
         /\ Unwrap(front.seqno, snd.isn, snd.next_seqno) + SequenceLength(front) < ackno
      THEN [snd EXCEPT !.outstanding = Tail(@), !.flight = @ - SequenceLength(front)]
      ELSE snd

\* One pass of the loop that drops what is acknowledged from the queue.
PopPass(snd, ackno) ==
  LET front == Head(snd.outstanding)
  IN  IF /\ snd.outstanding # <<>>
         /\ Unwrap(front.seqno, snd.isn, snd.next_seqno) + SequenceLength(front) <= ackno
      THEN [snd EXCEPT !.outstanding = Tail(@), !.flight = @ - SequenceLength(front)]
      ELSE snd

DropAcked(snd, ackno) ==
  Iterate([s \in Sender |-> PopPass(s, ackno)], snd, Len(snd.outstanding))

\* Bug variant: the timer runs on with nothing outstanding.
StopIdleTimer_Never(snd) == snd

StopIdleTimer(snd) ==
  IF snd.outstanding = <<>>
  THEN [snd EXCEPT !.timer_running = FALSE, !.time_elapsed = 0]
  ELSE snd

\* receive: the error flag and the window are taken over from any message,
\* even from one whose ackno is then found to be invalid.
Receive(snd, msg) ==
  LET updated == [snd EXCEPT !.input       = IF msg.RST THEN SetError(@) ELSE @,
                             !.window_size = msg.window_size]
      ackno   == Unwrap(msg.ackno, snd.isn, snd.next_seqno)
      counted == IF ackno > snd.ackno THEN OnNewAck(updated, ackno)
                 ELSE IF ackno = snd.ackno /\ snd.outstanding # <<>>
                   THEN OnDuplicateAck(updated)
                 ELSE updated
  IN  IF msg.ackno = NoAck \/ ackno > snd.next_seqno THEN updated
      ELSE StopIdleTimer(DropAcked(counted, ackno))
-----------------------------------------------------------------------------
(* tick                                                                      *)

\* Bug variants: the window is halved without a floor; timeouts are not counted.
TimedOut_NoFloor(snd) ==
  IF snd.window_size = 0 THEN snd ELSE [snd EXCEPT !.cwnd = @ \div 2]

TimedOut_NotCounted(snd) ==
  IF snd.window_size = 0 THEN snd ELSE [snd EXCEPT !.cwnd = MSS, !.dup_acks = 0]

\* A timeout counts, doubles the timeout and collapses the window, except
\* when the window of the peer is closed; one too many is an error.
TimedOut(snd) ==
  LET counted == [snd EXCEPT !.current_RTO     = @ * 2,
                             !.retransmissions = @ + 1]
  IN  IF snd.window_size = 0 THEN snd
      ELSE IF counted.retransmissions > MAX_RETX_ATTEMPTS
        THEN [counted EXCEPT !.input = SetError(@)]
      ELSE [counted EXCEPT !.ssthresh = Greatest(snd.cwnd \div 2, MSS),
                           !.cwnd     = MSS,
                           !.dup_acks = 0]

\* The initial timeout, doubled n times.
Doubled(n) == Iterate([t \in Nat |-> 2 * t], INITIAL_RTO, n)

Tick(snd, ms) ==
  LET elapsed == snd.time_elapsed + (IF snd.timer_running THEN ms ELSE 0)
  IN  IF elapsed < snd.current_RTO
      THEN [snd |-> [snd EXCEPT !.time_elapsed = elapsed], out |-> <<>>]
      ELSE [snd |-> TimedOut([snd EXCEPT !.time_elapsed = 0]),
            out |-> <<Head(snd.outstanding)>>]
=============================================================================
