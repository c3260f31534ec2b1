------------------------ MODULE TCPSenderSpecProofs ------------------------
(* The safety of TCPSender under every sequence of calls: where its segments *)
(* are, what they carry, when it may send them, and how it backs off.        *)
EXTENDS TCPSenderSpec, TCPPeerProofs
-----------------------------------------------------------------------------
(* The inductive invariant.                                                  *)

Inv == Good(sender) /\ sent \in Seq(SenderMessage)

CarriesInv == Inv /\ Carries(sender) /\ Backed(sender)
-----------------------------------------------------------------------------
(* The invariant is inductive.                                               *)

LEMMA InitInv == Init => Inv
<1> SUFFICES ASSUME Init PROVE Inv
  OBVIOUS
<1>1. Good(NewSender(Capacity, Isn))
  BY NewSenderGood, SystemAssumption
<1> QED BY <1>1 DEF Inv, Init

\* The writing of the owner.
LEMMA AppWriteIs ==
  ASSUME Good(sender), AppWrite
  PROVE  /\ ~sender.input.closed
         /\ \E n \in Nat : n <= AvailableCapacity(sender.input) /\ sender' = Written(sender, n)
<1>1. PICK n \in 1 .. Least(AvailableCapacity(sender.input), MaxBytes - sender.input.total_pushed) :
        sender' = Written(sender, n)
  BY DEF AppWrite, Written
<1>2. AvailableCapacity(sender.input) \in Int /\ MaxBytes - sender.input.total_pushed \in Int
  <2>1. sender.input \in Stream
    BY DEF Good, Sender
  <2>2. /\ sender.input.capacity \in Nat /\ sender.input.total_pushed \in Nat
        /\ sender.input.total_poped \in Nat /\ MaxBytes \in Nat
    BY <2>1, SystemAssumption DEF Stream
  <2> QED BY <2>2 DEF AvailableCapacity
<1>3. n \in Nat /\ n <= AvailableCapacity(sender.input)
  BY <1>2 DEF Least
<1> QED BY <1>1, <1>3 DEF AppWrite

LEMMA NextInv == Inv /\ [Next]_vars => Inv'
<1> SUFFICES ASSUME Inv, [Next]_vars PROVE Inv'
  OBVIOUS
<1>1. Good(sender) /\ sender \in Sender
  BY DEF Inv, Good
<1>2. CASE AppWrite
  <2>1. sent' = <<>>
    BY <1>2 DEF AppWrite
  <2> QED BY <2>1, <1>1, <1>2, AppWriteIs, WrittenKeepsGood DEF Inv
<1>3. CASE AppClose
  <2>1. sent' = <<>>
    BY <1>3 DEF AppClose
  <2> QED BY <2>1, <1>1, <1>3, CloseKeepsGood DEF Inv, AppClose
<1>4. CASE DoPush
  <2>1. Push(sender) \in GoodPushState
    BY <1>1, PushKeepsGood
  <2>2. sender' = Push(sender).snd /\ sent' = Push(sender).out
    BY <1>4 DEF DoPush
  <2> QED BY <2>1, <2>2 DEF Inv, GoodPushState, PushState
<1>5. CASE DoReceive
  <2>1. PICK msg \in [ackno : Wrap32 \cup {NoAck}, window_size : Windows, RST : BOOLEAN] :
          sender' = Receive(sender, msg)
    BY <1>5 DEF DoReceive
  <2>2. msg \in ReceiverMessage
    BY SystemAssumption DEF ReceiverMessage
  <2>3. sent' = <<>>
    BY <1>5 DEF DoReceive
  <2> QED BY <1>1, <2>1, <2>2, <2>3, ReceiveKeepsGood DEF Inv
<1>6. CASE DoTick
  <2>1. PICK ms \in Ticks : sender' = Tick(sender, ms).snd /\ sent' = Tick(sender, ms).out
    BY <1>6 DEF DoTick
  <2>2. ms \in Nat
    BY SystemAssumption
  <2> QED BY <1>1, <2>1, <2>2, TickKeepsGood DEF Inv
<1>7. CASE UNCHANGED vars
  <2>1. sender' = sender /\ sent' = sent
    BY <1>7 DEF vars
  <2> QED BY <2>1 DEF Inv
<1> QED BY <1>2, <1>3, <1>4, <1>5, <1>6, <1>7 DEF Next

(* Every state a sender reaches satisfies the inductive invariant.           *)
THEOREM InvHolds == Spec => []Inv
BY InitInv, NextInv, PTL DEF Spec
-----------------------------------------------------------------------------
(* What the invariant gives, in the words of TCPSenderSpec.                  *)

(* Type correctness: no member of TCPSender ever leaves its type; counters   *)
(* of sequence numbers never go below zero.                                  *)
THEOREM TypeCorrect == Spec => []TypeOK
<1>1. Inv => TypeOK
  BY DEF Inv, Good, TypeOK
<1> QED BY <1>1, InvHolds, PTL

(* The outstanding queue of tcp_sender.cc tiles the sequence numbers in      *)
(* flight, read back through 32-bit numbers.                                 *)
THEOREM QueueSafe == Spec => []QueueTilesFlight
<1>1. Inv => QueueTilesFlight
  <2> SUFFICES ASSUME Inv PROVE QueueTilesFlight
    OBVIOUS
  <2>1. sender \in Sender /\ Queue \in Seq(SenderMessage) /\ Len(Queue) \in Nat
    BY DEF Inv, Good, Sender, Queue
  <2>2. PICK pos : Layout(sender, pos)
    BY DEF Inv, Good
  <2>3. \A i \in 1 .. Len(Queue) : Start(Queue[i]) = pos[i] /\ End(Queue[i]) = pos[i + 1]
    BY <2>1, <2>2, OutstandingPosition DEF Layout, Start, End, Queue
  <2>4. \A i \in 1 .. Len(Queue) - 1 : End(Queue[i]) = Start(Queue[i + 1])
    <3> SUFFICES ASSUME NEW i \in 1 .. Len(Queue) - 1
                 PROVE  End(Queue[i]) = Start(Queue[i + 1])
      OBVIOUS
    <3>1. i \in 1 .. Len(Queue) /\ i + 1 \in 1 .. Len(Queue)
      BY <2>1
    <3> QED BY <3>1, <2>3
  <2>5. Queue # <<>> => /\ End(Queue[Len(Queue)]) = sender.next_seqno
                        /\ sender.flight = sender.next_seqno - Start(Queue[1])
    <3> SUFFICES ASSUME Queue # <<>>
                 PROVE  /\ End(Queue[Len(Queue)]) = sender.next_seqno
                        /\ sender.flight = sender.next_seqno - Start(Queue[1])
      OBVIOUS
    <3>1. 1 \in 1 .. Len(Queue) /\ Len(Queue) \in 1 .. Len(Queue)
      BY <2>1
    <3> QED BY <3>1, <2>2, <2>3 DEF Layout, Queue
  <2>6. Queue = <<>> => sender.flight = 0
    BY <2>1, <2>2 DEF Layout, Queue, Sender
  <2> QED BY <2>4, <2>5, <2>6 DEF QueueTilesFlight
<1> QED BY <1>1, InvHolds, PTL

(* Nothing acknowledged stays in the queue, and an empty queue means that    *)
(* all that was sent is acknowledged.                                        *)
THEOREM QueueUnacknowledged == Spec => []QueueIsUnacknowledged
<1>1. Inv => QueueIsUnacknowledged
  <2> SUFFICES ASSUME Inv PROVE QueueIsUnacknowledged
    OBVIOUS
  <2>1. /\ sender \in Sender /\ Queue \in Seq(SenderMessage) /\ Len(Queue) \in Nat
        /\ sender.ackno \in Nat /\ sender.next_seqno \in Nat
    BY DEF Inv, Good, Sender, Queue
  <2>2. PICK pos : Layout(sender, pos) /\ Settled(sender, pos)
    BY DEF Inv, Good
  <2>3. \A i \in 1 .. Len(Queue) : End(Queue[i]) = pos[i + 1]
    BY <2>1, <2>2, OutstandingPosition DEF Layout, Start, End, Queue
  <2>4. \A i \in 1 .. Len(Queue) : End(Queue[i]) > sender.ackno
    BY <2>2, <2>3 DEF Settled, Queue
  <2>5. Queue = <<>> => sender.ackno = sender.next_seqno
    BY <2>1, <2>2 DEF Layout, Settled, Queue
  <2> QED BY <2>2, <2>4, <2>5 DEF QueueIsUnacknowledged, Settled
<1> QED BY <1>1, InvHolds, PTL

(* The timer runs exactly while a segment is outstanding and has never       *)
(* expired between two calls, so tick() never takes front() of an empty      *)
(* queue.                                                                    *)
THEOREM TimerSafe == Spec => []TimerGuardsQueue
<1>1. Inv => TimerGuardsQueue
  BY DEF Inv, Good, Timer, TimerGuardsQueue, Queue
<1> QED BY <1>1, InvHolds, PTL

(* The sequence numbers used are the SYN, the bytes popped and the FIN.      *)
THEOREM PositionCorrect == Spec => []StreamPosition
<1>1. Inv => StreamPosition
  BY DEF Inv, Good, Position, StreamPosition
<1> QED BY <1>1, InvHolds, PTL

(* The congestion window never falls below one full segment.                 *)
THEOREM WindowFloor == Spec => []CongestionWindowFloor
<1>1. Inv => CongestionWindowFloor
  BY DEF Inv, Good, Window, CongestionWindowFloor
<1> QED BY <1>1, InvHolds, PTL
-----------------------------------------------------------------------------
(* What is sent and the timeout.                                             *)

LEMMA InitCarries == Init => CarriesInv
<1> SUFFICES ASSUME Init PROVE CarriesInv
  OBVIOUS
<1>1. /\ sender = NewSender(Capacity, Isn)
      /\ sender.current_RTO = INITIAL_RTO /\ sender.retransmissions = 0
  BY DEF Init, NewSender, NewStream
<1>2. Carries(sender)
  BY <1>1, NewSenderGood, SystemAssumption
<1>3. Backed(sender)
  BY <1>1, DoubledIs, SenderAssumption DEF Backed
<1> QED BY <1>2, <1>3, InitInv DEF CarriesInv

LEMMA NextCarries == CarriesInv /\ [Next]_vars => CarriesInv'
<1> SUFFICES ASSUME CarriesInv, [Next]_vars PROVE CarriesInv'
  OBVIOUS
<1>1. Good(sender) /\ sender \in Sender /\ Carries(sender) /\ Backed(sender) /\ Inv'
  BY NextInv DEF CarriesInv, Inv, Good
<1> SUFFICES Carries(sender') /\ Backed(sender')
  BY <1>1 DEF CarriesInv
<1>2. CASE AppWrite
  <2>1. PICK n \in Nat : /\ n <= AvailableCapacity(sender.input)
                        /\ sender' = Written(sender, n)
    BY <1>1, <1>2, AppWriteIs
  <2>2. SameClock(sender, sender')
    BY <2>1, <1>1 DEF SameClock, HasError, Written, PushBytes, Sender, Stream
  <2> QED BY <2>1, <2>2, <1>1, WrittenKeepsCarries, BackedCongruence
<1>3. CASE AppClose
  <2>1. sender' = [sender EXCEPT !.input = Close(@)]
    BY <1>3 DEF AppClose
  <2>2. SameClock(sender, sender')
    BY <2>1, <1>1 DEF SameClock, HasError, Close, Sender, Stream
  <2> QED BY <2>1, <2>2, <1>1, CloseKeepsCarries, BackedCongruence
<1>4. CASE DoPush
  <2>1. Push(sender) \in Reached(sender) /\ sender' = Push(sender).snd
    BY <1>1, <1>4, PushLeavesLoop DEF DoPush
  <2> QED BY <2>1, <1>1, BackedCongruence DEF Reached
<1>5. CASE DoReceive
  <2>1. PICK msg \in [ackno : Wrap32 \cup {NoAck}, window_size : Windows, RST : BOOLEAN] :
          sender' = Receive(sender, msg)
    BY <1>5 DEF DoReceive
  <2>2. msg \in ReceiverMessage
    BY SystemAssumption DEF ReceiverMessage
  <2> QED BY <1>1, <2>1, <2>2, ReceiveKeepsStream
<1>6. CASE DoTick
  <2>1. /\ ~HasError(sender)
        /\ \E ms \in Ticks : sender' = Tick(sender, ms).snd
    BY <1>6 DEF DoTick, Alive
  <2>3. PICK ms \in Ticks : sender' = Tick(sender, ms).snd
    BY <2>1
  <2>2. ms \in Nat
    BY SystemAssumption
  <2> QED BY <1>1, <2>1, <2>2, <2>3, TickKeepsStream
<1>7. CASE UNCHANGED vars
  BY <1>1, <1>7 DEF vars
<1> QED BY <1>2, <1>3, <1>4, <1>5, <1>6, <1>7 DEF Next

THEOREM CarriesHolds == Spec => []CarriesInv
BY InitCarries, NextCarries, PTL DEF Spec
-----------------------------------------------------------------------------
(* What the invariant gives, in the words of TCPSenderSpec.                  *)

(* Each segment that push queues and tick repeats carries the SYN, the bytes *)
(* and the FIN of its position, at every distance of the 32-bit numbers.     *)
THEOREM SegmentsCorrect == Spec => []SegmentsCarryTheStream
<1>1. CarriesInv => SegmentsCarryTheStream
  BY DEF CarriesInv, Carries, Placed, SegmentsCarryTheStream, Queue, Start, End
<1> QED BY <1>1, CarriesHolds, PTL

(* The timeout is INITIAL_RTO doubled once for each timeout counted by tick  *)
(* since the last new acknowledgment, and more than MAX_RETX_ATTEMPTS are    *)
(* counted only by the one that sets the error.                              *)
THEOREM BackoffKept == Spec => []Backoff
<1>1. CarriesInv => Backoff
  BY DEF CarriesInv, Backed, Backoff
<1> QED BY <1>1, CarriesHolds, PTL

(* No call but push takes new sequence numbers, and push takes none beyond   *)
(* the effective window counted from the acknowledged position.              *)
THEOREM WindowRespected == Spec => NewDataInWindow
<1> DEFINE Respected == sender'.next_seqno > sender.next_seqno
                          => sender'.next_seqno - sender.ackno <= EffectiveWindow(sender)
<1>1. CarriesInv /\ [Next]_vars => [Respected]_vars
  <2> SUFFICES ASSUME CarriesInv, [Next]_vars PROVE Respected \/ UNCHANGED vars
    OBVIOUS
  <2>1. Good(sender) /\ sender \in Sender /\ sender.next_seqno \in Nat
    BY DEF CarriesInv, Inv, Good, Sender
  <2>2. CASE sender'.next_seqno = sender.next_seqno
    BY <2>1, <2>2
  <2>3. CASE AppWrite
    <3>1. sender'.next_seqno = sender.next_seqno
      BY <2>1, <2>3 DEF AppWrite, Sender
    <3> QED BY <3>1, <2>2
  <2>4. CASE AppClose
    <3>1. sender'.next_seqno = sender.next_seqno
      BY <2>1, <2>4 DEF AppClose, Sender
    <3> QED BY <3>1, <2>2
  <2>5. CASE DoPush
    <3> DEFINE t == Push(sender).snd
    <3>1. Push(sender) \in Reached(sender) /\ sender' = t
      BY <2>1, <2>5, PushLeavesLoop DEF DoPush
    <3> HIDE DEF t
    <3>2. /\ Good(t) /\ t \in Sender /\ t.ackno = sender.ackno
          /\ t.next_seqno = sender.next_seqno \/ t.flight <= EffectiveWindow(sender)
      BY <3>1 DEF Reached, GoodPushState, PushState, t
    <3>3. PICK pos : Layout(t, pos) /\ Settled(t, pos)
      BY <3>2 DEF Good
    <3>4. pos[1] \in Nat /\ t.flight = t.next_seqno - pos[1] /\ pos[1] <= t.ackno
      <4>1. 1 \in 1 .. Len(t.outstanding) + 1
        BY <3>2 DEF Sender
      <4> QED BY <4>1, <3>3 DEF Layout, Settled
    <3>5. /\ t.next_seqno \in Nat /\ sender.ackno \in Nat
          /\ EffectiveWindow(sender) \in Nat
      BY <2>1, <3>2, EffectiveWindowType DEF Sender
    <3>6. t.flight <= EffectiveWindow(sender)
            => t.next_seqno - sender.ackno <= EffectiveWindow(sender)
      BY <3>2, <3>4, <3>5
    <3> QED BY <3>1, <3>2, <3>6, <2>2
  <2>6. CASE DoReceive
    <3>1. PICK msg \in [ackno : Wrap32 \cup {NoAck}, window_size : Windows, RST : BOOLEAN] :
            sender' = Receive(sender, msg)
      BY <2>6 DEF DoReceive
    <3>2. msg \in ReceiverMessage
      BY SystemAssumption DEF ReceiverMessage
    <3>3. SamePlace(sender, sender')
      BY <2>1, <3>1, <3>2, ReceiveKeepsStream
    <3> QED BY <3>3, <2>2 DEF SamePlace
  <2>7. CASE DoTick
    <3>1. PICK ms \in Ticks : sender' = Tick(sender, ms).snd
      BY <2>7 DEF DoTick
    <3>2. ms \in Nat
      BY SystemAssumption
    <3>3. SamePlace(sender, sender')
      BY <2>1, <3>1, <3>2, TickKeepsStream
    <3> QED BY <3>3, <2>2 DEF SamePlace
  <2> QED BY <2>3, <2>4, <2>5, <2>6, <2>7 DEF Next
<1> QED BY <1>1, CarriesHolds, PTL DEF Spec, NewDataInWindow

(* push leaves its loop only with something in flight or with nothing left:  *)
(* neither silly window avoidance nor a window of zero strands the stream.   *)
THEOREM NeverStalls == Spec => PushNeverStalls
<1> DEFINE Served == DoPush => \/ sender'.flight > 0
                               \/ /\ sender'.syn_sent
                                  /\ sender'.input.buffer = <<>>
                                  /\ sender'.input.closed => sender'.fin_sent
<1>1. CarriesInv => Served
  <2> SUFFICES ASSUME CarriesInv, DoPush PROVE Finished(sender')
    BY DEF Finished
  <2>1. Good(sender) /\ sender \in Sender
    BY DEF CarriesInv, Inv, Good
  <2>2. Push(sender) \in Reached(sender) /\ Push(sender).done /\ sender' = Push(sender).snd
    BY <2>1, PushLeavesLoop DEF DoPush
  <2> QED BY <2>2 DEF Reached
<1> QED BY <1>1, CarriesHolds, PTL DEF PushNeverStalls
=============================================================================
