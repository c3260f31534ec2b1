------------------------ MODULE TCPReceiverSpecProofs ------------------------
(* The Reassembler gives out the bytes that were sent, in order, as soon as  *)
(* it can: TCPReceiverSpec implements StreamReassembly, the count and the    *)
(* ring hold what the map says, the acknowledgment names the first gap, and  *)
(* the window is never taken back, for every capacity, stream and word size. *)
EXTENDS TCPReceiverSpec, TCPPeerProofs
-----------------------------------------------------------------------------
\* The inductive invariant.
ReceiverInv ==
  /\ receiver \in Receiver
  /\ reassembler \in Ordered(Out, 1)
  /\ Out.capacity = Capacity

\* The segments of the stream are messages, and their indices are numbers.
LEMMA SegmentType ==
  ASSUME NEW first \in Nat, NEW end \in Nat
  PROVE  /\ Segment(first, end) \in SenderMessage
         /\ [Segment(first, end) EXCEPT !.RST = TRUE] \in SenderMessage
<1> DEFINE from == Greatest(first, 1)
           len  == Least(end, Fin) - from
           payload == [k \in 1 .. len |-> from + k - 1]
<1>1. from \in Nat /\ len \in Int
  BY ReceiverAssumption DEF Fin, Least, Greatest
<1> HIDE DEF from, len
<1>2. PICK n \in Nat : 1 .. len = 1 .. n
  <2>1. CASE len >= 0
    BY <1>1, <2>1
  <2>2. CASE ~(len >= 0)
    <3>1. 1 .. len = 1 .. 0
      BY <1>1, <2>2
    <3> QED BY <3>1
  <2> QED BY <2>1, <2>2
<1>3. payload \in Seq(Byte)
  <2>1. \A k \in 1 .. n : from + k - 1 \in Byte
    BY <1>1 DEF Byte
  <2>2. payload = [k \in 1 .. n |-> from + k - 1]
    BY <1>2
  <2> HIDE DEF payload
  <2> QED BY <2>1, <2>2
<1>4. Wrap(first, Isn) \in Wrap32
  BY ReceiverAssumption, WrapType
<1> DEFINE syn == first = 0 /\ end > 0
           fin == first <= Fin /\ end > Fin
<1>5. Segment(first, end) = [seqno |-> Wrap(first, Isn), SYN |-> syn,
                             payload |-> payload, FIN |-> fin, RST |-> FALSE]
  BY DEF Segment, from, len
<1>6. syn \in BOOLEAN /\ fin \in BOOLEAN
  OBVIOUS
<1> HIDE DEF payload, syn, fin
<1>7. \A w \in Wrap32, y, f \in BOOLEAN, p \in Seq(Byte) :
        LET msg == [seqno |-> w, SYN |-> y, payload |-> p, FIN |-> f, RST |-> FALSE]
        IN  msg \in SenderMessage /\ [msg EXCEPT !.RST = TRUE] \in SenderMessage
  BY DEF SenderMessage
<1> QED BY <1>3, <1>4, <1>5, <1>6, <1>7, Zenon

(* What every step does to the output, of the segments and of the reader.    *)
LEMMA StepKeeps ==
  ASSUME ReceiverInv, [Next]_vars
  PROVE  /\ ReceiverInv'
         /\ receiver.SYN => receiver'.SYN
         /\ Out'.total_pushed >= Out.total_pushed /\ Out'.total_poped >= Out.total_poped
         /\ Out.closed => Out'.closed
<1>1. /\ Out \in Stream /\ Out.total_pushed \in Nat /\ Out.total_poped \in Nat
      /\ Out.capacity = Capacity
  BY DEF ReceiverInv, Out, Output, Receiver, Reassembler, Stream
<1>2. ASSUME NEW msg \in SenderMessage, receiver' = ReceiveSegment(receiver, msg)
      PROVE  /\ ReceiverInv'
             /\ receiver.SYN => receiver'.SYN
             /\ Out'.total_pushed >= Out.total_pushed /\ Out'.total_poped >= Out.total_poped
             /\ Out.closed => Out'.closed
  <2> DEFINE out == IF msg.RST THEN SetError(Out) ELSE Out
  <2>1. /\ receiver' \in Receiver /\ reassembler' \in Ordered(out, 1)
        /\ receiver.SYN => receiver'.SYN
    BY <1>2, ReceiveSegmentKeeps DEF ReceiverInv, Out, Output, reassembler
  <2>2. Out' = reassembler'.output
    BY DEF Out, Output, reassembler
  <2>3. /\ out \in Stream /\ out.capacity = Out.capacity /\ out.closed = Out.closed
        /\ out.total_pushed = Out.total_pushed /\ out.total_poped = Out.total_poped
    BY <1>1 DEF SetError, Stream
  <2> HIDE DEF out
  <2>4. Onward(out, Out') /\ reassembler' \in Ordered(Out', 1)
    BY <2>1, <2>2, <2>3, OrderedSelf DEF Ordered
  <2> QED BY <1>1, <2>1, <2>3, <2>4 DEF ReceiverInv, Onward
<1>3. CASE SegmentArrives
  <2>1. PICK first \in 0 .. Fin + 1 : \E end \in first .. Fin + 1 :
          receiver' = ReceiveSegment(receiver, Segment(first, end))
    BY <1>3 DEF SegmentArrives
  <2> PICK end \in first .. Fin + 1 : receiver' = ReceiveSegment(receiver, Segment(first, end))
    BY <2>1
  <2>2. first \in Nat /\ end \in Nat
    BY <2>1, ReceiverAssumption DEF Fin
  <2> QED BY <1>2, <2>1, <2>2, SegmentType
<1>4. CASE ResetArrives
  <2>1. PICK first \in 0 .. Fin :
          receiver' = ReceiveSegment(receiver, [Segment(first, first) EXCEPT !.RST = TRUE])
    BY <1>4 DEF ResetArrives
  <2>2. first \in Nat
    BY <2>1, ReceiverAssumption DEF Fin
  <2> QED BY <1>2, <2>1, <2>2, SegmentType
<1>5. CASE DoRead
  <2>1. PICK n \in 1 .. BytesBuffered(Out) :
          receiver' = [receiver EXCEPT !.reassembler.output = PopBytes(@, n)]
    BY <1>5 DEF DoRead
  <2>2. /\ receiver' \in Receiver /\ receiver'.SYN = receiver.SYN
        /\ reassembler' \in Ordered(Out', 1)
        /\ Out'.capacity = Out.capacity /\ Out'.closed = Out.closed
        /\ Out'.total_pushed = Out.total_pushed /\ Out'.total_poped >= Out.total_poped
    BY <2>1, ReadKeeps DEF ReceiverInv, Out, Output, reassembler
  <2> QED BY <1>1, <2>2 DEF ReceiverInv
<1>6. CASE UNCHANGED vars
  <2>1. receiver' = receiver
    BY <1>6 DEF vars
  <2>2. Out' = Out /\ reassembler' = reassembler
    BY <2>1 DEF Out, reassembler
  <2> QED BY <1>1, <2>1, <2>2 DEF ReceiverInv
<1>7. CASE KeepAliveArrives
  <2>1. PICK first \in 0 .. Length : receiver' = ReceiveSegment(receiver, KeepAlive(first))
    BY <1>7 DEF KeepAliveArrives
  <2>2. first \in Nat
    BY <2>1, ReceiverAssumption
  <2>3. Wrap(first, Isn) \in Wrap32
    BY <2>2, ReceiverAssumption, WrapType
  <2>4. KeepAlive(first) \in SenderMessage
    BY <2>3 DEF KeepAlive, SenderMessage, Byte, Blank
  <2> QED BY <1>2, <2>1, <2>4
<1> QED BY <1>3, <1>4, <1>5, <1>6, <1>7 DEF Next

LEMMA InitHolds ==
  ASSUME Init
  PROVE  ReceiverInv
<1>1. Capacity \in Nat /\ receiver = NewReceiver(Capacity)
  BY ReceiverAssumption DEF Init
<1>2. /\ receiver \in Receiver /\ Out = NewStream(Capacity)
      /\ reassembler \in Ordered(reassembler.output, 1) /\ reassembler.output = Out
  BY <1>1, NewReceiverFaithful DEF Out, Output, reassembler
<1>3. Out.capacity = Capacity
  BY <1>2 DEF NewStream
<1> QED BY <1>2, <1>3 DEF ReceiverInv

LEMMA Invariant == Spec => []ReceiverInv
<1>1. ReceiverInv /\ [Next]_vars => ReceiverInv'
  BY StepKeeps
<1> QED BY <1>1, InitHolds, PTL DEF Spec
-----------------------------------------------------------------------------
(* Whatever segments arrive, the intervals of the map are not empty, do not  *)
(* touch, and lie between the gap behind the output and the capacity, so     *)
(* that none is left behind at the front of the map.                         *)
THEOREM IntervalsSafe == Spec => []IntervalsApart
<1>1. ReceiverInv => IntervalsApart
  <2> SUFFICES ASSUME ReceiverInv PROVE IntervalsApart
    OBVIOUS
  <2>1. /\ Out.total_pushed \in Nat /\ Out.capacity = Capacity
        /\ Filled \in SUBSET Interval
        /\ Within(Filled, Out.total_pushed + 1, Out.total_poped + Capacity)
        /\ Disjoint(Filled)
    BY DEF ReceiverInv, Ordered, Tidy, Filled, Out, Output, reassembler, Receiver, Reassembler, Stream
  <2>2. \A i \in Filled : Out.total_pushed < i.first
    BY <2>1 DEF Within, Interval
  <2> QED BY <2>1, <2>2 DEF IntervalsApart, Within, Disjoint
<1> QED BY <1>1, Invariant, PTL

(* Neither the acknowledgment nor the right edge of the advertised window    *)
(* moves back: the output never shrinks, what is read makes room, and the    *)
(* clipping of the window to 16 bits cuts both edges alike.                  *)
THEOREM WindowKept == Spec => WindowNeverRetreats
<1> DEFINE Kept ==
      receiver.SYN =>
        /\ AbsoluteAckno(receiver') >= AbsoluteAckno(receiver)
        /\ Output(receiver').total_pushed + Acknowledge(receiver').window_size
             >= Out.total_pushed + Acknowledge(receiver).window_size
<1>1. ReceiverInv /\ [Next]_vars => Kept
  <2> SUFFICES ASSUME ReceiverInv, [Next]_vars PROVE Kept
    OBVIOUS
  <2>1. /\ Out'.total_pushed >= Out.total_pushed /\ Out'.total_poped >= Out.total_poped
        /\ Out.closed => Out'.closed
        /\ ReceiverInv'
    BY StepKeeps
  <2>2. /\ Out.total_pushed \in Nat /\ Out.total_poped \in Nat /\ Out.closed \in BOOLEAN
        /\ Out.capacity = Capacity
    BY DEF ReceiverInv, Out, Output, Receiver, Reassembler, Stream
  <2>3. /\ Out'.total_pushed \in Nat /\ Out'.total_poped \in Nat /\ Out'.closed \in BOOLEAN
        /\ Out'.capacity = Capacity
    BY <2>1 DEF ReceiverInv, Out, Output, Receiver, Reassembler, Stream
  <2>4. AbsoluteAckno(receiver') >= AbsoluteAckno(receiver)
    <3>1. Count(Out.closed) \in 0..1 /\ Count(Out'.closed) \in 0..1
          /\ Count(Out'.closed) >= Count(Out.closed)
      BY <2>1, <2>2, <2>3 DEF Count
    <3> DEFINE old == Out
               new == Out'
    <3>2. /\ AbsoluteAckno(receiver) = old.total_pushed + 1 + Count(old.closed)
          /\ AbsoluteAckno(receiver') = new.total_pushed + 1 + Count(new.closed)
      BY DEF AbsoluteAckno, Out
    <3> HIDE DEF old, new
    <3> QED BY <2>1, <2>2, <2>3, <3>1, <3>2 DEF old, new
  <2>5. /\ Acknowledge(receiver).window_size = Least(AvailableCapacity(Out), MAX_WINDOW)
        /\ Acknowledge(receiver').window_size = Least(AvailableCapacity(Out'), MAX_WINDOW)
    BY DEF Acknowledge, AdvertisedWindow, Out
  <2>6. Out'.total_pushed + Acknowledge(receiver').window_size
          >= Out.total_pushed + Acknowledge(receiver).window_size
    BY <2>1, <2>2, <2>3, <2>5, ReceiverAssumption, WindowAssumption DEF AvailableCapacity, Least
  <2> QED BY <2>4, <2>6 DEF Out
<1>2. ReceiverInv /\ [Next]_vars => [Kept]_vars
  BY <1>1
<1> HIDE DEF Kept
<1>3. Spec => [][Kept]_vars
  BY <1>2, Invariant, PTL DEF Spec
<1> QED BY <1>3 DEF WindowNeverRetreats, Kept
-----------------------------------------------------------------------------
(* TCPReceiver                                                               *)

(* A segment of the stream gives the Reassembler the bytes that it carries,  *)
(* at their index; one that carries none and does not end the stream may     *)
(* give it any index.                                                        *)
LEMMA SegmentData ==
  ASSUME NEW first \in 0 .. Fin + 1, NEW end \in first .. Fin + 1,
         NEW rcv \in Receiver, rcv.ISN = Isn,
         Distance(first, Output(rcv).total_pushed + 1) < HalfModulus
  PROVE  LET msg   == Segment(first, end)
             index == StreamIndex(rcv, msg)
             stop  == index + Len(msg.payload)
         IN  /\ msg \in SenderMessage /\ ~msg.RST /\ msg.seqno = Wrap(first, Isn)
             /\ msg.SYN = (first = 0 /\ end > 0) /\ msg.FIN = (first <= Fin /\ end > Fin)
             /\ index \in Nat /\ stop \in Nat /\ StreamBytes(msg.payload, index)
             /\ msg.payload # <<>> => stop <= Length
             /\ msg.FIN => stop = Length
             /\ \A k \in Int : k \in index .. stop - 1 <=>
                  first <= k + 1 /\ k + 1 < end /\ 1 <= k + 1 /\ k + 1 <= Length
<1> DEFINE from == Greatest(first, 1)
           len  == Least(end, Fin) - from
           payload == [k \in 1 .. len |-> from + k - 1]
           msg  == Segment(first, end)
           index == StreamIndex(rcv, msg)
           pushed == Output(rcv).total_pushed
<1>1. /\ Fin = Length + 1 /\ Length \in Nat /\ Fin \in Nat
      /\ first \in Nat /\ end \in Nat /\ first <= end /\ end <= Fin + 1
  BY ReceiverAssumption DEF Fin
<1>2. /\ from \in Nat /\ len \in Int /\ from >= first /\ from >= 1 /\ (first >= 1 => from = first)
      /\ (first = 0 => from = 1)
      /\ (end >= Fin => len = Fin - from) /\ (end <= Fin => len = end - from)
      /\ (len >= 1 => from + len <= Fin) /\ (len >= 1 => first <= Length)
  BY <1>1 DEF Least, Greatest
<1>3. /\ msg.payload = payload /\ msg.seqno = Wrap(first, Isn) /\ ~msg.RST
      /\ msg.SYN = (first = 0 /\ end > 0) /\ msg.FIN = (first <= Fin /\ end > Fin)
  <2> DEFINE syn == first = 0 /\ end > 0
             fin == first <= Fin /\ end > Fin
  <2>1. msg = [seqno |-> Wrap(first, Isn), SYN |-> syn, payload |-> payload,
               FIN |-> fin, RST |-> FALSE]
    BY DEF Segment
  <2> HIDE DEF msg, syn, fin, payload
  <2>2. /\ msg.payload = payload /\ msg.seqno = Wrap(first, Isn) /\ ~msg.RST
        /\ msg.SYN = syn /\ msg.FIN = fin
    BY <2>1, Zenon
  <2> QED BY <2>2 DEF syn, fin
<1>4. msg \in SenderMessage
  BY <1>1, SegmentType
<1>5. pushed \in Nat
  BY DEF Receiver, Reassembler, Output, Stream
<1>6. index = IF msg.SYN THEN 0 ELSE (first - 1) % IndexModulus
  <2>1. Isn \in Wrap32 /\ pushed + 1 \in Nat
    BY <1>5, ReceiverAssumption
  <2>2. Unwrap(Wrap(first, Isn), Isn, pushed + 1) = first
    BY <1>1, <2>1, UnwrapRoundTrip
  <2> HIDE DEF msg
  <2> QED BY <1>3, <2>2 DEF StreamIndex
<1> HIDE DEF msg, index, from, len, payload
<1>7. index \in Nat
  <2>1. \A n \in Int, d \in Nat \ {0} : n % d \in Nat
    OBVIOUS
  <2>2. first - 1 \in Int /\ IndexModulus \in Nat \ {0}
    BY <1>1, ReceiverAssumption, IndexAssumption
  <2> QED BY <1>6, <2>1, <2>2
<1>8. (len >= 1 \/ (first <= Fin /\ end > Fin)) => index = from - 1
  <2>1. ASSUME first >= 1, first <= Fin PROVE (first - 1) % IndexModulus = first - 1
    <3>1. first - 1 \in Int /\ 0 <= first - 1 /\ first - 1 < IndexModulus
          /\ IndexModulus \in Nat \ {0}
      BY <1>1, <2>1, ReceiverAssumption, IndexAssumption
    <3> QED BY <3>1, RemainderNear
  <2>2. CASE first = 0
    <3>1. (len >= 1 \/ (first <= Fin /\ end > Fin)) => end > 0
      BY <1>1, <1>2, <2>2
    <3>2. end > 0 => msg.SYN
      BY <1>3, <2>2, Zenon
    <3>3. msg.SYN => index = 0
      BY <1>6
    <3>4. from - 1 = 0
      BY <1>2, <2>2
    <3> QED BY <3>1, <3>2, <3>3, <3>4
  <2>3. CASE first # 0
    <3>1. first >= 1 /\ (len >= 1 => first <= Fin)
      BY <1>1, <1>2, <2>3
    <3>2. ~msg.SYN
      BY <1>3, <2>3, Zenon
    <3>3. index = (first - 1) % IndexModulus
      BY <1>6, <3>2
    <3> QED BY <1>2, <2>1, <3>1, <3>3
  <2> QED BY <2>2, <2>3
<1>9. /\ payload \in Seq(Byte)
      /\ Len(payload) = IF len >= 1 THEN len ELSE 0
      /\ \A k \in 1 .. len : payload[k] = from + k - 1
  <2>1. PICK n \in Nat : 1 .. len = 1 .. n /\ n = IF len >= 1 THEN len ELSE 0
    <3>1. CASE len >= 1
      BY <1>2, <3>1
    <3>2. CASE ~(len >= 1)
      <4>1. 1 .. len = 1 .. 0
        BY <1>2, <3>2
      <4> QED BY <3>2, <4>1
    <3> QED BY <3>1, <3>2
  <2>2. \A k \in 1 .. n : from + k - 1 \in Byte
    BY <1>2 DEF Byte
  <2>3. payload = [k \in 1 .. n |-> from + k - 1]
    BY <2>1 DEF payload
  <2> QED BY <2>1, <2>2, <2>3
<1> DEFINE stop == index + Len(payload)
<1>10. /\ stop \in Nat /\ StreamBytes(payload, index)
       /\ payload # <<>> => stop <= Length
       /\ (first <= Fin /\ end > Fin) => stop = Length
       /\ \A k \in Int : k \in index .. stop - 1 <=>
            first <= k + 1 /\ k + 1 < end /\ 1 <= k + 1 /\ k + 1 <= Length
  <2>1. CASE len >= 1
    <3>1. index = from - 1 /\ Len(payload) = len /\ stop = from - 1 + len
      BY <1>8, <1>9, <2>1
    <3>2. \A i \in 1 .. Len(payload) : payload[i] = index + i
      BY <1>2, <1>9, <3>1
    <3>3. /\ stop \in Nat /\ stop <= Length
          /\ (first <= Fin /\ end > Fin) => stop = Length
      BY <1>1, <1>2, <2>1, <3>1
    <3>4. \A k \in Int : k \in index .. stop - 1 <=>
            first <= k + 1 /\ k + 1 < end /\ 1 <= k + 1 /\ k + 1 <= Length
      BY <1>1, <1>2, <2>1, <3>1
    <3> HIDE DEF stop
    <3> QED BY <3>2, <3>3, <3>4 DEF StreamBytes
  <2>2. CASE ~(len >= 1)
    <3>1. Len(payload) = 0 /\ stop = index /\ payload = <<>>
      BY <1>7, <1>9, <2>2
    <3>2. StreamBytes(payload, index)
      BY <3>1 DEF StreamBytes
    <3>3. (first <= Fin /\ end > Fin) => stop = Length
      <4> SUFFICES ASSUME first <= Fin, end > Fin PROVE stop = Length
        OBVIOUS
      <4>1. len = Fin - from /\ index = from - 1
        BY <1>1, <1>2, <1>8
      <4> QED BY <1>1, <1>2, <2>2, <3>1, <4>1
    <3>4. \A k \in Int : ~(first <= k + 1 /\ k + 1 < end /\ 1 <= k + 1 /\ k + 1 <= Length)
      BY <1>1, <1>2, <2>2
    <3>5. \A k \in Int : k \notin index .. stop - 1
      BY <1>7, <3>1
    <3> HIDE DEF stop
    <3> QED BY <1>7, <3>1, <3>2, <3>3, <3>4, <3>5
  <2> QED BY <2>1, <2>2
<1> QED BY <1>3, <1>4, <1>7, <1>10 DEF msg, index
-----------------------------------------------------------------------------
(* The invariant.                                                            *)

\* What has arrived of the sequence numbers, read off the Reassembler.
Taken(r) == {0} \cup {k + 1 : k \in Known(r)} \cup (IF r.eof_received THEN {Fin} ELSE {})

StreamInv ==
  /\ ReceiverInv
  /\ Faithful(reassembler)
  /\ Known(reassembler) \subseteq 0 .. Length - 1
  /\ reassembler.eof_received => reassembler.eof_index = Length
  /\ Out.closed = (reassembler.eof_received /\ Out.total_pushed = Length)
  /\ receiver.SYN => receiver.ISN = Isn /\ arrived = Taken(reassembler)
  /\ ~receiver.SYN =>
       arrived = {} /\ Known(reassembler) = {} /\ ~reassembler.eof_received

LEMMA Assembling ==
  ASSUME NEW r \in Reassembler, NEW out \in Stream, r \in Ordered(out, 1),
         Known(r) \subseteq 0 .. Length - 1
  PROVE  Promise!Assembled(Known(r)) = r.output.total_pushed
<1> DEFINE pushed == r.output.total_pushed
           known  == Known(r)
<1>1. pushed \in 0 .. Length /\ 0 .. pushed - 1 \subseteq known /\ pushed \notin known
  BY FirstGap, ReceiverAssumption
<1> HIDE DEF pushed, known
<1>2. ASSUME NEW n \in 0 .. Length, 0 .. n - 1 \subseteq known, n \notin known
      PROVE  n = pushed
  <2>1. ~(n < pushed)
    <3>1. n < pushed => n \in 0 .. pushed - 1
      BY <1>1, <1>2
    <3> QED BY <1>1, <1>2, <3>1
  <2>2. ~(pushed < n)
    <3>1. pushed < n => pushed \in 0 .. n - 1
      BY <1>1, <1>2
    <3> QED BY <1>1, <1>2, <3>1
  <2> QED BY <1>1, <1>2, <2>1, <2>2, ReceiverAssumption
<1>3. Promise!Assembled(known) = pushed
  BY <1>1, <1>2 DEF Promise!Assembled
<1> QED BY <1>3 DEF pushed, known

(* A step of the receiver in the abstract specification.                     *)
LEMMA AbstractInsert ==
  ASSUME StreamInv, StreamInv', Out'.total_poped = Out.total_poped,
         Out'.total_pushed >= Out.total_pushed,
         NEW first \in 0 .. Length, NEW end \in first .. Length, NEW last \in BOOLEAN,
         last => end = Length,
         Known(reassembler)' = Known(reassembler) \cup ((first .. end - 1) \cap WithinCapacity(Out)),
         reassembler'.eof_received = (reassembler.eof_received \/ last)
  PROVE  Promise!Next
<1> DEFINE pushed == Out.total_pushed
           next   == Out'.total_pushed
           poped  == Out.total_poped
<1>1. /\ Out \in Stream /\ Out.total_pushed \in Nat /\ Out.total_poped \in Nat
      /\ Out.capacity = Capacity /\ Capacity \in Nat
      /\ Out.closed = (reassembler.eof_received /\ pushed = Length)
      /\ Out.closed \in BOOLEAN /\ reassembler.eof_received \in BOOLEAN
      /\ reassembler \in Ordered(Out, 1) /\ reassembler.output = Out
  BY ReceiverAssumption
     DEF StreamInv, ReceiverInv, Out, Output, reassembler, Receiver, Reassembler, Stream
<1>2. /\ Out' \in Stream /\ next \in Nat
      /\ Out'.closed = (reassembler'.eof_received /\ next = Length)
      /\ Out'.closed \in BOOLEAN /\ reassembler'.eof_received \in BOOLEAN
      /\ Out'.buffer = Bytes(Out'.total_poped, next)
      /\ reassembler' \in Reassembler /\ reassembler' \in Ordered(Out', 1)
      /\ reassembler'.output = Out' /\ Known(reassembler') \subseteq 0 .. Length - 1
  BY DEF StreamInv, ReceiverInv, Faithful, Out, Output, reassembler, Receiver, Reassembler, Stream
<1>3. Promise!Assembled(Known(reassembler')) = next
  BY <1>2, Assembling
<1>4. next \in 0 .. Length
  BY <1>2, FirstGap, ReceiverAssumption
<1>5. WithinCapacity(Out) = 0 .. poped + Capacity - 1
  <2> HIDE DEF poped
  <2>1. (poped + Capacity) - 1 = poped + Capacity - 1
    BY <1>1 DEF poped
  <2> QED BY <1>1, <2>1 DEF WithinCapacity, poped
<1>6. Known(reassembler') =
        Known(reassembler) \cup ((first .. end - 1) \cap (0 .. poped + Capacity - 1))
  BY <1>5 DEF Known
<1>7. Out'.buffer = [i \in 1 .. next - poped |-> poped + i]
  BY <1>2 DEF Bytes
<1>8. Out'.closed = (Out.closed \/ (reassembler'.eof_received /\ next = Length))
  <2>1. Out.closed => reassembler'.eof_received /\ next = Length
    <3>1. Out.closed => reassembler.eof_received /\ pushed = Length
      BY <1>1, Zenon
    <3>2. pushed = Length => next = Length
      BY <1>1, <1>4, ReceiverAssumption
    <3>3. reassembler.eof_received => reassembler'.eof_received
      BY Zenon
    <3> QED BY <3>1, <3>2, <3>3
  <2> HIDE DEF next, pushed
  <2> QED BY <1>2, <2>1, Zenon
<1> HIDE DEF pushed, next, poped
<1>9. Promise!Insert(first, end, last)
  <2>1. /\ Known(reassembler) = (0 .. Out.total_pushed - 1) \cup Pending
        /\ Known(reassembler') = (0 .. Out'.total_pushed - 1) \cup Pending'
    BY DEF Known, Cover, Pending, Filled, Out, Output, reassembler
  <2> QED BY <1>3, <1>6, <1>7, <1>8, <2>1 DEF Promise!Insert, poped, next
<1> QED BY <1>9 DEF Promise!Next

(* What arrives of the sequence numbers is what becomes known of the bytes,  *)
(* the SYN in front of them and the FIN behind.                              *)
LEMMA TakenGrows ==
  ASSUME StreamInv, NEW t, NEW first \in 0 .. Fin + 1, NEW end \in first .. Fin + 1,
         NEW fin \in BOOLEAN, fin = (first <= Fin /\ end > Fin),
         receiver.SYN \/ (first = 0 /\ end > 0),
         NEW new \in SUBSET Int,
         \A k \in Int : k \in new <=>
           first <= k + 1 /\ k + 1 < end /\ 1 <= k + 1 /\ k + 1 <= Length,
         Known(t) = Known(reassembler) \cup (new \cap WithinCapacity(Out)),
         t.eof_received = (reassembler.eof_received \/ fin)
  PROVE  arrived \cup Accepted(first, end) = Taken(t)
<1> DEFINE poped == Out.total_poped
           known == Known(reassembler)
           was   == reassembler.eof_received
           is    == t.eof_received
           Shown(S, flag) == {0} \cup {k + 1 : k \in S} \cup (IF flag THEN {Fin} ELSE {})
           reach == poped + Capacity
<1>1. /\ poped \in Nat /\ Capacity \in Nat /\ Length \in Nat /\ Fin = Length + 1
      /\ Out.capacity = Capacity /\ known \subseteq 0 .. Length - 1
      /\ first \in Nat /\ end \in Nat /\ end <= Fin + 1 /\ reach \in Nat
  <2>1. Out.total_poped \in Nat
    BY DEF StreamInv, ReceiverInv, Out, Output, Receiver, Reassembler, Stream
  <2> QED BY <2>1, ReceiverAssumption DEF StreamInv, ReceiverInv, Fin
<1>2. WithinCapacity(Out) = 0 .. reach - 1
  BY <1>1 DEF WithinCapacity
<1>3. Accepted(first, end) = (first .. end - 1) \cap ((0 .. reach) \cup {Fin})
  BY DEF Accepted
<1>4. is => was \/ fin
  BY Zenon
<1>5. was \/ fin => is
  BY Zenon
<1>6. fin <=> first <= Fin /\ end > Fin
  OBVIOUS
<1>7. \/ arrived = Shown(known, was)
      \/ arrived = {} /\ known = {} /\ ~was /\ first = 0 /\ end > 0
  <2>1. CASE receiver.SYN
    BY <2>1 DEF StreamInv, Taken
  <2>2. CASE ~receiver.SYN
    BY <2>2 DEF StreamInv
  <2> QED BY <2>1, <2>2
<1>8. Known(t) = known \cup (new \cap (0 .. reach - 1))
  BY <1>2
<1> DEFINE grown == known \cup (new \cap (0 .. reach - 1))
<1> HIDE DEF poped, known, was, is, reach
<1>9. \A S : S \subseteq 0 .. Length - 1 => \A j : \A flag \in BOOLEAN :
         j \in Shown(S, flag) <=>
           j \in 0 .. Fin /\ (j = 0 \/ (j - 1 \in S) \/ (flag /\ j = Fin))
  BY <1>1
<1>10. grown \subseteq 0 .. Length - 1
  BY <1>1
<1>11. was \in BOOLEAN /\ is \in BOOLEAN
  BY DEF StreamInv, ReceiverInv, reassembler, Receiver, Reassembler, was, is
<1>12. ASSUME NEW j PROVE j \in arrived \cup Accepted(first, end) <=> j \in Shown(grown, is)
  <2>1. j \in Accepted(first, end) <=>
          j \in 0 .. Fin /\ first <= j /\ j < end /\ (j <= reach \/ j = Fin)
    BY <1>1, <1>3
  <2>2. j \in Shown(grown, is) <=>
          j \in 0 .. Fin /\ (j = 0 \/ (j - 1 \in grown) \/ (is /\ j = Fin))
    BY <1>9, <1>10, <1>11
  <2>3. j \in arrived =>
          j \in 0 .. Fin /\ (j = 0 \/ (j - 1 \in known) \/ (was /\ j = Fin))
    BY <1>1, <1>7, <1>9, <1>11
  <2>4. (j \in 0 .. Fin /\ (j - 1 \in known \/ (was /\ j = Fin))) => j \in arrived
    BY <1>1, <1>7, <1>9, <1>11
  <2>5. 0 \in arrived \/ (first = 0 /\ end > 0)
    BY <1>1, <1>7, <1>9, <1>11
  <2>6. j \in 1 .. Length => (j - 1 \in new <=> first <= j /\ j < end)
    BY <1>1
  <2>7. j \in 1 .. Length => (j - 1 \in 0 .. reach - 1 <=> j <= reach)
    BY <1>1
  <2>8. j - 1 \in known => j \in 1 .. Length \/ j \notin Int
    BY <1>1
  <2> HIDE DEF Shown
  <2>9. CASE j \in 1 .. Length
    <3>1. j \in 0 .. Fin /\ j # 0 /\ j # Fin
      BY <1>1, <2>9
    <3>2. j \in Accepted(first, end) <=> first <= j /\ j < end /\ j <= reach
      BY <2>1, <3>1
    <3>3. j \in Shown(grown, is) <=> j - 1 \in grown
      BY <2>2, <3>1
    <3>4. j \in arrived <=> j - 1 \in known
      BY <2>3, <2>4, <3>1
    <3>5. j - 1 \in grown <=> (j - 1 \in known \/ (first <= j /\ j < end /\ j <= reach))
      BY <2>6, <2>7, <2>9
    <3> QED BY <3>2, <3>3, <3>4, <3>5
  <2>10. CASE j = 0
    <3>1. j \in Shown(grown, is)
      BY <1>1, <2>2, <2>10
    <3>2. first = 0 /\ end > 0 => j \in Accepted(first, end)
      BY <1>1, <2>1, <2>10
    <3> QED BY <2>5, <2>10, <3>1, <3>2
  <2>11. CASE j = Fin
    <3>1. j \in 0 .. Fin /\ j # 0 /\ j - 1 \notin known /\ j - 1 \notin grown
      BY <1>1, <1>10, <2>11
    <3>2. j \in Accepted(first, end) <=> fin
      BY <1>1, <1>6, <2>1, <2>11
    <3>3. j \in Shown(grown, is) <=> is
      BY <2>2, <2>11, <3>1
    <3>4. j \in arrived <=> was
      BY <2>3, <2>4, <2>11, <3>1
    <3> QED BY <1>4, <1>5, <3>2, <3>3, <3>4
  <2>12. CASE j \notin 0 .. Fin
    BY <2>1, <2>2, <2>3, <2>12
  <2>13. j \in 0 .. Fin => j \in 1 .. Length \/ j = 0 \/ j = Fin
    BY <1>1
  <2> QED BY <2>9, <2>10, <2>11, <2>12, <2>13
<1>13. arrived \cup Accepted(first, end) = Shown(grown, is)
  <2> HIDE DEF Shown, grown
  <2> QED BY <1>12
<1> QED BY <1>8, <1>13 DEF Taken, is

(* A segment of the stream in a receiver that has its SYN, or gets it.       *)
LEMMA InsertKeeps ==
  ASSUME StreamInv, ReceiverInv',
         NEW first \in 0 .. Fin + 1, NEW end \in first .. Fin + 1, Recent(first),
         NEW opened \in Receiver, opened.SYN, opened.ISN = Isn, opened.reassembler = reassembler,
         receiver.SYN \/ (first = 0 /\ end > 0),
         receiver' = [opened EXCEPT !.reassembler =
                        Insert(reassembler, StreamIndex(opened, Segment(first, end)),
                               Segment(first, end).payload, Segment(first, end).FIN)],
         arrived' = arrived \cup Accepted(first, end),
         Out'.total_pushed >= Out.total_pushed
  PROVE  StreamInv' /\ Promise!Next
<1> DEFINE msg   == Segment(first, end)
           index == StreamIndex(opened, msg)
           stop  == index + Len(msg.payload)
           new   == index .. stop - 1
           t     == Insert(reassembler, index, msg.payload, msg.FIN)
<1>1. /\ reassembler \in Reassembler /\ reassembler \in Ordered(Out, 1)
      /\ reassembler.output = Out /\ Out \in Stream /\ Out.total_pushed \in Nat
      /\ Faithful(reassembler) /\ Known(reassembler) \subseteq 0 .. Length - 1
      /\ reassembler.eof_received => reassembler.eof_index = Length
      /\ Out.closed = (reassembler.eof_received /\ Out.total_pushed = Length)
  BY DEF StreamInv, ReceiverInv, Out, Output, reassembler, Receiver, Reassembler, Stream
<1>2. Distance(first, Output(opened).total_pushed + 1) < HalfModulus
  BY DEF Recent, Out, Output, reassembler
<1>3. /\ msg \in SenderMessage /\ msg.FIN = (first <= Fin /\ end > Fin)
      /\ index \in Nat /\ stop \in Nat /\ StreamBytes(msg.payload, index)
      /\ msg.payload # <<>> => stop <= Length
      /\ msg.FIN => stop = Length
      /\ \A k \in Int : k \in new <=>
           first <= k + 1 /\ k + 1 < end /\ 1 <= k + 1 /\ k + 1 <= Length
  BY <1>2, SegmentData
<1>4. msg.payload \in Seq(Byte) /\ msg.FIN \in BOOLEAN /\ index <= stop
      /\ (msg.payload = <<>> => stop = index)
  <2>1. msg.payload \in Seq(Byte) /\ msg.FIN \in BOOLEAN
    BY <1>3 DEF SenderMessage
  <2> HIDE DEF msg, index
  <2> QED BY <1>3, <2>1
<1>5. receiver' = [opened EXCEPT !.reassembler = t]
  OBVIOUS
<1> HIDE DEF msg, index
<1>6. stop = index + Len(msg.payload)
  OBVIOUS
<1> HIDE DEF stop
<1>7. msg.payload # <<>> \/ msg.FIN => stop < IndexModulus
  BY <1>3, ReceiverAssumption, IndexAssumption
<1>8. reassembler \in Ordered(reassembler.output, 1)
  BY <1>1
<1>9. /\ Faithful(t)
      /\ Known(t) = Known(reassembler) \cup (new \cap WithinCapacity(Out))
      /\ t.eof_received = (reassembler.eof_received \/ msg.FIN)
      /\ t.eof_index = IF msg.FIN THEN stop ELSE reassembler.eof_index
      /\ t.output.closed =
           (Out.closed \/ (t.eof_received /\ t.output.total_pushed = t.eof_index))
  <2> DEFINE r    == reassembler
             data == msg.payload
             last == msg.FIN
  <2>1. /\ r \in Reassembler /\ r \in Ordered(r.output, 1) /\ Faithful(r)
        /\ index \in Nat /\ data \in Seq(Byte) /\ StreamBytes(data, index)
        /\ last \in BOOLEAN /\ stop \in Nat /\ stop = index + Len(data)
        /\ (data # <<>> \/ last => stop < IndexModulus)
    BY <1>1, <1>3, <1>4, <1>6, <1>7, <1>8
  <2>2. t = Insert(r, index, data, last)
    OBVIOUS
  <2> HIDE DEF r, data, last, t
  <2>3. /\ Faithful(t)
        /\ Known(t) = Known(r) \cup ((index .. stop - 1) \cap WithinCapacity(r.output))
        /\ t.eof_received = (r.eof_received \/ last)
        /\ t.eof_index = IF last THEN stop ELSE r.eof_index
        /\ t.output.closed =
             (r.output.closed \/ (t.eof_received /\ t.output.total_pushed = t.eof_index))
    BY <2>1, <2>2, InsertFaithful
  <2>4. r.output = Out
    BY <1>1 DEF r
  <2> QED BY <2>3, <2>4 DEF r, last
<1> HIDE DEF t
<1>10. /\ reassembler' = t /\ Out' = t.output /\ receiver'.SYN /\ receiver'.ISN = Isn
  BY <1>5 DEF Receiver, reassembler, Out, Output
<1>11. /\ t \in Reassembler /\ t \in Ordered(Out', 1) /\ Out' \in Stream
       /\ Out'.total_poped = Out.total_poped
  <2>1. t \in Ordered(Out, 1)
    BY <1>1, <1>3, <1>4, <1>8, InsertOrdered DEF t
  <2>2. reassembler' \in Ordered(Out', 1) /\ Out' \in Stream /\ reassembler' \in Reassembler
    BY DEF ReceiverInv, Receiver, Reassembler, reassembler, Out, Output
  <2> QED BY <1>10, <2>1, <2>2 DEF Ordered, Onward
<1>12. Known(t) \subseteq 0 .. Length - 1
  <2>1. \A k \in new : k \in Int /\ k \in 0 .. Length - 1
    <3> SUFFICES ASSUME NEW k \in new PROVE k \in Int /\ k \in 0 .. Length - 1
      OBVIOUS
    <3>1. k \in Int
      BY <1>3
    <3>2. 1 <= k + 1 /\ k + 1 <= Length
      BY <1>3, <3>1
    <3> QED BY <3>1, <3>2, ReceiverAssumption
  <2> HIDE DEF new
  <2> QED BY <1>1, <1>9, <2>1
<1>13. t.eof_received => t.eof_index = Length
  <2>1. CASE msg.FIN
    BY <1>3, <1>9, <2>1
  <2>2. CASE ~msg.FIN
    <3>1. t.eof_received => reassembler.eof_received
      BY <1>9, <2>2, Zenon
    <3> QED BY <1>1, <1>9, <2>2, <3>1
  <2> QED BY <2>1, <2>2
<1>14. Out'.closed = (t.eof_received /\ Out'.total_pushed = Length)
  <2>1. Out'.total_pushed \in 0 .. Length
    BY <1>10, <1>11, <1>12, FirstGap, ReceiverAssumption
  <2>2. Out.closed => t.eof_received /\ Out'.total_pushed = Length
    <3>1. Out.closed => reassembler.eof_received /\ Out.total_pushed = Length
      BY <1>1, Zenon
    <3>2. Out.total_pushed = Length => Out'.total_pushed = Length
      BY <1>1, <2>1, ReceiverAssumption, IndexAssumption
    <3>3. reassembler.eof_received => t.eof_received
      BY <1>9, Zenon
    <3> QED BY <3>1, <3>2, <3>3
  <2>3. t.eof_received /\ Out'.total_pushed = t.eof_index <=>
          t.eof_received /\ Out'.total_pushed = Length
    BY <1>13
  <2>4. Out'.closed = (Out.closed \/ (t.eof_received /\ Out'.total_pushed = t.eof_index))
    BY <1>9, <1>10
  <2> QED BY <2>2, <2>3, <2>4, Zenon
<1>15. arrived' = Taken(t)
  <2>1. new \in SUBSET Int
    BY <1>3
  <2> HIDE DEF new
  <2> QED BY <1>3, <1>4, <1>9, <2>1, TakenGrows
<1>16. StreamInv'
  <2>1. Taken(reassembler)' = Taken(t)
    BY <1>10 DEF Taken, Known
  <2>2. Faithful(reassembler)' /\ Known(reassembler)' = Known(t)
    BY <1>9, <1>10 DEF Faithful, Known, RingHolds, Slot
  <2>3. reassembler'.eof_received => reassembler'.eof_index = Length
    BY <1>10, <1>13
  <2>4. Out'.closed = (reassembler'.eof_received /\ Out'.total_pushed = Length)
    BY <1>10, <1>14
  <2> QED BY <1>10, <1>12, <1>15, <2>1, <2>2, <2>3, <2>4 DEF StreamInv
<1>17. Promise!Next
  <2>1. Known(reassembler)' = Known(reassembler) \cup (new \cap WithinCapacity(Out))
    BY <1>9, <1>10 DEF Known
  <2>2. reassembler'.eof_received = (reassembler.eof_received \/ msg.FIN)
    BY <1>9, <1>10
  <2>3. CASE msg.payload # <<>> \/ msg.FIN
    <3>1. stop <= Length
      BY <1>3, <2>3, ReceiverAssumption
    <3>2. index \in 0 .. Length /\ stop \in index .. Length
      BY <1>3, <1>4, <3>1, ReceiverAssumption
    <3>3. msg.FIN => stop = Length
      BY <1>3
    <3> QED BY <1>4, <1>11, <1>16, <2>1, <2>2, <3>2, <3>3, AbstractInsert
  <2>4. CASE ~(msg.payload # <<>> \/ msg.FIN)
    <3>1. new = 0 .. 0 - 1 /\ 0 \in 0 .. Length /\ 0 \in 0 .. Length
      BY <1>3, <1>4, <2>4, ReceiverAssumption
    <3>2. Known(reassembler)' = Known(reassembler) \cup ((0 .. 0 - 1) \cap WithinCapacity(Out))
      BY <2>1, <3>1
    <3>3. reassembler'.eof_received = (reassembler.eof_received \/ FALSE)
      BY <2>2, <2>4, Zenon
    <3> QED BY <1>11, <1>16, <3>1, <3>2, <3>3, AbstractInsert
  <2> QED BY <2>3, <2>4
<1> QED BY <1>16, <1>17

\* A keep-alive is as good as a segment without a payload: its octet lies below
\* what is written, or, in the place of the SYN, ends at index 0.
LEMMA KeepAliveIsEmpty ==
  ASSUME StreamInv, KeepAliveArrives
  PROVE  SegmentArrives
<1>1. PICK first \in 0 .. Length :
        /\ first <= Out.total_pushed /\ Recent(first)
        /\ receiver' = ReceiveSegment(receiver, KeepAlive(first))
  BY DEF KeepAliveArrives
<1>2. /\ first \in Nat /\ first < IndexModulus /\ first <= Fin
      /\ IndexModulus \in Nat \ {0} /\ first \in 0 .. Fin + 1 /\ first \in first .. Fin + 1
  BY ReceiverAssumption, IndexAssumption DEF Fin
<1> DEFINE none == Segment(first, first)
<1>3. none = [seqno |-> Wrap(first, Isn), SYN |-> FALSE, payload |-> <<>>, FIN |-> FALSE,
              RST |-> FALSE]
  <2>1. Least(first, Fin) - Greatest(first, 1) <= 0
        /\ Least(first, Fin) - Greatest(first, 1) \in Int
    BY <1>2, ReceiverAssumption DEF Least, Greatest, Fin
  <2>2. 1 .. Least(first, Fin) - Greatest(first, 1) = {}
    BY <2>1
  <2>3. [k \in 1 .. Least(first, Fin) - Greatest(first, 1) |-> Greatest(first, 1) + k - 1] = <<>>
    BY <2>2
  <2>4. (first = 0 /\ first > 0) = FALSE /\ (first <= Fin /\ first > Fin) = FALSE
    BY <1>2, ReceiverAssumption DEF Fin
  <2> QED BY <2>3, <2>4, Zenon DEF Segment
<1>4. /\ receiver \in Receiver /\ reassembler \in Reassembler /\ receiver.reassembler = reassembler
      /\ Out \in Stream /\ reassembler.output = Out /\ Output(receiver) = Out
      /\ Out.total_pushed \in Nat
  BY DEF StreamInv, ReceiverInv, Out, Output, reassembler, Receiver, Reassembler, Stream
<1>5. Out.total_poped + BytesBuffered(Out) = Out.total_pushed
  BY <1>4, BytesType DEF StreamInv, Faithful, BytesBuffered, Stream
<1>6. ASSUME receiver.SYN
      PROVE  StreamIndex(receiver, KeepAlive(first)) = (first - 1) % IndexModulus
             /\ StreamIndex(receiver, none) = (first - 1) % IndexModulus
  <2>1. receiver.ISN = Isn /\ Isn \in Wrap32 /\ Out.total_pushed + 1 \in Nat
        /\ Distance(first, Out.total_pushed + 1) < HalfModulus
    BY <1>1, <1>4, <1>6, ReceiverAssumption DEF StreamInv, Recent
  <2>2. Unwrap(Wrap(first, Isn), receiver.ISN, Output(receiver).total_pushed + 1) = first
    BY <1>2, <1>4, <2>1, UnwrapRoundTrip
  <2> QED BY <1>3, <2>2 DEF StreamIndex, KeepAlive
<1> DEFINE index == (first - 1) % IndexModulus
<1>7. index \in Nat /\ (index + 1) % IndexModulus <= Out.total_pushed
  <2>1. CASE first = 0
    <3>1. index = IndexModulus - 1
      BY <1>2, <2>1
    <3> QED BY <1>2, <1>4, <3>1
  <2>2. CASE first > 0
    <3>1. index = first - 1
      BY <1>2, <2>2
    <3> QED BY <1>1, <1>2, <1>4, <2>2, <3>1
  <2> QED BY <1>2, <2>1, <2>2
<1> HIDE DEF index
<1>8. Insert(reassembler, index, <<Blank>>, FALSE) = Insert(reassembler, index, <<>>, FALSE)
  <2> DEFINE capacity == BytesBuffered(Out) + AvailableCapacity(Out)
             sized    == IF reassembler.ring = <<>> /\ capacity > 0
                         THEN InitializeRing(reassembler, capacity) ELSE reassembler
             noted    == [sized EXCEPT !.first_unassembled = Out.total_poped + BytesBuffered(Out),
                                       !.eof_received = @ \/ FALSE,
                                       !.eof_index    = @]
  <2>1. sized \in [output : {Out}, first_unassembled : Nat, eof_index : Nat, eof_received : BOOLEAN,
                   ring : {sized.ring}, front_pos : Nat, filled : {sized.filled}, pending_bytes : Int]
    BY <1>4 DEF InitializeRing, Reassembler
  <2> HIDE DEF sized
  <2>2. noted.first_unassembled = Out.total_pushed
    BY <1>5, <2>1
  <2> HIDE DEF noted
  <2>3. Insert(reassembler, index, <<>>, FALSE) = FlushContiguous(noted)
    BY <1>4, Zenon DEF Insert, noted, sized
  <2>4. Insert(reassembler, index, <<Blank>>, FALSE) = FlushContiguous(noted)
    <3>1. Len(<<Blank>>) = 1
      OBVIOUS
    <3>2. (index + Len(<<Blank>>)) % IndexModulus <= noted.first_unassembled
      BY <1>7, <2>2, <3>1
    <3> QED BY <1>4, <3>2, Zenon DEF Insert, noted, sized
  <2> QED BY <2>3, <2>4
<1>9. ReceiveSegment(receiver, KeepAlive(first)) = ReceiveSegment(receiver, none)
  <2>1. /\ ~KeepAlive(first).SYN /\ ~KeepAlive(first).RST /\ ~KeepAlive(first).FIN
        /\ KeepAlive(first).payload = <<Blank>>
        /\ ~none.SYN /\ ~none.RST /\ ~none.FIN /\ none.payload = <<>>
    BY <1>3 DEF KeepAlive
  <2>2. KeepAlive(first).FIN = FALSE /\ none.FIN = FALSE
    BY <1>3 DEF KeepAlive
  <2> HIDE DEF none
  <2>3. CASE ~receiver.SYN
    BY <2>1, <2>3 DEF ReceiveSegment
  <2>4. CASE receiver.SYN
    <3>1. /\ ReceiveSegment(receiver, KeepAlive(first)) =
               [receiver EXCEPT !.reassembler = Insert(reassembler, index, <<Blank>>, FALSE)]
          /\ ReceiveSegment(receiver, none) =
               [receiver EXCEPT !.reassembler = Insert(reassembler, index, <<>>, FALSE)]
      BY <1>4, <1>6, <2>1, <2>2, <2>4 DEF ReceiveSegment, index
    <3> QED BY <1>8, <3>1
  <2> QED BY <2>3, <2>4
<1>10. arrived' = arrived \cup (IF receiver'.SYN THEN Accepted(first, first) ELSE {})
  <2>1. first .. first - 1 = {}
    BY <1>2
  <2>2. Accepted(first, first) = {}
    BY <2>1 DEF Accepted
  <2>3. arrived' = arrived
    BY DEF KeepAliveArrives
  <2> QED BY <2>2, <2>3
<1> HIDE DEF none
<1>11. receiver' = ReceiveSegment(receiver, Segment(first, first))
  BY <1>1, <1>9 DEF none
<1> QED BY <1>1, <1>2, <1>10, <1>11 DEF SegmentArrives

(* Every step keeps the invariant, and is one of the abstract specification  *)
(* or changes nothing that it sees.                                          *)
LEMMA StepImplements ==
  ASSUME StreamInv, [Next]_vars
  PROVE  StreamInv' /\ [Promise!Next]_(Promise!vars)
<1>1. /\ ReceiverInv /\ ReceiverInv' /\ Out'.total_pushed >= Out.total_pushed
  BY StepKeeps DEF StreamInv
<1>2. /\ receiver \in Receiver /\ reassembler \in Reassembler /\ reassembler.output = Out
      /\ Out \in Stream /\ receiver.reassembler = reassembler
      /\ Out.total_pushed \in Nat /\ Out.total_poped \in Nat
  BY <1>1 DEF ReceiverInv, Out, Output, reassembler, Receiver, Reassembler, Stream
<1>3. ASSUME receiver' = receiver PROVE UNCHANGED Promise!vars
  BY <1>3 DEF Promise!vars, Out, Output, Pending, Filled, reassembler
<1>4. ASSUME receiver' = receiver, arrived' = arrived PROVE StreamInv'
  BY <1>4 DEF StreamInv, ReceiverInv, Out, Output, reassembler
<1>5. ASSUME SegmentArrives PROVE StreamInv' /\ [Promise!Next]_(Promise!vars)
  <2>1. PICK first \in 0 .. Fin + 1 : \E end \in first .. Fin + 1 :
          /\ Recent(first)
          /\ receiver' = ReceiveSegment(receiver, Segment(first, end))
          /\ arrived'  = arrived \cup (IF receiver'.SYN THEN Accepted(first, end) ELSE {})
    BY <1>5 DEF SegmentArrives
  <2>2. PICK end \in first .. Fin + 1 :
          /\ Recent(first)
          /\ receiver' = ReceiveSegment(receiver, Segment(first, end))
          /\ arrived'  = arrived \cup (IF receiver'.SYN THEN Accepted(first, end) ELSE {})
    BY <2>1
  <2> DEFINE msg    == Segment(first, end)
             opened == IF msg.SYN /\ ~receiver.SYN
                       THEN [receiver EXCEPT !.SYN = TRUE, !.ISN = msg.seqno] ELSE receiver
  <2>3. /\ ~msg.RST /\ msg.seqno = Wrap(first, Isn) /\ msg \in SenderMessage
        /\ msg.SYN => first = 0 /\ end > 0
    <3>1. first \in Nat /\ end \in Nat
      BY ReceiverAssumption DEF Fin
    <3>2. msg \in SenderMessage
      BY <3>1, SegmentType
    <3> QED BY <3>2 DEF Segment
  <2>4. receiver' = IF ~opened.SYN THEN opened
                    ELSE [opened EXCEPT !.reassembler =
                            Insert(@, StreamIndex(opened, msg), msg.payload, msg.FIN)]
    BY <2>2, <2>3 DEF ReceiveSegment
  <2>5. /\ opened \in Receiver /\ opened.reassembler = reassembler
        /\ opened.SYN => receiver.SYN \/ msg.SYN
        /\ opened.SYN => opened.ISN = Isn
    <3>1. CASE msg.SYN /\ ~receiver.SYN
      <4>1. msg.seqno = Isn
        <5>1. Isn \in Nat /\ Isn < Modulus /\ Modulus \in Nat \ {0} /\ Isn + 0 = Isn
          BY ReceiverAssumption, ModulusAssumption DEF Wrap32
        <5>2. Isn % Modulus = Isn
          BY <5>1, RemainderNear
        <5> QED BY <2>3, <3>1, <5>1, <5>2 DEF Wrap
      <4> HIDE DEF msg
      <4>2. opened = [receiver EXCEPT !.SYN = TRUE, !.ISN = Isn]
        BY <3>1, <4>1
      <4> QED BY <1>2, <3>1, <4>2, ReceiverAssumption DEF Receiver
    <3>2. CASE ~(msg.SYN /\ ~receiver.SYN)
      <4>1. opened = receiver
        BY <3>2
      <4> HIDE DEF opened, msg
      <4> QED BY <1>2, <4>1 DEF StreamInv
    <3> QED BY <3>1, <3>2
  <2>6. CASE ~opened.SYN
    <3>1. opened = receiver
      BY <1>2, <2>6 DEF Receiver
    <3>2. receiver' = receiver /\ arrived' = arrived
      BY <2>2, <2>4, <2>6, <3>1
    <3> QED BY <1>3, <1>4, <3>2
  <2>7. CASE opened.SYN
    <3> HIDE DEF opened
    <3>1. receiver' = [opened EXCEPT !.reassembler =
                         Insert(reassembler, StreamIndex(opened, msg), msg.payload, msg.FIN)]
      BY <2>4, <2>5, <2>7
    <3>2. receiver'.SYN
      BY <2>5, <2>7, <3>1 DEF Receiver
    <3>3. arrived' = arrived \cup Accepted(first, end)
      BY <2>2, <3>2
    <3>4. receiver.SYN \/ (first = 0 /\ end > 0)
      BY <2>3, <2>5, <2>7
    <3> QED BY <1>1, <2>2, <2>5, <2>7, <3>1, <3>3, <3>4, InsertKeeps
  <2> QED BY <2>6, <2>7
<1>6. CASE ResetArrives
  <2>1. PICK first \in 0 .. Fin :
          receiver' = ReceiveSegment(receiver, [Segment(first, first) EXCEPT !.RST = TRUE])
    BY <1>6 DEF ResetArrives
  <2> DEFINE msg  == [Segment(first, first) EXCEPT !.RST = TRUE]
             next == [reassembler EXCEPT !.output = SetError(@)]
  <2>2. msg.RST /\ ~msg.SYN
    <3>1. first \in Nat
      BY ReceiverAssumption DEF Fin
    <3>2. ~Segment(first, first).SYN
      <4>1. Segment(first, first).SYN = (first = 0 /\ first > 0)
        BY Zenon DEF Segment
      <4>2. ~(first = 0 /\ first > 0)
        BY <3>1
      <4> QED BY <4>1, <4>2, Zenon
    <3>3. Segment(first, first) \in SenderMessage
      BY <3>1, SegmentType
    <3> QED BY <3>2, <3>3 DEF SenderMessage
  <2>3. receiver' = [receiver EXCEPT !.reassembler = next]
    <3>1. receiver' = [receiver EXCEPT !.reassembler.output = SetError(@)]
      BY <2>1, <2>2 DEF ReceiveSegment
    <3> QED BY <1>2, <3>1 DEF Receiver, Reassembler
  <2>4. /\ reassembler' = next /\ Out' = SetError(Out)
        /\ receiver'.SYN = receiver.SYN /\ receiver'.ISN = receiver.ISN /\ arrived' = arrived
    BY <1>2, <1>6, <2>3 DEF ResetArrives, reassembler, Out, Output, Receiver, Reassembler
  <2>5. /\ Out'.buffer = Out.buffer /\ Out'.closed = Out.closed
        /\ Out'.total_pushed = Out.total_pushed /\ Out'.total_poped = Out.total_poped
        /\ Out'.capacity = Out.capacity
    BY <1>2, <2>4 DEF SetError, Stream
  <2>6. /\ reassembler'.output = Out' /\ reassembler'.filled = reassembler.filled
        /\ reassembler'.ring = reassembler.ring /\ reassembler'.front_pos = reassembler.front_pos
        /\ reassembler'.first_unassembled = reassembler.first_unassembled
        /\ reassembler'.pending_bytes = reassembler.pending_bytes
        /\ reassembler'.eof_received = reassembler.eof_received
        /\ reassembler'.eof_index = reassembler.eof_index
    BY <1>2, <2>4 DEF Reassembler
  <2> HIDE DEF next, msg
  <2>7. /\ Faithful(reassembler)' /\ Known(reassembler)' = Known(reassembler)
        /\ Taken(reassembler)' = Taken(reassembler)
    <3>1. Faithful(reassembler)
      BY DEF StreamInv
    <3>2. Known(reassembler') = Known(reassembler)
      BY <1>2, <2>5, <2>6 DEF Known
    <3> QED BY <1>2, <2>5, <2>6, <3>1, <3>2 DEF Faithful, RingHolds, Slot, Taken
  <2>8. StreamInv'
    BY <1>1, <2>4, <2>5, <2>6, <2>7 DEF StreamInv
  <2>9. UNCHANGED Promise!vars
    BY <2>5, <2>6 DEF Promise!vars, Pending, Filled
  <2> QED BY <2>8, <2>9
<1>7. CASE DoRead
  <2>1. PICK n \in 1 .. BytesBuffered(Out) :
          receiver' = [receiver EXCEPT !.reassembler.output = PopBytes(@, n)]
    BY <1>7 DEF DoRead
  <2> DEFINE next == [reassembler EXCEPT !.output = PopBytes(Out, n)]
  <2>2. receiver' = [receiver EXCEPT !.reassembler = next]
    BY <1>2, <2>1 DEF Receiver, Reassembler
  <2>3. /\ reassembler' = next /\ Out' = PopBytes(Out, n)
        /\ receiver'.SYN = receiver.SYN /\ receiver'.ISN = receiver.ISN /\ arrived' = arrived
    BY <1>2, <1>7, <2>2 DEF DoRead, reassembler, Out, Output, Receiver, Reassembler
  <2>4. n \in Nat /\ n <= Out.total_pushed - Out.total_poped /\ n >= 1
    BY <1>2 DEF BytesBuffered
  <2>5. /\ Out'.closed = Out.closed /\ Out'.total_pushed = Out.total_pushed
        /\ Out'.total_poped = Out.total_poped + n /\ Out'.capacity = Out.capacity
        /\ Out'.buffer = SubSeq(Out.buffer, n + 1, Len(Out.buffer))
    <3>1. PopBytes(Out, n).buffer = SubSeq(Out.buffer, n + 1, Len(Out.buffer))
      BY <1>2 DEF PopBytes, Stream
    <3> QED BY <1>2, <2>3, <2>4, <3>1, PopBytesKeeps
  <2>6. /\ reassembler'.output = Out' /\ reassembler'.filled = reassembler.filled
        /\ reassembler'.ring = reassembler.ring /\ reassembler'.front_pos = reassembler.front_pos
        /\ reassembler'.first_unassembled = reassembler.first_unassembled
        /\ reassembler'.pending_bytes = reassembler.pending_bytes
        /\ reassembler'.eof_received = reassembler.eof_received
        /\ reassembler'.eof_index = reassembler.eof_index
    BY <1>2, <2>3 DEF Reassembler
  <2> HIDE DEF next
  <2>7. Out.buffer = Bytes(Out.total_poped, Out.total_pushed) /\ Faithful(reassembler)
    BY <1>2 DEF StreamInv, Faithful
  <2>8. Out'.buffer = Bytes(Out'.total_poped, Out'.total_pushed)
    <3> DEFINE p == Out.total_poped
               q == Out.total_pushed
    <3>1. /\ p \in Nat /\ q \in Nat /\ n <= q - p
          /\ Out'.total_poped = p + n /\ Out'.total_pushed = q
          /\ Out'.buffer = SubSeq(Bytes(p, q), n + 1, Len(Bytes(p, q)))
      BY <1>2, <2>4, <2>5, <2>7
    <3> HIDE DEF p, q
    <3>2. SubSeq(Bytes(p, q), n + 1, Len(Bytes(p, q))) = Bytes(p + n, q)
      BY ZenonT(60), <2>4, <3>1, BytesRest
    <3> QED BY <3>1, <3>2
  <2>9. Out'.total_poped <= Out'.total_pushed
    BY <1>2, <2>4, <2>5
  <2>10. /\ Faithful(reassembler)' /\ Known(reassembler)' = Known(reassembler)
         /\ Taken(reassembler)' = Taken(reassembler)
    <3>1. Known(reassembler') = Known(reassembler)
      BY <1>2, <2>5, <2>6 DEF Known
    <3>2. Faithful(reassembler')
      BY <1>2, <2>5, <2>6, <2>7, <2>8, <2>9 DEF Faithful, RingHolds, Slot
    <3> QED BY <2>6, <3>1, <3>2 DEF Faithful, Known, RingHolds, Slot, Taken
  <2>11. StreamInv'
    BY <1>1, <2>3, <2>5, <2>6, <2>10 DEF StreamInv
  <2>12. Promise!Pop(n)
    <3>1. Pending' = Pending
      BY <2>6 DEF Pending, Filled
    <3> QED BY <2>5, <2>6, <3>1 DEF Promise!Pop
  <2>13. n \in 1 .. Len(Out.buffer)
    <3>1. Len(Out.buffer) = Out.total_pushed - Out.total_poped
      <4>1. Out.total_poped <= Out.total_pushed
        BY <1>2, <2>7 DEF Faithful
      <4> QED BY <1>2, <2>7, <4>1, BytesType
    <3> QED BY <1>2, <2>4, <3>1
  <2> QED BY <2>11, <2>12, <2>13 DEF Promise!Next
<1>8. CASE UNCHANGED vars
  BY <1>3, <1>4, <1>8 DEF vars
<1>9. CASE KeepAliveArrives
  BY <1>5, <1>9, KeepAliveIsEmpty
<1> QED BY <1>5, <1>6, <1>7, <1>8, <1>9 DEF Next

LEMMA InitFaithful ==
  ASSUME Init
  PROVE  StreamInv /\ Promise!Init
<1>1. ReceiverInv
  BY InitHolds
<1>2. Capacity \in Nat /\ receiver = NewReceiver(Capacity) /\ arrived = {}
  BY ReceiverAssumption DEF Init
<1>3. /\ ~receiver.SYN /\ Out = NewStream(Capacity) /\ Faithful(reassembler)
      /\ Known(reassembler) = {} /\ ~reassembler.eof_received /\ reassembler.output = Out
  BY <1>2, NewReceiverFaithful DEF Out, Output, reassembler
<1>4. Out.total_poped = 0 /\ Out.buffer = <<>> /\ Out.closed = FALSE
  BY <1>3 DEF NewStream
<1>5. StreamInv
  BY <1>1, <1>2, <1>3, <1>4 DEF StreamInv
<1>6. Promise!Init
  <2>1. (0 .. Out.total_pushed - 1) \cup Pending = {}
    BY <1>3 DEF Known, Cover, Pending, Filled
  <2> QED BY <1>3, <1>4, <2>1 DEF Promise!Init
<1> QED BY <1>5, <1>6

LEMMA StreamInvariant == Spec => []StreamInv
<1>1. StreamInv /\ [Next]_vars => StreamInv'
  BY StepImplements
<1> QED BY <1>1, InitFaithful, PTL DEF Spec
-----------------------------------------------------------------------------
(* The receiver hands out what its Reassembler's comment promises: it        *)
(* implements StreamReassembly, in which a byte is in the output as soon as  *)
(* it and all before it have arrived, whatever fits within the capacity is   *)
(* remembered, and the output is closed behind the last byte.                *)
THEOREM PromiseKept == Spec => KeepsPromise
<1>1. StreamInv /\ [Next]_vars => [Promise!Next]_(Promise!vars)
  BY StepImplements
<1>2. Init => Promise!Init
  BY InitFaithful
<1> QED BY <1>1, <1>2, StreamInvariant, PTL DEF Spec, KeepsPromise, Promise!Spec

(* The count of pending bytes is the size of what the map stands for, and    *)
(* every pending byte is in its slot of the ring, however the intervals were *)
(* merged and wherever the front has moved.                                  *)
THEOREM PendingSafe == Spec => []PendingIsKept
<1>1. StreamInv => PendingIsKept
  BY DEF StreamInv, Faithful, RingHolds, Cover, PendingIsKept, Pending, Filled
<1> QED BY <1>1, StreamInvariant, PTL

(* The acknowledgment names the first sequence number that has not arrived,  *)
(* counting the SYN and, once the output is closed, the FIN.                 *)
THEOREM AckSafe == Spec => []AckIsFirstGap
<1>1. StreamInv => AckIsFirstGap
  <2> SUFFICES ASSUME StreamInv, receiver.SYN PROVE AckIsFirstGap
    BY DEF AckIsFirstGap
  <2> DEFINE pushed == Out.total_pushed
             known  == Known(reassembler)
             ack    == AbsoluteAckno(receiver)
  <2>1. /\ reassembler \in Reassembler /\ reassembler \in Ordered(Out, 1) /\ Out \in Stream
        /\ reassembler.output = Out /\ known \subseteq 0 .. Length - 1
        /\ Out.closed \in BOOLEAN /\ reassembler.eof_received \in BOOLEAN
        /\ arrived = Taken(reassembler) /\ receiver.ISN = Isn
        /\ Out.closed = (reassembler.eof_received /\ pushed = Length)
    BY DEF StreamInv, ReceiverInv, Out, Output, reassembler, Receiver, Reassembler, Stream
  <2>2. pushed \in 0 .. Length /\ 0 .. pushed - 1 \subseteq known /\ pushed \notin known
    BY <2>1, FirstGap, ReceiverAssumption
  <2>3. Fin = Length + 1 /\ Length \in Nat
    BY ReceiverAssumption DEF Fin
  <2>4. Acknowledge(receiver).ackno = Wrap(ack, Isn)
    BY <2>1 DEF Acknowledge
  <2>5. ack = pushed + 1 + Count(Out.closed)
    BY DEF AbsoluteAckno, Out
  <2>6. arrived = {0} \cup {k + 1 : k \in known}
                      \cup (IF reassembler.eof_received THEN {Fin} ELSE {})
    BY <2>1 DEF Taken
  <2> HIDE DEF pushed, known, ack
  <2>7. \A j \in 0 .. pushed : j \in arrived
    <3> SUFFICES ASSUME NEW j \in 0 .. pushed PROVE j \in arrived
      OBVIOUS
    <3>1. j = 0 \/ (j - 1 \in 0 .. pushed - 1 /\ j = (j - 1) + 1)
      BY <2>2
    <3> QED BY <2>2, <2>6, <3>1
  <2>8. \A j \in Nat : j \in arrived => j <= Fin
    BY <2>1, <2>3, <2>6
  <2>9. CASE Out.closed
    <3>1. reassembler.eof_received /\ pushed = Length /\ ack = Fin + 1
      BY <2>1, <2>2, <2>3, <2>5, <2>9 DEF Count
    <3>2. 0 .. ack - 1 \subseteq arrived
      <4>1. Fin \in arrived
        BY <2>6, <3>1
      <4>2. \A j \in 0 .. ack - 1 : j \in 0 .. pushed \/ j = Fin
        BY <2>3, <3>1
      <4> QED BY <2>7, <4>1, <4>2
    <3>3. ack \notin arrived
      BY <2>3, <2>8, <3>1
    <3> QED BY <2>4, <3>2, <3>3 DEF AckIsFirstGap, ack
  <2>10. CASE ~Out.closed
    <3>1. ack = pushed + 1 /\ ~(reassembler.eof_received /\ pushed = Length)
      BY <2>1, <2>2, <2>5, <2>10 DEF Count
    <3>2. 0 .. ack - 1 \subseteq arrived
      <4>1. \A j \in 0 .. ack - 1 : j \in 0 .. pushed
        BY <2>2, <3>1
      <4> QED BY <2>7, <4>1
    <3>3. ack \notin arrived
      <4>1. ack # 0 /\ \A k \in known : k + 1 # ack
        BY <2>1, <2>2, <3>1
      <4>2. reassembler.eof_received => ack # Fin
        BY <2>2, <2>3, <3>1
      <4> QED BY <2>6, <4>1, <4>2
    <3> QED BY <2>4, <3>2, <3>3 DEF AckIsFirstGap, ack
  <2> QED BY <2>9, <2>10
<1> QED BY <1>1, StreamInvariant, PTL
=============================================================================
