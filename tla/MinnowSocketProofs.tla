------------------------- MODULE MinnowSocketProofs -------------------------
(* The socket between its owner, its peer and the device, for every word     *)
(* size, capacity, window, timeout, initial sequence number and number of    *)
(* bytes: no byte is lost between the owner and the peer, end of file is the *)
(* end, a thread that ends by itself leaves nothing undone, and one that     *)
(* dies was cut off.                                                         *)
EXTENDS MinnowSocketSpec, TCPPeerProofs

-----------------------------------------------------------------------------
(* The other end, as a sender.                                               *)

\* A sender that has used the sequence numbers 0 .. sent - 1 for the stream of
\* the remote host, all of them acknowledged.
FarSender(sent) ==
  LET bytes == IF sent = 0 THEN 0 ELSE Least(sent - 1, RemoteBytes)
  IN  [NewSender(RemoteBytes, RemoteIsn) EXCEPT
         !.input = [capacity |-> RemoteBytes, buffer |-> <<>>, total_pushed |-> bytes,
                    total_poped |-> bytes, closed |-> sent > FinPosition, error |-> FALSE],
         !.syn_sent = sent > 0, !.fin_sent = sent > FinPosition,
         !.next_seqno = sent, !.ackno = sent]

\* The peer p and the other end r: each has heard of no more than the other has
\* sent, and there is no error of the inbound stream but after a reset.
Joined(p, r) ==
  /\ p \in Peer /\ Good(p.sender) /\ Carries(p.sender) /\ p.sender.isn = OwnIsn
  /\ p.sender.input.closed => Finished(p.sender)
  /\ r \in RemoteEnd /\ r.sent \in 0 .. FinPosition + 1
  /\ Heard(FarSender(r.sent), p.receiver)
  /\ p.sender.ackno <= r.heard /\ r.heard <= p.sender.next_seqno
  /\ Output(p.receiver).error => r.reset
-----------------------------------------------------------------------------
(* Datagrams.                                                                *)

Listening == [source |-> Nowhere, destination |-> Nowhere, listening |-> TRUE]
Away      == [source |-> Remote, destination |-> Own, listening |-> FALSE]
Met       == [source |-> Own, destination |-> Remote, listening |-> FALSE]

Segment ==
  [src_port : Ports, dst_port : Ports, seqno : Wrap32, ackno : Wrap32, data_offset : Int,
   ACK : BOOLEAN, RST : BOOLEAN, SYN : BOOLEAN, FIN : BOOLEAN,
   window_size : 0 .. MAX_WINDOW, payload : Seq(Byte), intact : BOOLEAN]

Datagram ==
  [src : Hosts, dst : Hosts, proto : {"TCP", "UDP"}, intact : BOOLEAN, segment : Segment]

\* A segment of the other end, however long ago it was sent.
OfRemote(r, msg) ==
  /\ msg \in Message /\ OfStream(FarSender(r.sent), msg.sender)
  /\ msg.receiver.ackno # NoAck => \E a \in 1 .. r.heard : msg.receiver.ackno = Wrap(a, OwnIsn)
  /\ msg.receiver.RST = msg.sender.RST /\ (msg.sender.RST => r.reset)

\* The datagrams that wait: one of the other end, or one that no adapter takes.
Expected(r, dgram) ==
  \/ LET msg == ParseSegment(dgram.segment)
     IN  dgram = WrapInIP(Away, msg) /\ OfRemote(r, msg)
  \/ \A a \in {Listening, Met} : ~(dgram.intact /\ ForUs(a, dgram))
-----------------------------------------------------------------------------
(* The inductive invariant.                                                  *)

Owner == [wrote : 0 .. OwnerBytes, read : Nat, eof : BOOLEAN,
          phase : {"open", "waiting", "waiting early", "destructing"}]

TypeOK ==
  /\ thread \in {"new", "connect", "accept", "main", "ended", "killed"}
  /\ local \in Local
  /\ adapter \in {Listening, Met} \/ thread = "new"
  /\ loop.rules \subseteq {Network, FromOwner, ToOwner}
  /\ late \in BOOLEAN
  /\ toThread \in Channel /\ toOwner \in Channel /\ inbox \in Seq(Datagram)
  /\ owner \in Owner

\* What the flags say of the outbound stream, and of the channel it comes from.
Flagged(l, in) ==
  /\ l.outbound_shutdown = l.eof /\ Outbound(l).closed = l.eof
  /\ l.eof => in.shut /\ in.data = <<>>

\* What lies in the channels of the pair.
Lying(l, in, out) ==
  /\ out.data = Bytes(owner.read, Inbound(l).total_poped)
  /\ in.data = Bytes(Outbound(l).total_pushed, owner.wrote)
  /\ owner.read <= Inbound(l).total_poped /\ Outbound(l).total_pushed <= owner.wrote

\* Only a hangup drops a rule that has something left to do.
Served ==
  /\ Network \in loop.rules
  /\ ToOwner \notin loop.rules => toOwner.shut

\* What poll() has answered still holds when a callback is called.
AnswerHolds ==
  loop.poll # NotPolled =>
    LET events  == loop.poll.events
        revents == loop.poll.revents
    IN  /\ thread # "new"
        /\ Network \in loop.rules =>
             revents[Network] \subseteq {"IN"} /\ ("IN" \in revents[Network] => inbox # <<>>)
        /\ FromOwner \in loop.rules =>
             /\ revents[FromOwner] \subseteq {"IN", "HUP"}
             /\ "IN" \in revents[FromOwner] => FromOwner \in events
             /\ FromOwner \in events => /\ RuleInterest(local, FromOwner)
                                        /\ "HUP" \in revents[FromOwner] => "IN" \in revents[FromOwner]
        /\ ToOwner \in loop.rules =>
             /\ revents[ToOwner] \subseteq {"OUT", "HUP"}
             /\ "OUT" \in revents[ToOwner] => RoomIn(toOwner) > 0
             /\ "HUP" \in revents[ToOwner] => toOwner.shut

\* Who shuts the owner's inbound direction.
Told ==
  /\ toOwner.shut /\ owner.phase # "waiting early" => Over(local) \/ thread = "ended"
  /\ owner.eof => /\ thread # "new" /\ toOwner.shut /\ toOwner.data = <<>> /\ owner.phase # "waiting early"
                  /\ Over(local) \/ AnyErrors(local.tcp)

\* A thread that ends by itself.
Through ==
  thread = "ended" =>
    /\ toThread.shut /\ toOwner.shut
    /\ ~AnyErrors(local.tcp) /\ owner.phase # "destructing" =>
         /\ local.tcp.sender.flight = 0 /\ OutboundFinished(local.tcp) /\ InboundClosed(local.tcp)
         /\ owner.phase # "waiting early" => IsFinished(Inbound(local))

IInv ==
  /\ TypeOK /\ Joined(local.tcp, remote)
  /\ \A i \in 1 .. Len(inbox) : Expected(remote, inbox[i])
  /\ Flagged(local, toThread) /\ Lying(local, toThread, toOwner)
  /\ Served /\ AnswerHolds /\ Told /\ Through /\ DiesOnlyOfCutting
-----------------------------------------------------------------------------
(* The other end, as a sender.                                               *)

\* The bounds of the streams, as the calls of the peer need them.
LEMMA Bounds ==
  /\ RemoteBytes \in Nat /\ OwnerBytes \in Nat /\ HalfModulus \in Nat /\ HalfModulus < Modulus
  /\ RemoteBytes + 2 < HalfModulus /\ OwnerBytes + 2 < HalfModulus /\ RemoteBytes < IndexModulus
  /\ FinPosition = RemoteBytes + 1 /\ OwnIsn \in Wrap32 /\ RemoteIsn \in Wrap32
<1>1. HalfModulus \in Nat /\ HalfModulus < Modulus
  BY ModulusAssumption DEF HalfModulus
<1> QED BY <1>1, SocketAssumption DEF FinPosition

\* A position of the other end is one of a sender.
LEMMA FarSenderGood ==
  ASSUME NEW sent \in 0 .. FinPosition + 1
  PROVE  LET f == FarSender(sent)
         IN  /\ Good(f) /\ f.isn = RemoteIsn /\ f.next_seqno = sent
             /\ (f.syn_sent <=> sent > 0) /\ (f.fin_sent <=> sent > FinPosition)
             /\ f.input.total_poped = (IF sent = 0 THEN 0 ELSE Least(sent - 1, RemoteBytes))
             /\ f.input.total_pushed = f.input.total_poped
             /\ f.input.total_poped \in 0 .. RemoteBytes
             /\ f.next_seqno < HalfModulus /\ f.input.total_poped < IndexModulus
<1> DEFINE f == FarSender(sent)
           bytes == IF sent = 0 THEN 0 ELSE Least(sent - 1, RemoteBytes)
           pos == [i \in 1 .. 1 |-> sent]
           syn == sent > 0
           fin == sent > FinPosition
<1>1. /\ RemoteBytes \in Nat /\ RemoteBytes + 2 < HalfModulus /\ HalfModulus \in Nat
      /\ FinPosition = RemoteBytes + 1 /\ RemoteIsn \in Wrap32 /\ RemoteBytes < IndexModulus
  BY Bounds
<1>2. /\ sent \in Nat /\ bytes \in 0 .. RemoteBytes
      /\ sent = Count(syn) + bytes + Count(fin)
      /\ syn \in BOOLEAN /\ fin \in BOOLEAN /\ (syn <=> sent > 0) /\ (fin => sent > 0)
  BY <1>1 DEF Least, Count
<1> HIDE DEF bytes, syn, fin
<1>3. f = [input |-> [capacity |-> RemoteBytes, buffer |-> <<>>, total_pushed |-> bytes,
                      total_poped |-> bytes, closed |-> fin, error |-> FALSE],
           isn |-> RemoteIsn, syn_sent |-> syn, fin_sent |-> fin,
           ackno |-> sent, next_seqno |-> sent, window_size |-> 1,
           outstanding |-> <<>>, flight |-> 0,
           time_elapsed |-> 0, current_RTO |-> INITIAL_RTO, retransmissions |-> 0,
           timer_running |-> FALSE,
           cwnd |-> INITIAL_CWND, ssthresh |-> INITIAL_SSTHRESH, dup_acks |-> 0,
           fast_retransmit |-> FALSE]
  <2> DEFINE stream == [capacity |-> RemoteBytes, buffer |-> <<>>, total_pushed |-> bytes,
                        total_poped |-> bytes, closed |-> fin, error |-> FALSE]
  <2>1. f = [NewSender(RemoteBytes, RemoteIsn) EXCEPT
               !.input = stream, !.syn_sent = syn, !.fin_sent = fin,
               !.next_seqno = sent, !.ackno = sent]
    BY DEF FarSender, bytes, syn, fin
  <2> HIDE DEF stream, f
  <2>2. f = [input |-> stream,
             isn |-> RemoteIsn, syn_sent |-> syn, fin_sent |-> fin,
             ackno |-> sent, next_seqno |-> sent, window_size |-> 1,
             outstanding |-> <<>>, flight |-> 0,
             time_elapsed |-> 0, current_RTO |-> INITIAL_RTO, retransmissions |-> 0,
             timer_running |-> FALSE,
             cwnd |-> INITIAL_CWND, ssthresh |-> INITIAL_SSTHRESH, dup_acks |-> 0,
             fast_retransmit |-> FALSE]
    BY <2>1 DEF NewSender
  <2> QED BY <2>2 DEF stream
<1> HIDE DEF f
<1>4. f.input \in Stream
  BY <1>1, <1>2, <1>3 DEF Stream
<1>5. f \in Sender
  <2>1. RemoteIsn \in Wrap32 /\ 1 \in 0 .. MAX_WINDOW /\ INITIAL_CWND \in Nat \ {0}
    BY <1>1, WindowAssumption, SenderAssumption
  <2> QED BY <1>2, <1>3, <1>4, <2>1, SenderAssumption DEF Sender
<1>6. Timer(f)
  BY <1>3, SenderAssumption DEF Timer
<1>7. Position(f)
  BY <1>1, <1>2, <1>3 DEF Position
<1>8. Window(f)
  <2>1. /\ f.cwnd = INITIAL_CWND /\ f.ssthresh = INITIAL_SSTHRESH
        /\ f.syn_sent = syn /\ f.next_seqno = sent
    BY <1>3
  <2>2. ~f.syn_sent => f.next_seqno = 0
    BY <1>2, <2>1
  <2> QED BY <2>1, <2>2, SenderAssumption DEF Window, MSS
<1>9. Layout(f, pos) /\ Settled(f, pos)
  BY <1>2, <1>3, WindowAssumption DEF Layout, Settled
<1>10. sent < HalfModulus /\ bytes < IndexModulus
  BY <1>1, <1>2, IndexAssumption
<1>11. Good(f)
  BY <1>5, <1>6, <1>7, <1>8, <1>9 DEF Good
<1>12. /\ f.isn = RemoteIsn /\ f.next_seqno = sent /\ f.syn_sent = syn /\ f.fin_sent = fin
       /\ f.input.total_poped = bytes /\ f.input.total_pushed = bytes
  BY <1>3
<1>13. (f.syn_sent <=> sent > 0) /\ (f.fin_sent <=> sent > FinPosition)
  BY <1>12 DEF syn, fin
<1> QED BY <1>2, <1>10, <1>11, <1>12, <1>13 DEF f, bytes

\* The other end goes on.
LEMMA FarSenderForward ==
  ASSUME NEW a \in 0 .. FinPosition + 1, NEW b \in 0 .. FinPosition + 1, a <= b
  PROVE  Forward(FarSender(a), FarSender(b))
<1> DEFINE f == FarSender(a)
           g == FarSender(b)
<1>1. RemoteBytes \in Nat /\ FinPosition = RemoteBytes + 1
  BY Bounds
<1>2. /\ Good(f) /\ f.isn = RemoteIsn /\ f.next_seqno = a /\ (f.fin_sent <=> a > FinPosition)
      /\ f.input.total_pushed = (IF a = 0 THEN 0 ELSE Least(a - 1, RemoteBytes))
      /\ Good(g) /\ g.isn = RemoteIsn /\ g.next_seqno = b /\ (g.fin_sent <=> b > FinPosition)
      /\ g.input.total_pushed = (IF b = 0 THEN 0 ELSE Least(b - 1, RemoteBytes))
  BY FarSenderGood
<1> HIDE DEF f, g
<1>3. g.input.total_pushed >= f.input.total_pushed /\ g.next_seqno >= f.next_seqno
  BY <1>1, <1>2 DEF Least
<1>4. f.fin_sent => g.input.total_pushed = f.input.total_pushed
  <2> SUFFICES ASSUME f.fin_sent PROVE g.input.total_pushed = f.input.total_pushed
    OBVIOUS
  <2>1. a > FinPosition /\ a \in Nat /\ b \in Nat /\ b > FinPosition
    BY <1>1, <1>2
  <2>2. f.input.total_pushed = RemoteBytes /\ g.input.total_pushed = RemoteBytes
    BY <1>1, <1>2, <2>1 DEF Least
  <2> QED BY <2>2
<1>5. Forward(f, g)
  BY <1>2, <1>3, <1>4, ForwardFromPosition
<1> QED BY <1>5 DEF f, g

\* What the other end writes is of its stream.
LEMMA RemoteSegmentSent ==
  ASSUME NEW first \in 0 .. FinPosition + 1, NEW end \in first .. FinPosition + 1,
         first > 0 \/ end <= 1, NEW rst \in BOOLEAN, remote.heard \in Nat
  PROVE  LET msg == RemoteSegment(first, end, rst)
         IN  /\ msg \in Message /\ OfStream(FarSender(end), msg.sender)
             /\ msg.receiver.ackno # NoAck => \E a \in 1 .. remote.heard : msg.receiver.ackno = Wrap(a, OwnIsn)
             /\ msg.sender.RST = rst /\ msg.receiver.RST = rst
<1> DEFINE f   == FarSender(end)
           low == Greatest(first, 1)
           len == Least(end, FinPosition) - low
           pay == [k \in 1 .. len |-> low + k - 1]
           snd == [seqno |-> Wrap(first, RemoteIsn), SYN |-> first = 0 /\ end > 0,
                   payload |-> pay, FIN |-> first <= FinPosition /\ end > FinPosition, RST |-> rst]
           rcv == [ackno |-> IF remote.heard = 0 THEN NoAck ELSE Wrap(remote.heard, OwnIsn),
                   window_size |-> MAX_WINDOW, RST |-> rst]
           msg == RemoteSegment(first, end, rst)
<1>1. /\ RemoteBytes \in Nat /\ FinPosition = RemoteBytes + 1 /\ RemoteIsn \in Wrap32 /\ OwnIsn \in Wrap32
      /\ first \in Nat /\ end \in Nat
  BY Bounds
<1>2. msg = [sender |-> snd, receiver |-> rcv]
  BY DEF RemoteSegment
<1>3. /\ Good(f) /\ f.isn = RemoteIsn /\ f.next_seqno = end /\ (f.syn_sent <=> end > 0)
      /\ (f.fin_sent <=> end > FinPosition)
      /\ f.input.total_poped = (IF end = 0 THEN 0 ELSE Least(end - 1, RemoteBytes))
  BY <1>1, FarSenderGood
<1>4. low \in Nat /\ low >= 1 /\ len \in Int /\ low = (IF first = 0 THEN 1 ELSE first)
  BY <1>1 DEF Greatest, Least
<1>5. len = (IF end <= FinPosition THEN end ELSE FinPosition) - low
  BY <1>1 DEF Least
<1> HIDE DEF f, low, len
<1>6. /\ pay \in Seq(Byte) /\ Len(pay) = (IF len < 0 THEN 0 ELSE len)
      /\ \A k \in 1 .. Len(pay) : pay[k] = low + k - 1
  <2> DEFINE n == IF len < 0 THEN 0 ELSE len
  <2>1. n \in Nat /\ 1 .. len = 1 .. n
    BY <1>4
  <2> HIDE DEF n
  <2> DEFINE g == [k \in 1 .. n |-> low + k - 1]
  <2>2. \A k \in 1 .. n : low + k - 1 \in Nat
    BY <1>4, <2>1
  <2>3. g \in Seq(Nat) /\ Len(g) = n
    BY <2>1, <2>2
  <2>4. pay = g
    BY <2>1
  <2>5. pay \in Seq(Byte) /\ Len(pay) = n
    BY <2>3, <2>4 DEF Byte
  <2> QED BY <2>1, <2>5 DEF n
<1> HIDE DEF pay
<1>7. Wrap(first, RemoteIsn) \in Wrap32 /\ (remote.heard # 0 => Wrap(remote.heard, OwnIsn) \in Wrap32)
  BY <1>1, WrapType
<1>8. snd \in SenderMessage
  BY <1>1, <1>6, <1>7 DEF SenderMessage
<1>9. rcv \in ReceiverMessage
  BY <1>7, WindowAssumption DEF ReceiverMessage
<1>10. /\ snd.seqno = Wrap(first, RemoteIsn) /\ (snd.SYN <=> first = 0 /\ end > 0) /\ snd.payload = pay
       /\ (snd.FIN <=> first <= FinPosition /\ end > FinPosition) /\ snd.RST = rst
       /\ rcv.ackno = (IF remote.heard = 0 THEN NoAck ELSE Wrap(remote.heard, OwnIsn)) /\ rcv.RST = rst
  OBVIOUS
<1> HIDE DEF snd, rcv
<1>11. OfStream(f, snd)
  <2> DEFINE last == first + Count(snd.SYN) + Len(snd.payload)
  <2>1. first \in 0 .. f.next_seqno
    BY <1>1, <1>3
  <2>2. snd.SYN => first = 0 /\ f.syn_sent
    BY <1>3, <1>10
  <2>3. snd.payload # <<>> => len > 0 /\ Len(pay) = len
    BY <1>4, <1>6, <1>10, EmptySeq
  <2>4. ~snd.SYN /\ (snd.payload # <<>> \/ snd.FIN) => first > 0
    BY <1>1, <1>4, <1>5, <1>10, <2>3
  <2>5. first + Count(snd.SYN) = (IF first = 0 /\ end = 0 THEN 0 ELSE low)
    <3>1. CASE first = 0 /\ end = 0
      BY <1>10, <3>1 DEF Count
    <3>2. CASE first = 0 /\ end # 0
      <4>1. snd.SYN
        BY <1>1, <1>10, <3>2
      <4> QED BY <1>4, <3>2, <4>1 DEF Count
    <3>3. CASE first # 0
      <4>1. ~snd.SYN
        BY <1>10, <3>3
      <4> QED BY <1>1, <1>4, <3>3, <4>1 DEF Count
    <3> QED BY <3>1, <3>2, <3>3
  <2>6. \A j \in 1 .. Len(snd.payload) : snd.payload[j] = first + Count(snd.SYN) + j - 1
    <3> SUFFICES ASSUME NEW j \in 1 .. Len(snd.payload)
                 PROVE  snd.payload[j] = first + Count(snd.SYN) + j - 1
      OBVIOUS
    <3>1. len > 0 /\ snd.payload[j] = low + j - 1
      BY <1>4, <1>6, <1>10
    <3>2. ~(first = 0 /\ end = 0)
      BY <1>1, <1>4, <1>5, <3>1
    <3> QED BY <2>5, <3>1, <3>2
  <2>7. snd.payload # <<>> => last <= f.input.total_poped + 1
    <3> SUFFICES ASSUME snd.payload # <<>> PROVE last <= f.input.total_poped + 1
      OBVIOUS
    <3>1. len > 0 /\ Len(snd.payload) = len
      BY <1>10, <2>3
    <3>2. last = low + len /\ end > 0
      BY <1>1, <1>4, <1>5, <2>5, <3>1
    <3>3. f.input.total_poped = (IF end <= FinPosition THEN end ELSE FinPosition) - 1
      BY <1>1, <1>3, <3>2 DEF Least
    <3> QED BY <1>1, <1>4, <1>5, <3>2, <3>3
  <2>8. snd.FIN => f.fin_sent /\ last = f.input.total_poped + 1
    <3> SUFFICES ASSUME snd.FIN PROVE f.fin_sent /\ last = f.input.total_poped + 1
      OBVIOUS
    <3>1. first <= FinPosition /\ end > FinPosition /\ f.fin_sent
      BY <1>3, <1>10
    <3>2. first > 0
      BY <1>1, <3>1
    <3>3. len = FinPosition - first /\ len \in Nat /\ Len(snd.payload) = len
      BY <1>1, <1>4, <1>5, <1>6, <1>10, <3>1, <3>2
    <3>4. last = FinPosition
      BY <1>1, <1>4, <2>5, <3>2, <3>3
    <3>5. f.input.total_poped = RemoteBytes
      BY <1>1, <1>3, <3>1 DEF Least
    <3> QED BY <1>1, <3>1, <3>4, <3>5
  <2> HIDE DEF last
  <2>9. /\ first \in 0 .. f.next_seqno /\ snd.seqno = Wrap(first, f.isn)
        /\ snd.SYN => first = 0 /\ f.syn_sent
        /\ ~snd.SYN /\ (snd.payload # <<>> \/ snd.FIN) => first > 0
        /\ \A j \in 1 .. Len(snd.payload) : snd.payload[j] = first + Count(snd.SYN) + j - 1
        /\ snd.payload # <<>> => last <= f.input.total_poped + 1
        /\ snd.FIN => f.fin_sent /\ last = f.input.total_poped + 1
    BY <1>3, <1>10, <2>1, <2>2, <2>4, <2>6, <2>7, <2>8
  <2> QED BY <2>9 DEF OfStream, last
<1>12. rcv.ackno # NoAck => \E a \in 1 .. remote.heard : rcv.ackno = Wrap(a, OwnIsn)
  <2> SUFFICES ASSUME rcv.ackno # NoAck PROVE \E a \in 1 .. remote.heard : rcv.ackno = Wrap(a, OwnIsn)
    OBVIOUS
  <2>1. remote.heard # 0 /\ rcv.ackno = Wrap(remote.heard, OwnIsn) /\ remote.heard \in 1 .. remote.heard
    BY <1>10
  <2> QED BY <2>1
<1> HIDE DEF msg
<1>13. msg.sender = snd /\ msg.receiver = rcv /\ msg \in Message
  BY <1>2, <1>8, <1>9 DEF Message
<1> QED BY <1>10, <1>11, <1>12, <1>13 DEF msg, f
-----------------------------------------------------------------------------
(* Datagrams.                                                                *)

\* A header says what its message says, if that has one RST.
LEMMA HeaderKeeps ==
  ASSUME NEW msg \in Message, msg.receiver.RST = msg.sender.RST, NEW a, NEW b
  PROVE  ParseSegment(SerializeSegment(a, b, msg)) = msg
<1> DEFINE seg == SerializeSegment(a, b, msg)
           snd == msg.sender
           rcv == msg.receiver
<1>1. /\ msg = [sender |-> snd, receiver |-> rcv] /\ snd \in SenderMessage /\ rcv \in ReceiverMessage
  BY DEF Message
<1>2. /\ snd = [seqno |-> snd.seqno, SYN |-> snd.SYN, payload |-> snd.payload,
                FIN |-> snd.FIN, RST |-> snd.RST]
      /\ rcv = [ackno |-> rcv.ackno, window_size |-> rcv.window_size, RST |-> rcv.RST]
      /\ snd.RST \in BOOLEAN /\ rcv.RST \in BOOLEAN
  BY <1>1 DEF SenderMessage, ReceiverMessage
<1>3. /\ seg.seqno = snd.seqno /\ seg.SYN = snd.SYN /\ seg.payload = snd.payload
      /\ seg.FIN = snd.FIN /\ seg.RST = (snd.RST \/ rcv.RST)
      /\ seg.window_size = rcv.window_size
      /\ seg.ACK = (rcv.ackno # NoAck)
      /\ seg.ackno = (IF rcv.ackno = NoAck THEN 0 ELSE rcv.ackno)
  BY DEF SerializeSegment
<1> HIDE DEF seg, snd, rcv
<1>4. seg.RST = snd.RST /\ seg.RST = rcv.RST
  BY <1>2, <1>3 DEF snd, rcv
<1>5. (IF seg.ACK THEN seg.ackno ELSE NoAck) = rcv.ackno
  BY <1>3
<1>6. ParseSegment(seg) = [sender |-> snd, receiver |-> rcv]
  BY <1>2, <1>3, <1>4, <1>5 DEF ParseSegment
<1> QED BY <1>1, <1>6 DEF seg

\* What the other end writes arrives as a datagram.
LEMMA AwayDatagram ==
  ASSUME NEW msg \in Message
  PROVE  WrapInIP(Away, msg) \in Datagram
<1> DEFINE snd == msg.sender
           rcv == msg.receiver
           ack == IF rcv.ackno = NoAck THEN 0 ELSE rcv.ackno
           seg == SerializeSegment(Away.source.port, Away.destination.port, msg)
<1>1. /\ snd.seqno \in Wrap32 /\ snd.SYN \in BOOLEAN /\ snd.payload \in Seq(Byte)
      /\ snd.FIN \in BOOLEAN /\ snd.RST \in BOOLEAN
      /\ rcv.ackno \in Wrap32 \cup {NoAck} /\ rcv.window_size \in 0 .. MAX_WINDOW /\ rcv.RST \in BOOLEAN
  BY DEF Message, SenderMessage, ReceiverMessage
<1>2. ack \in Wrap32
  BY <1>1, ModulusAssumption DEF Wrap32
<1>3. /\ Away.source.port \in Ports /\ Away.destination.port \in Ports
      /\ Away.source.host \in Hosts /\ Away.destination.host \in Hosts
      /\ HeaderWords \in Int
  BY SocketAssumption, AdapterAssumption DEF Away, Own, Remote
<1>4. seg = [src_port |-> Away.source.port, dst_port |-> Away.destination.port,
             seqno |-> snd.seqno, ackno |-> ack, data_offset |-> HeaderWords,
             ACK |-> rcv.ackno # NoAck, RST |-> snd.RST \/ rcv.RST, SYN |-> snd.SYN, FIN |-> snd.FIN,
             window_size |-> rcv.window_size, payload |-> snd.payload, intact |-> TRUE]
  BY DEF SerializeSegment
<1>5. WrapInIP(Away, msg) = [src |-> Away.source.host, dst |-> Away.destination.host, proto |-> "TCP",
                             intact |-> TRUE, segment |-> seg]
  BY DEF WrapInIP
<1> DEFINE acked == rcv.ackno # NoAck
           reset == snd.RST \/ rcv.RST
<1>6. acked \in BOOLEAN /\ reset \in BOOLEAN
  BY <1>1
<1>7. seg = [src_port |-> Away.source.port, dst_port |-> Away.destination.port,
             seqno |-> snd.seqno, ackno |-> ack, data_offset |-> HeaderWords,
             ACK |-> acked, RST |-> reset, SYN |-> snd.SYN, FIN |-> snd.FIN,
             window_size |-> rcv.window_size, payload |-> snd.payload, intact |-> TRUE]
  BY <1>4
<1> HIDE DEF seg, ack, snd, rcv, acked, reset
<1>8. seg \in Segment
  BY <1>1, <1>2, <1>3, <1>6, <1>7 DEF Segment
<1> QED BY <1>3, <1>5, <1>8 DEF Datagram

\* What the adapter makes of a datagram that may wait.
LEMMA ExpectedRead ==
  ASSUME NEW r, NEW dgram, Expected(r, dgram), NEW a \in {Listening, Met}
  PROVE  LET read == ReadDatagram(a, dgram)
         IN  /\ read.adapter \in {Listening, Met}
             /\ read.message = NoMessage \/ OfRemote(r, read.message)
<1> DEFINE read == ReadDatagram(a, dgram)
<1>1. CASE ~(dgram.intact /\ ForUs(a, dgram))
  <2>1. read = [adapter |-> a, message |-> NoMessage]
    BY <1>1 DEF ReadDatagram, UnwrapFromIP
  <2> QED BY <2>1
<1>2. CASE dgram.intact /\ ForUs(a, dgram)
  <2> DEFINE msg == ParseSegment(dgram.segment)
  <2>1. dgram = WrapInIP(Away, msg) /\ OfRemote(r, msg)
    BY <1>2 DEF Expected
  <2> HIDE DEF msg
  <2>2. read = [adapter |-> IF a.listening THEN Meets(a, dgram) ELSE a, message |-> msg]
    BY <1>2 DEF ReadDatagram, UnwrapFromIP, msg
  <2> HIDE DEF read
  <2>3. /\ dgram.src = RemoteHost /\ dgram.dst = OwnHost /\ dgram.segment.src_port = RemotePort
    BY <2>1 DEF WrapInIP, SerializeSegment, Away, Own, Remote
  <2>4. Meets(Listening, dgram) = Met
    <3>1. [Nowhere EXCEPT !.host = OwnHost] = Own
      BY DEF Nowhere, Own
    <3>2. Meets(Listening, dgram)
            = [source |-> [Nowhere EXCEPT !.host = dgram.dst],
               destination |-> [host |-> dgram.src, port |-> dgram.segment.src_port],
               listening |-> FALSE]
      BY DEF Meets, Listening
    <3> QED BY <2>3, <3>1, <3>2 DEF Met, Remote
  <2>5. Listening.listening = TRUE /\ Met.listening = FALSE
    BY DEF Listening, Met
  <2>6. read.adapter = Met
    BY <2>2, <2>4, <2>5
  <2> QED BY <2>1, <2>2, <2>6 DEF read
<1> QED BY <1>1, <1>2

\* It may wait for longer.
LEMMA ExpectedForward ==
  ASSUME NEW r \in RemoteEnd, NEW s \in RemoteEnd, r.sent \in 0 .. FinPosition + 1,
         s.sent \in r.sent .. FinPosition + 1, r.heard <= s.heard, r.reset => s.reset,
         NEW dgram, Expected(r, dgram)
  PROVE  Expected(s, dgram)
<1> DEFINE msg == ParseSegment(dgram.segment)
           f == FarSender(r.sent)
           g == FarSender(s.sent)
<1>1. CASE \A a \in {Listening, Met} : ~(dgram.intact /\ ForUs(a, dgram))
  BY <1>1 DEF Expected
<1>2. CASE ~(\A a \in {Listening, Met} : ~(dgram.intact /\ ForUs(a, dgram)))
  <2>1. dgram = WrapInIP(Away, msg) /\ OfRemote(r, msg)
    BY <1>2 DEF Expected
  <2> HIDE DEF msg
  <2>2. Good(f) /\ Good(g) /\ Forward(f, g)
    <3>1. FinPosition \in Nat
      BY Bounds
    <3>2. r.sent \in 0 .. FinPosition + 1 /\ s.sent \in 0 .. FinPosition + 1 /\ r.sent <= s.sent
      BY <3>1
    <3> QED BY <3>2, FarSenderGood, FarSenderForward
  <2>3. msg \in Message /\ msg.sender \in SenderMessage /\ OfStream(f, msg.sender)
    BY <2>1 DEF OfRemote, Message
  <2>4. OfStream(g, msg.sender)
    <3> HIDE DEF f, g
    <3> QED BY <2>2, <2>3, OfStreamForward
  <2>5. msg.receiver.ackno # NoAck => \E k \in 1 .. s.heard : msg.receiver.ackno = Wrap(k, OwnIsn)
    <3>1. r.heard \in Nat /\ s.heard \in Nat
      BY DEF RemoteEnd
    <3>2. \A k \in 1 .. r.heard : k \in 1 .. s.heard
      BY <3>1
    <3> QED BY <2>1, <3>2 DEF OfRemote
  <2>6. OfRemote(s, msg)
    BY <2>1, <2>3, <2>4, <2>5 DEF OfRemote
  <2> QED BY <2>1, <2>6 DEF Expected, msg
<1> QED BY <1>1, <1>2

\* A datagram that the other end writes.
LEMMA SegmentExpected ==
  ASSUME NEW first \in 0 .. FinPosition + 1, NEW end \in first .. FinPosition + 1,
         first > 0 \/ end <= 1, NEW rst \in BOOLEAN, remote.heard \in Nat,
         NEW r, r.sent = end, r.heard = remote.heard, r.reset = rst
  PROVE  Expected(r, WrapInIP(Away, RemoteSegment(first, end, rst)))
<1> DEFINE msg == RemoteSegment(first, end, rst)
           dgram == WrapInIP(Away, msg)
<1>1. /\ msg \in Message /\ OfStream(FarSender(end), msg.sender)
      /\ msg.receiver.ackno # NoAck => \E a \in 1 .. remote.heard : msg.receiver.ackno = Wrap(a, OwnIsn)
      /\ msg.sender.RST = rst /\ msg.receiver.RST = rst
  BY RemoteSegmentSent
<1> HIDE DEF msg
<1>2. dgram.segment = SerializeSegment(Away.source.port, Away.destination.port, msg)
  BY DEF WrapInIP
<1>3. ParseSegment(dgram.segment) = msg
  BY <1>1, <1>2, HeaderKeeps
<1>4. OfRemote(r, msg)
  BY <1>1 DEF OfRemote
<1> QED BY <1>3, <1>4 DEF Expected, msg

\* Those of others are never taken.
LEMMA StraysExpected ==
  ASSUME NEW r, NEW dgram \in Strays, local.tcp.sender.next_seqno \in Nat,
         AbsoluteAckno(local.tcp.receiver) \in Nat
  PROVE  dgram \in Datagram /\ Expected(r, dgram)
<1>1. /\ OtherHost # OwnHost /\ OtherHost # RemoteHost /\ OtherPort # OwnPort /\ OtherPort # RemotePort
      /\ HeaderWords \in Nat
  BY SocketAssumption, AdapterAssumption
<1> DEFINE sent == [sender   |-> [seqno |-> Wrap(AbsoluteAckno(local.tcp.receiver), RemoteIsn), SYN |-> FALSE,
                                  payload |-> <<OwnerBytes + RemoteBytes + 1>>, FIN |-> TRUE, RST |-> FALSE],
                    receiver |-> [ackno |-> Wrap(local.tcp.sender.next_seqno, OwnIsn),
                                  window_size |-> MAX_WINDOW, RST |-> FALSE]]
           base == WrapInIP(Away, sent)
           seg  == base.segment
<1>2. /\ base = [src |-> base.src, dst |-> base.dst, proto |-> base.proto, intact |-> base.intact,
                 segment |-> seg]
      /\ seg = [src_port |-> seg.src_port, dst_port |-> seg.dst_port, seqno |-> seg.seqno,
                ackno |-> seg.ackno, data_offset |-> seg.data_offset, ACK |-> seg.ACK, RST |-> seg.RST,
                SYN |-> seg.SYN, FIN |-> seg.FIN, window_size |-> seg.window_size,
                payload |-> seg.payload, intact |-> seg.intact]
      /\ seg.SYN = FALSE
  BY DEF WrapInIP, SerializeSegment
<1>3. dgram \in {[base EXCEPT !.src = OtherHost], [base EXCEPT !.src = OtherHost, !.segment.RST = TRUE],
                 [base EXCEPT !.dst = OtherHost], [base EXCEPT !.proto = "UDP"], [base EXCEPT !.intact = FALSE],
                 [base EXCEPT !.segment.src_port = OtherPort], [base EXCEPT !.segment.dst_port = OtherPort],
                 [base EXCEPT !.segment.intact = FALSE], [base EXCEPT !.segment.data_offset = HeaderWords - 1]}
  BY DEF Strays, Away
<1> HIDE DEF base
<1>4. /\ dgram.segment.SYN = FALSE
      /\ \/ dgram.src = OtherHost \/ dgram.dst = OtherHost \/ dgram.proto = "UDP" \/ dgram.intact = FALSE
         \/ dgram.segment.src_port = OtherPort \/ dgram.segment.dst_port = OtherPort
         \/ dgram.segment.intact = FALSE \/ dgram.segment.data_offset = HeaderWords - 1
  BY <1>2, <1>3
<1>5. ~ForUs(Listening, dgram)
  BY <1>4 DEF ForUs, Listening
<1>6. ~(dgram.intact /\ ForUs(Met, dgram))
  BY <1>1, <1>4 DEF ForUs, Parses, Met, Own, Remote
<1>7. sent \in Message
  <2> DEFINE snd == sent.sender
             rcv == sent.receiver
  <2>1. RemoteIsn \in Wrap32 /\ OwnIsn \in Wrap32 /\ RemoteBytes \in Nat /\ OwnerBytes \in Nat
    BY Bounds
  <2>2. /\ Wrap(AbsoluteAckno(local.tcp.receiver), RemoteIsn) \in Wrap32
        /\ Wrap(local.tcp.sender.next_seqno, OwnIsn) \in Wrap32
    BY <2>1, WrapType
  <2>3. <<OwnerBytes + RemoteBytes + 1>> \in Seq(Byte) /\ MAX_WINDOW \in 0 .. MAX_WINDOW
    BY <2>1, WindowAssumption DEF Byte
  <2>4. snd \in SenderMessage /\ rcv \in ReceiverMessage
    BY <2>2, <2>3 DEF SenderMessage, ReceiverMessage
  <2> QED BY <2>4 DEF Message
<1> HIDE DEF sent
<1>8. base \in Datagram
  BY <1>7, AwayDatagram DEF base
<1>9. OtherHost \in Hosts /\ OtherPort \in Ports /\ HeaderWords - 1 \in Int
  BY <1>1, SocketAssumption
<1> HIDE DEF seg
<1>10. ASSUME NEW d \in Datagram
       PROVE  /\ [d EXCEPT !.src = OtherHost] \in Datagram /\ [d EXCEPT !.dst = OtherHost] \in Datagram
              /\ [d EXCEPT !.proto = "UDP"] \in Datagram /\ [d EXCEPT !.intact = FALSE] \in Datagram
              /\ [d EXCEPT !.segment.RST = TRUE] \in Datagram
              /\ [d EXCEPT !.segment.src_port = OtherPort] \in Datagram
              /\ [d EXCEPT !.segment.dst_port = OtherPort] \in Datagram
              /\ [d EXCEPT !.segment.intact = FALSE] \in Datagram
              /\ [d EXCEPT !.segment.data_offset = HeaderWords - 1] \in Datagram
  BY <1>9 DEF Datagram, Segment
<1>11. [base EXCEPT !.src = OtherHost, !.segment.RST = TRUE] \in Datagram
  BY <1>8, <1>9 DEF Datagram, Segment
<1>12. dgram \in Datagram
  BY <1>3, <1>8, <1>10, <1>11
<1> QED BY <1>5, <1>6, <1>12 DEF Expected
-----------------------------------------------------------------------------
(* What the other end hears.                                                 *)

\* The other end r, and s, which has heard more of the sender snd.
Heeds(r, s, snd) ==
  /\ s \in RemoteEnd /\ s.sent = r.sent /\ s.acked = r.acked
  /\ r.heard <= s.heard /\ s.heard <= snd.next_seqno /\ (r.reset => s.reset)

LEMMA HearOne ==
  ASSUME NEW snd, Good(snd), snd.isn = OwnIsn, snd.next_seqno < HalfModulus,
         NEW r \in RemoteEnd, r.heard <= snd.next_seqno,
         NEW msg \in Message, OfStream(snd, msg.sender), NEW from
  PROVE  Heeds(r, Hear(r, WrapInIP(from, msg)), snd)
<1> DEFINE dgram == WrapInIP(from, msg)
           seg   == dgram.segment
           start == (seg.seqno - OwnIsn) % Modulus
           end   == start + Count(seg.SYN) + Len(seg.payload) + Count(seg.FIN)
           next  == Hear(r, dgram)
           m     == msg.sender
<1>1. /\ seg.seqno = m.seqno /\ seg.SYN = m.SYN /\ seg.payload = m.payload /\ seg.FIN = m.FIN
      /\ seg.RST = (m.RST \/ msg.receiver.RST)
  BY DEF WrapInIP, SerializeSegment
<1>2. /\ m \in SenderMessage /\ m.SYN \in BOOLEAN /\ m.FIN \in BOOLEAN /\ m.RST \in BOOLEAN
      /\ m.payload \in Seq(Byte) /\ msg.receiver.RST \in BOOLEAN
  BY DEF Message, SenderMessage, ReceiverMessage
<1>3. /\ r.heard \in Nat /\ r.reset \in BOOLEAN /\ r.sent \in Nat /\ r.acked \in Nat
      /\ r = [heard |-> r.heard, sent |-> r.sent, acked |-> r.acked, reset |-> r.reset]
  BY DEF RemoteEnd
<1>4. HalfModulus \in Nat /\ HalfModulus < Modulus /\ Modulus \in Nat \ {0} /\ OwnIsn \in Wrap32
  BY Bounds, ModulusAssumption
<1>5. /\ snd.next_seqno \in Nat /\ snd.syn_sent \in BOOLEAN /\ snd.fin_sent \in BOOLEAN
      /\ snd.input.total_poped \in Nat
      /\ ~snd.syn_sent => snd.next_seqno = 0 /\ snd.input.total_poped = 0
      /\ ~snd.syn_sent => ~snd.fin_sent
      /\ snd.syn_sent /\ ~snd.fin_sent => snd.next_seqno = 1 + snd.input.total_poped
      /\ snd.fin_sent => snd.next_seqno = 2 + snd.input.total_poped
  BY GoodCounters
<1> HIDE DEF m
<1>6. PICK p \in 0 .. snd.next_seqno :
        /\ m.seqno = Wrap(p, snd.isn)
        /\ m.SYN => p = 0 /\ snd.syn_sent
        /\ ~m.SYN /\ (m.payload # <<>> \/ m.FIN) => p > 0
        /\ m.payload # <<>> => p + Count(m.SYN) + Len(m.payload) <= snd.input.total_poped + 1
        /\ m.FIN => snd.fin_sent /\ p + Count(m.SYN) + Len(m.payload) = snd.input.total_poped + 1
  BY DEF OfStream, m
<1>7. start = p
  <2>1. p \in Nat /\ p < Modulus
    BY <1>4, <1>5
  <2>2. start = p % Modulus
    BY <1>1, <1>4, <1>6, <2>1, WrapOffset
  <2>3. p \in Wrap32 /\ p = 0 * Modulus + p
    BY <1>4, <2>1 DEF Wrap32
  <2> QED BY <2>1, <2>2, <2>3, ModUnique
<1>8. end \in Nat /\ end <= snd.next_seqno
  <2> DEFINE len == Len(m.payload)
             syn == Count(m.SYN)
             fin == Count(m.FIN)
  <2>1. len \in Nat /\ (m.payload = <<>> => len = 0)
    BY <1>2
  <2>2. syn \in 0 .. 1 /\ fin \in 0 .. 1 /\ (m.SYN <=> syn = 1) /\ (m.FIN <=> fin = 1)
    BY <1>2 DEF Count
  <2>3. end = p + syn + len + fin
    BY <1>1, <1>7
  <2> HIDE DEF len, syn, fin, end
  <2>4. /\ m.payload # <<>> => p + syn + len <= snd.input.total_poped + 1
        /\ m.FIN => snd.fin_sent /\ p + syn + len = snd.input.total_poped + 1
    BY <1>6 DEF len, syn
  <2>5. p \in Nat /\ p <= snd.next_seqno /\ end \in Nat
    BY <1>5, <2>1, <2>2, <2>3
  <2>6. CASE m.FIN
    BY <1>5, <2>1, <2>2, <2>3, <2>4, <2>5, <2>6
  <2>7. CASE ~m.FIN /\ m.payload # <<>>
    <3>1. snd.syn_sent
      BY <1>5, <1>6, <2>5, <2>7
    <3> QED BY <1>5, <2>1, <2>2, <2>3, <2>4, <2>5, <2>7, <3>1
  <2>8. CASE ~m.FIN /\ m.payload = <<>>
    <3>1. m.SYN => p = 0 /\ snd.next_seqno >= 1
      BY <1>5, <1>6
    <3> QED BY <2>1, <2>2, <2>3, <2>5, <2>8, <3>1
  <2> QED BY <2>5, <2>6, <2>7, <2>8
<1> HIDE DEF start, end
<1>9. next = r \/ next = [r EXCEPT !.heard = IF start <= @ THEN Greatest(@, end) ELSE @,
                                   !.reset = @ \/ seg.RST]
  BY DEF Hear, start, end
<1>10. CASE next = r
  BY <1>3, <1>5, <1>10 DEF Heeds
<1>11. CASE next = [r EXCEPT !.heard = IF start <= @ THEN Greatest(@, end) ELSE @,
                            !.reset = @ \/ seg.RST]
  <2> DEFINE heard == IF start <= r.heard THEN Greatest(r.heard, end) ELSE r.heard
             reset == r.reset \/ seg.RST
  <2>1. heard \in Nat /\ r.heard <= heard /\ heard <= snd.next_seqno
    BY <1>3, <1>5, <1>8 DEF Greatest
  <2>2. reset \in BOOLEAN /\ (r.reset => reset)
    BY <1>1, <1>2, <1>3 DEF m
  <2>3. next = [r EXCEPT !.heard = heard, !.reset = reset]
    BY <1>11
  <2> HIDE DEF heard, reset, next
  <2>4. /\ next \in RemoteEnd /\ next.heard = heard /\ next.reset = reset
        /\ next.sent = r.sent /\ next.acked = r.acked
    BY <2>1, <2>2, <2>3 DEF RemoteEnd
  <2> QED BY <2>1, <2>2, <2>4 DEF Heeds, next
<1> QED BY <1>9, <1>10, <1>11

LEMMA HearAllKeeps ==
  ASSUME NEW snd, Good(snd), snd.isn = OwnIsn, snd.next_seqno < HalfModulus,
         NEW r \in RemoteEnd, r.heard <= snd.next_seqno,
         NEW out \in Seq(Message), \A i \in 1 .. Len(out) : OfStream(snd, out[i].sender), NEW from
  PROVE  Heeds(r, HearAll(r, from, out), snd)
<1> DEFINE States == [remote : RemoteEnd, out : Seq(Message)]
           Step   == [at \in States |-> HearNext(from, at)]
           start  == [remote |-> r, out |-> out]
           Inv    == {at \in States : /\ Heeds(r, at.remote, snd)
                                      /\ \A i \in 1 .. Len(at.out) : OfStream(snd, at.out[i].sender)}
<1>1. r.heard \in Nat /\ snd.next_seqno \in Nat
  BY GoodCounters DEF RemoteEnd
<1>2. start \in Inv
  BY <1>1 DEF Heeds
<1>3. ASSUME NEW at \in Inv PROVE Step[at] \in Inv
  <2>1. /\ at \in States /\ at.remote \in RemoteEnd /\ at.out \in Seq(Message)
        /\ Heeds(r, at.remote, snd) /\ \A i \in 1 .. Len(at.out) : OfStream(snd, at.out[i].sender)
    OBVIOUS
  <2>2. Step[at] = HearNext(from, at)
    BY <2>1
  <2>3. CASE at.out = <<>>
    BY <2>1, <2>2, <2>3 DEF HearNext
  <2>4. CASE at.out # <<>>
    <3> DEFINE msg  == Head(at.out)
               next == Hear(at.remote, WrapInIP(from, msg))
               rest == Tail(at.out)
    <3>1. /\ msg \in Message /\ msg = at.out[1] /\ Len(at.out) \in Nat /\ Len(at.out) >= 1
          /\ rest \in Seq(Message) /\ Len(rest) = Len(at.out) - 1
          /\ \A i \in 1 .. Len(rest) : rest[i] = at.out[i + 1]
      BY <2>1, <2>4, HeadTailProperties, EmptySeq
    <3> HIDE DEF msg, rest
    <3>2. OfStream(snd, msg.sender) /\ \A i \in 1 .. Len(rest) : OfStream(snd, rest[i].sender)
      BY <2>1, <3>1
    <3>3. at.remote.heard <= snd.next_seqno
      BY <2>1 DEF Heeds
    <3>4. Heeds(at.remote, next, snd)
      BY <2>1, <3>1, <3>2, <3>3, HearOne
    <3> HIDE DEF next
    <3>5. Heeds(r, next, snd)
      BY <1>1, <2>1, <3>4 DEF Heeds, RemoteEnd
    <3>6. Step[at] = [remote |-> next, out |-> rest]
      BY <2>2, <2>4 DEF HearNext, next, msg, rest
    <3>7. next \in RemoteEnd
      BY <3>5 DEF Heeds
    <3> HIDE DEF Step
    <3> QED BY <3>1, <3>2, <3>5, <3>6, <3>7
  <2> QED BY <2>3, <2>4
<1>4. Len(out) \in Nat
  OBVIOUS
<1> DEFINE last == Iterate(Step, start, Len(out))
<1>5. last \in Inv
  <2> HIDE DEF Inv, Step, start
  <2> QED BY <1>2, <1>3, <1>4, IterateInvariant
<1>6. HearAll(r, from, out) = last.remote
  BY DEF HearAll
<1> HIDE DEF last
<1> QED BY <1>5, <1>6
-----------------------------------------------------------------------------
(* wait_next_event.                                                          *)

LEMMA LocalParts ==
  ASSUME NEW l \in Local
  PROVE  /\ l.tcp \in Peer /\ l.tcp.sender \in Sender /\ l.tcp.receiver \in Receiver
         /\ Outbound(l) \in Stream /\ Inbound(l) \in Stream
         /\ l.eof \in BOOLEAN /\ l.outbound_shutdown \in BOOLEAN /\ l.inbound_shutdown \in BOOLEAN
BY DEF Local, Peer, Sender, Receiver, Reassembler, Outbound, Inbound, Output

\* The cancel callback of the owner's end of file changes nothing: rule 2 has
\* done it all.
LEMMA CancelDone ==
  ASSUME NEW l \in Local, NEW in, Flagged(l, in), l.eof
  PROVE  RuleOnCancel(l, FromOwner) = l
<1>1. /\ l.outbound_shutdown = TRUE /\ l.tcp.sender.input.closed = TRUE
      /\ l.tcp \in Peer /\ l.tcp.sender \in Sender /\ l.tcp.sender.input \in Stream
  BY LocalParts DEF Flagged, Outbound
<1>2. Close(l.tcp.sender.input) = l.tcp.sender.input
  BY <1>1 DEF Close, Stream
<1>3. [l.tcp EXCEPT !.sender.input = l.tcp.sender.input] = l.tcp
  BY <1>1 DEF Peer, Sender
<1>4. CloseOutbound(l) = [l EXCEPT !.tcp = [l.tcp EXCEPT !.sender.input = l.tcp.sender.input],
                                   !.outbound_shutdown = TRUE]
  BY <1>2 DEF CloseOutbound
<1>5. CloseOutbound(l) = l
  BY <1>1, <1>3, <1>4 DEF Local
<1> QED BY <1>5 DEF RuleOnCancel

\* Only end of file ends a rule.
Left(l, rules) == {r \in rules : ~(r = FromOwner /\ l.eof)}

LEMMA SetUpRuleFacts ==
  ASSUME NEW l \in Local, NEW in, Flagged(l, in), NEW rules, NEW events, NEW rule
  PROVE  Loop!SetUpRule([state |-> l, rules |-> rules, events |-> events], rule)
           = [state  |-> l, rules |-> {r \in rules : r # rule \/ ~(r = FromOwner /\ l.eof)},
              events |-> events \cup {r \in rules : r = rule /\ ~(r = FromOwner /\ l.eof)
                                                             /\ RuleInterest(l, r)}]
<1> DEFINE at == [state |-> l, rules |-> rules, events |-> events]
           done == rule = FromOwner /\ l.eof
           left == {r \in rules : r # rule \/ ~(r = FromOwner /\ l.eof)}
           asked == {r \in rules : r = rule /\ ~(r = FromOwner /\ l.eof) /\ RuleInterest(l, r)}
<1>0. Loop!Done(l, rule) <=> done
  BY DEF Loop!Done, RuleAtEof, RuleIsClosed, RuleDirection, FromOwner, ToOwner
<1>1. CASE rule \notin rules
  <2>1. left = rules /\ asked = {}
    BY <1>1
  <2> QED BY <1>1, <2>1 DEF Loop!SetUpRule
<1>2. CASE rule \in rules /\ done
  <2>1. left = rules \ {rule} /\ asked = {}
    BY <1>2
  <2>2. RuleOnCancel(l, rule) = l
    BY <1>2, CancelDone
  <2> HIDE DEF left, asked, done
  <2>3. Loop!SetUpRule(at, rule) = [state |-> l, rules |-> rules \ {rule}, events |-> events]
    BY <1>0, <1>2, <2>2 DEF Loop!SetUpRule
  <2> QED BY <2>1, <2>3 DEF left, asked
<1>3. CASE rule \in rules /\ ~done
  <2>1. left = rules
    BY <1>3
  <2>2. asked = IF RuleInterest(l, rule) THEN {rule} ELSE {}
    BY <1>3
  <2> HIDE DEF left, asked, done
  <2>3. Loop!SetUpRule(at, rule)
          = [state |-> l, rules |-> rules,
             events |-> IF RuleInterest(l, rule) THEN events \cup {rule} ELSE events]
    BY <1>0, <1>3 DEF Loop!SetUpRule
  <2>4. (IF RuleInterest(l, rule) THEN events \cup {rule} ELSE events) = events \cup asked
    BY <2>2
  <2> QED BY <2>1, <2>3, <2>4 DEF left, asked
<1>4. rule \notin rules \/ (rule \in rules /\ done) \/ (rule \in rules /\ ~done)
  OBVIOUS
<1> QED BY <1>1, <1>2, <1>3, <1>4, Zenon

LEMMA SetUpFacts ==
  ASSUME NEW l \in Local, NEW in, Flagged(l, in), NEW rules \in SUBSET {Network, FromOwner, ToOwner}
  PROVE  LET setup == Loop!SetUp(l, rules)
         IN  /\ setup.state = l /\ setup.rules = Left(l, rules)
             /\ setup.events = {r \in setup.rules : RuleInterest(l, r)}
<1> DEFINE Done(r)     == r = FromOwner /\ l.eof
           Keep(n)     == {r \in rules : r > n \/ ~Done(r)}
           Asked(n)    == {r \in rules : r <= n /\ ~Done(r) /\ RuleInterest(l, r)}
           At(n)       == [state |-> l, rules |-> Keep(n), events |-> Asked(n)]
<1>1. rules \subseteq 1 .. 4
  BY DEF Network, FromOwner, ToOwner
<1>2. At(0) = [state |-> l, rules |-> rules, events |-> {}]
  <2>1. \A r \in rules : r > 0 /\ ~(r <= 0)
    BY <1>1
  <2>2. Keep(0) = rules /\ Asked(0) = {}
    BY <2>1, Zenon
  <2> HIDE DEF Keep, Asked
  <2> QED BY <2>2
<1>3. ASSUME NEW n \in 0 .. 3 PROVE Loop!SetUpRule(At(n), n + 1) = At(n + 1)
  <2>1. /\ \A r \in rules : (r > n <=> r > n + 1 \/ r = n + 1) /\ (r <= n + 1 <=> r <= n \/ r = n + 1)
        /\ ~(n + 1 > n + 1) /\ n + 1 > n
    BY <1>1
  <2>2. Keep(n + 1) = {r \in Keep(n) : r # n + 1 \/ ~Done(r)}
    BY <2>1, Zenon
  <2>3. Asked(n + 1) = Asked(n) \cup {r \in Keep(n) : r = n + 1 /\ ~Done(r) /\ RuleInterest(l, r)}
    BY <2>1, Zenon
  <2> DEFINE left == {r \in Keep(n) : r # n + 1 \/ ~Done(r)}
             more == {r \in Keep(n) : r = n + 1 /\ ~Done(r) /\ RuleInterest(l, r)}
  <2>4. Loop!SetUpRule([state |-> l, rules |-> Keep(n), events |-> Asked(n)], n + 1)
          = [state |-> l, rules |-> left, events |-> Asked(n) \cup more]
    <3> HIDE DEF Keep, Asked
    <3> QED BY SetUpRuleFacts
  <2>5. left = Keep(n + 1) /\ Asked(n) \cup more = Asked(n + 1)
    BY <2>2, <2>3
  <2> HIDE DEF Keep, Asked, left, more
  <2> QED BY <2>4, <2>5
<1>4. Loop!SetUp(l, rules) = At(4)
  <2>1. /\ Loop!SetUpRule(At(0), 1) = At(1) /\ Loop!SetUpRule(At(1), 2) = At(2)
        /\ Loop!SetUpRule(At(2), 3) = At(3) /\ Loop!SetUpRule(At(3), 4) = At(4)
    <3> HIDE DEF At
    <3>1. /\ Loop!SetUpRule(At(0), 0 + 1) = At(0 + 1) /\ Loop!SetUpRule(At(1), 1 + 1) = At(1 + 1)
          /\ Loop!SetUpRule(At(2), 2 + 1) = At(2 + 1) /\ Loop!SetUpRule(At(3), 3 + 1) = At(3 + 1)
      BY <1>3
    <3>2. 0 + 1 = 1 /\ 1 + 1 = 2 /\ 2 + 1 = 3 /\ 3 + 1 = 4
      OBVIOUS
    <3> QED BY <3>1, <3>2
  <2> DEFINE start == [state |-> l, rules |-> rules, events |-> {}]
  <2>2. Loop!SetUp(l, rules)
          = Loop!SetUpRule(Loop!SetUpRule(Loop!SetUpRule(Loop!SetUpRule(start, 1), 2), 3), 4)
    BY DEF Loop!SetUp, Loop!MaxRules
  <2>3. start = At(0)
    BY <1>2
  <2> HIDE DEF At, start
  <2> QED BY <2>1, <2>2, <2>3
<1>5. Keep(4) = Left(l, rules)
  <2>1. \A r \in rules : ~(r > 4)
    BY <1>1
  <2> QED BY <2>1, Zenon DEF Left
<1>6. Asked(4) = {r \in Keep(4) : RuleInterest(l, r)}
  <2>1. \A r \in rules : ~(r > 4) /\ r <= 4
    BY <1>1
  <2> QED BY <2>1, Zenon
<1> HIDE DEF Keep, Asked
<1>7. At(4).state = l /\ At(4).rules = Keep(4) /\ At(4).events = Asked(4)
  OBVIOUS
<1> HIDE DEF At
<1> QED BY <1>4, <1>5, <1>6, <1>7

\* After poll(): a rule is served as it was promised, and only a hangup drops
\* one, which writes.
LEMMA PassFacts ==
  ASSUME AnswerHolds, loop.poll # NotPolled, loop.rules \subseteq {Network, FromOwner, ToOwner}
  PROVE  /\ Pass.state = local /\ Pass.rules \subseteq loop.rules
         /\ \A r \in loop.rules : r \notin Pass.rules => r = ToOwner /\ toOwner.shut
         /\ Pass.served \in {Loop!None, Network, FromOwner, ToOwner}
         /\ Pass.served = Network => inbox # <<>>
         /\ Pass.served = FromOwner => RuleInterest(local, FromOwner)
         /\ Pass.served = ToOwner => RoomIn(toOwner) > 0
<1> DEFINE events  == loop.poll.events
           revents == loop.poll.revents
           P(at, rule) == Loop!PassRule(at, rule, events, revents)
           At(rules, served) == [state |-> local, rules |-> rules, served |-> served]
<1>1. /\ Network \in loop.rules =>
           revents[Network] \subseteq {"IN"} /\ ("IN" \in revents[Network] => inbox # <<>>)
      /\ FromOwner \in loop.rules =>
           /\ revents[FromOwner] \subseteq {"IN", "HUP"}
           /\ "IN" \in revents[FromOwner] => FromOwner \in events
           /\ FromOwner \in events => /\ RuleInterest(local, FromOwner)
                                      /\ "HUP" \in revents[FromOwner] => "IN" \in revents[FromOwner]
      /\ ToOwner \in loop.rules =>
           /\ revents[ToOwner] \subseteq {"OUT", "HUP"}
           /\ "OUT" \in revents[ToOwner] => RoomIn(toOwner) > 0
           /\ "HUP" \in revents[ToOwner] => toOwner.shut
  BY DEF AnswerHolds
<1>2. Pass = P(P(P(P(At(loop.rules, 0), 1), 2), 3), 4)
  BY DEF Pass, Loop!PollPass, Loop!MaxRules, Loop!None
<1>3. ASSUME NEW rules, NEW served, served # 0, NEW rule
      PROVE  P(At(rules, served), rule) = At(rules, served)
  BY <1>3 DEF Loop!PassRule, Loop!None
<1>4. ASSUME NEW rules, NEW rule, rule \notin rules
      PROVE  P(At(rules, 0), rule) = At(rules, 0)
  BY <1>4 DEF Loop!PassRule
<1>5. ASSUME NEW rules, NEW rule \in rules, "ERR" \notin revents[rule],
             ~Loop!Defunct(rule, events, revents[rule])
      PROVE  P(At(rules, 0), rule) = At(rules, IF Loop!Ready(revents[rule]) THEN rule ELSE 0)
  <2> HIDE DEF revents, events
  <2> QED BY <1>5 DEF Loop!PassRule, Loop!None
<1>6. \/ P(At(loop.rules, 0), 1) = At(loop.rules, 0)
      \/ P(At(loop.rules, 0), 1) = At(loop.rules, 1) /\ inbox # <<>>
  <2>1. CASE 1 \notin loop.rules
    BY <1>4, <2>1
  <2>2. CASE 1 \in loop.rules
    <3>1. revents[1] \subseteq {"IN"} /\ ("IN" \in revents[1] => inbox # <<>>)
      BY <1>1, <2>2 DEF Network
    <3> HIDE DEF revents, events
    <3>2. "ERR" \notin revents[1] /\ ~Loop!Defunct(1, events, revents[1])
      BY <3>1 DEF Loop!Defunct
    <3>3. Loop!Ready(revents[1]) => inbox # <<>>
      BY <3>1 DEF Loop!Ready
    <3> QED BY <1>5, <2>2, <3>2, <3>3
  <2> QED BY <2>1, <2>2
<1>7. \/ P(At(loop.rules, 0), 2) = At(loop.rules, 0)
      \/ P(At(loop.rules, 0), 2) = At(loop.rules, 2) /\ RuleInterest(local, FromOwner)
  <2>1. CASE 2 \notin loop.rules
    BY <1>4, <2>1
  <2>2. CASE 2 \in loop.rules
    <3>1. /\ revents[2] \subseteq {"IN", "HUP"}
          /\ "IN" \in revents[2] => 2 \in events
          /\ 2 \in events => /\ RuleInterest(local, FromOwner)
                             /\ "HUP" \in revents[2] => "IN" \in revents[2]
      BY <1>1, <2>2 DEF FromOwner
    <3> HIDE DEF revents, events
    <3>2. "ERR" \notin revents[2] /\ ~Loop!Defunct(2, events, revents[2])
      BY <3>1 DEF Loop!Defunct, Loop!Ready, RuleDirection, ToOwner
    <3>3. Loop!Ready(revents[2]) => RuleInterest(local, FromOwner)
      BY <3>1 DEF Loop!Ready
    <3> QED BY <1>5, <2>2, <3>2, <3>3
  <2> QED BY <2>1, <2>2
<1>8. \/ P(At(loop.rules, 0), 3) = At(loop.rules, 0)
      \/ P(At(loop.rules, 0), 3) = At(loop.rules, 3) /\ RoomIn(toOwner) > 0
      \/ P(At(loop.rules, 0), 3) = At(loop.rules \ {3}, 0) /\ toOwner.shut
  <2>1. CASE 3 \notin loop.rules
    BY <1>4, <2>1
  <2>2. CASE 3 \in loop.rules
    <3>1. /\ revents[3] \subseteq {"OUT", "HUP"}
          /\ "OUT" \in revents[3] => RoomIn(toOwner) > 0
          /\ "HUP" \in revents[3] => toOwner.shut
      BY <1>1, <2>2 DEF ToOwner
    <3> HIDE DEF revents, events
    <3>2. "ERR" \notin revents[3]
      BY <3>1
    <3>3. CASE Loop!Defunct(3, events, revents[3])
      <4>1. toOwner.shut
        BY <3>1, <3>3 DEF Loop!Defunct
      <4>2. RuleOnCancel(local, 3) = local
        BY DEF RuleOnCancel, FromOwner
      <4>3. P(At(loop.rules, 0), 3) = At(loop.rules \ {3}, 0)
        BY <2>2, <3>2, <3>3, <4>2 DEF Loop!PassRule, Loop!None
      <4> QED BY <4>1, <4>3
    <3>4. CASE ~Loop!Defunct(3, events, revents[3])
      <4>1. Loop!Ready(revents[3]) => RoomIn(toOwner) > 0
        BY <3>1 DEF Loop!Ready
      <4> QED BY <1>5, <2>2, <3>2, <3>4, <4>1
    <3> QED BY <3>3, <3>4
  <2> QED BY <2>1, <2>2
<1>9. \A rules \in SUBSET loop.rules : P(At(rules, 0), 4) = At(rules, 0)
  <2>1. \A rules \in SUBSET loop.rules : 4 \notin rules
    BY DEF Network, FromOwner, ToOwner
  <2> QED BY <1>4, <2>1
<1> HIDE DEF P
<1>10. \/ Pass = At(loop.rules, 0)
       \/ Pass = At(loop.rules, 1) /\ inbox # <<>>
       \/ Pass = At(loop.rules, 2) /\ RuleInterest(local, FromOwner)
       \/ Pass = At(loop.rules, 3) /\ RoomIn(toOwner) > 0
       \/ Pass = At(loop.rules \ {3}, 0) /\ toOwner.shut
  <2>1. \A served \in {1, 2, 3}, rule \in {2, 3, 4} :
          P(At(loop.rules, served), rule) = At(loop.rules, served)
    <3> HIDE DEF At
    <3> QED BY <1>3
  <2>2. P(At(loop.rules, 0), 4) = At(loop.rules, 0) /\ P(At(loop.rules \ {3}, 0), 4) = At(loop.rules \ {3}, 0)
    <3> HIDE DEF At
    <3> QED BY <1>9
  <2> HIDE DEF At
  <2> QED BY <1>2, <1>6, <1>7, <1>8, <2>1, <2>2
<1>11. \A rules, served : At(rules, served).state = local /\ At(rules, served).rules = rules
                          /\ At(rules, served).served = served
  OBVIOUS
<1> HIDE DEF At
<1> QED BY <1>10, <1>11 DEF Loop!None, Network, FromOwner, ToOwner
-----------------------------------------------------------------------------
(* The calls of the peer.                                                    *)

\* The owner's bytes are counted less than half way around.
LEMMA OwnBounds ==
  ASSUME NEW snd, Good(snd), snd.input.total_pushed <= OwnerBytes
  PROVE  snd.next_seqno < HalfModulus
<1>1. /\ OwnerBytes \in Nat /\ HalfModulus \in Nat /\ OwnerBytes + 2 < HalfModulus
  BY Bounds
<1>2. /\ snd.next_seqno \in Nat /\ snd.input.total_poped \in Nat /\ snd.input.total_pushed \in Nat
      /\ snd.input.total_poped <= snd.input.total_pushed
      /\ snd.next_seqno <= 2 + snd.input.total_poped
  BY GoodCounters
<1> QED BY <1>1, <1>2

LEMMA JoinedParts ==
  ASSUME NEW p, NEW r, Joined(p, r)
  PROVE  /\ Between(p, FarSender(r.sent), r.heard) /\ Good(FarSender(r.sent))
         /\ FarSender(r.sent).next_seqno < HalfModulus
         /\ FarSender(r.sent).input.total_poped < IndexModulus
         /\ r.heard \in Nat /\ r.reset \in BOOLEAN /\ r.sent \in Nat
<1>1. r \in RemoteEnd /\ r.sent \in 0 .. FinPosition + 1
  BY DEF Joined
<1>2. r.heard \in Nat /\ r.reset \in BOOLEAN /\ r.sent \in Nat
  BY <1>1 DEF RemoteEnd
<1>3. /\ Good(FarSender(r.sent)) /\ FarSender(r.sent).next_seqno < HalfModulus
      /\ FarSender(r.sent).input.total_poped < IndexModulus
  BY <1>1, FarSenderGood
<1>4. p.sender.ackno \in Nat /\ p.sender.next_seqno \in Nat
  BY GoodCounters DEF Joined
<1>5. r.heard \in p.sender.ackno .. p.sender.next_seqno
  BY <1>2, <1>4 DEF Joined
<1> QED BY <1>2, <1>3, <1>5 DEF Joined, Between

\* The other end has heard more.
LEMMA JoinedHeeds ==
  ASSUME NEW p, NEW r, Joined(p, r), NEW s, Heeds(r, s, p.sender)
  PROVE  Joined(p, s)
<1>1. s.heard \in Nat /\ r.heard \in Nat /\ p.sender.ackno \in Nat /\ p.sender.next_seqno \in Nat
  BY GoodCounters DEF Joined, Heeds, RemoteEnd
<1> QED BY <1>1 DEF Joined, Heeds

\* A call of the peer leaves the two joined.
LEMMA CallJoins ==
  ASSUME NEW p, NEW r, Joined(p, r), NEW q, NEW out,
         Moved(p, q, out, FarSender(r.sent), r.heard),
         q.sender.input.closed => Finished(q.sender),
         Output(q.receiver).error => r.reset
  PROVE  Joined(q, r)
<1>1. /\ p.sender.next_seqno \in Nat /\ q.sender.next_seqno \in Nat /\ r.heard \in Nat
  BY JoinedParts, GoodCounters DEF Joined, Moved
<1>2. p.sender.next_seqno <= q.sender.next_seqno /\ q.sender.isn = p.sender.isn
  BY <1>1 DEF Moved, Forward
<1>3. r.heard <= p.sender.next_seqno /\ q.sender.ackno <= r.heard
  BY DEF Joined, Moved
<1> QED BY <1>1, <1>2, <1>3 DEF Joined, Moved

\* The peer l, in touch with the other end, after a call that transmitted sent.
Called(l, sent) ==
  /\ l \in Local /\ Joined(l.tcp, remote) /\ l.tcp.sender.next_seqno < HalfModulus
  /\ sent \in Seq(Message) /\ \A i \in 1 .. Len(sent) : OfStream(l.tcp.sender, sent[i].sender)

\* It is heard.
LEMMA CalledHears ==
  ASSUME NEW l, NEW sent, Called(l, sent), NEW from
  PROVE  /\ Heeds(remote, HearAll(remote, from, sent), l.tcp.sender)
         /\ Joined(l.tcp, HearAll(remote, from, sent))
<1>1. /\ Good(l.tcp.sender) /\ l.tcp.sender.isn = OwnIsn /\ remote \in RemoteEnd
      /\ remote.heard <= l.tcp.sender.next_seqno
  BY DEF Called, Joined
<1>2. Heeds(remote, HearAll(remote, from, sent), l.tcp.sender)
  BY <1>1, HearAllKeeps DEF Called
<1>3. Joined(l.tcp, HearAll(remote, from, sent))
  BY <1>2, JoinedHeeds DEF Called
<1> QED BY <1>2, <1>3

\* Another call follows.
LEMMA CalledAgain ==
  ASSUME NEW l, NEW sent, Called(l, sent), NEW q, NEW out,
         Moved(l.tcp, q, out, FarSender(remote.sent), remote.heard),
         q.sender.input.closed => Finished(q.sender),
         Output(q.receiver).error => remote.reset,
         q.sender.next_seqno < HalfModulus
  PROVE  Called([l EXCEPT !.tcp = q], sent \o out)
<1> DEFINE next == [l EXCEPT !.tcp = q]
           all  == sent \o out
<1>1. next \in Local /\ next.tcp = q
  BY DEF Called, Local, Moved
<1>2. Joined(q, remote)
  BY CallJoins DEF Called
<1>3. /\ Good(l.tcp.sender) /\ Good(q.sender) /\ Forward(l.tcp.sender, q.sender)
      /\ out \in Seq(Message) /\ sent \in Seq(Message)
      /\ \A i \in 1 .. Len(out) : OfStream(q.sender, out[i].sender)
      /\ \A i \in 1 .. Len(sent) : OfStream(l.tcp.sender, sent[i].sender)
  BY DEF Moved, Called, Joined
<1>4. /\ all \in Seq(Message) /\ Len(all) = Len(sent) + Len(out)
      /\ \A i \in 1 .. Len(all) : all[i] = IF i <= Len(sent) THEN sent[i] ELSE out[i - Len(sent)]
  BY <1>3, ConcatProperties
<1> HIDE DEF all, next
<1>5. ASSUME NEW i \in 1 .. Len(all) PROVE OfStream(q.sender, all[i].sender)
  <2>1. Len(sent) \in Nat /\ Len(out) \in Nat
    BY <1>3
  <2>2. CASE i <= Len(sent)
    <3>1. i \in 1 .. Len(sent) /\ all[i] = sent[i]
      BY <1>4, <2>1, <2>2
    <3>2. sent[i] \in Message /\ OfStream(l.tcp.sender, sent[i].sender)
      BY <1>3, <3>1
    <3>3. sent[i].sender \in SenderMessage
      BY <3>2 DEF Message
    <3> QED BY <1>3, <3>1, <3>2, <3>3, OfStreamForward
  <2>3. CASE ~(i <= Len(sent))
    <3>1. i - Len(sent) \in 1 .. Len(out) /\ all[i] = out[i - Len(sent)]
      BY <1>4, <2>1, <2>3
    <3> QED BY <1>3, <3>1
  <2> QED BY <2>2, <2>3
<1>6. Called(next, all)
  BY <1>1, <1>2, <1>4, <1>5 DEF Called
<1> QED BY <1>6 DEF next, all

\* What follows a callback that has left l, in and out.
Continued(l, in, out) ==
  /\ local' \in Local /\ Joined(local'.tcp, remote')
  /\ remote'.sent = remote.sent /\ remote.heard <= remote'.heard /\ (remote.reset => remote'.reset)
  /\ local'.eof = l.eof /\ local'.outbound_shutdown = l.outbound_shutdown
  /\ SameOwner(l.tcp.sender, local'.tcp.sender) /\ local'.tcp.receiver = l.tcp.receiver
  /\ AnyErrors(l.tcp) => AnyErrors(local'.tcp)
  /\ late' \in BOOLEAN
  /\ \/ thread' \in {"connect", "accept", "main"} /\ toThread' = in /\ toOwner' = out
     \/ /\ thread' = "ended" /\ owner.phase = "destructing"
        /\ toThread' = Shut(in) /\ toOwner' = Shut(out)

LEMMA ContinueFacts ==
  ASSUME Looping, late \in BOOLEAN, NEW l, NEW sent, NEW in, NEW out, Called(l, sent),
         l.tcp.sender.input.total_pushed <= OwnerBytes, Continue(l, sent, in, out)
  PROVE  Continued(l, in, out)
<1> DEFINE live   == Active(l.tcp)
           ticked == PeerTick(l.tcp, Count(late))
           next   == IF live THEN [l EXCEPT !.tcp = ticked.peer] ELSE l
           all    == sent \o (IF live THEN ticked.out ELSE <<>>)
<1>1. l \in Local /\ Joined(l.tcp, remote) /\ sent \in Seq(Message) /\ Good(l.tcp.sender)
  BY DEF Called, Joined
<1>2. Abort => local' = l /\ remote' = HearAll(remote, adapter', sent) /\ late' = late /\ Leave(in, out)
  BY DEF Continue
<1>3. ~Abort => /\ local' = next /\ remote' = HearAll(remote, adapter', all) /\ late' = (late /\ ~live)
                /\ IF Condition(next) THEN thread' = thread /\ toThread' = in /\ toOwner' = out
                   ELSE Leave(in, out)
  BY DEF Continue
<1>4. SameOwner(l.tcp.sender, l.tcp.sender)
  BY DEF SameOwner
<1>5. CASE Abort
  <2>1. Heeds(remote, remote', l.tcp.sender) /\ Joined(l.tcp, remote')
    BY <1>2, <1>5, CalledHears
  <2>2. \/ thread' \in {"connect", "accept", "main"} /\ toThread' = in /\ toOwner' = out
        \/ /\ thread' = "ended" /\ owner.phase = "destructing"
           /\ toThread' = Shut(in) /\ toOwner' = Shut(out)
    BY <1>2, <1>5 DEF Leave, Abort
  <2> QED BY <1>1, <1>2, <1>4, <1>5, <2>1, <2>2 DEF Continued, Heeds
<1>6. CASE ~Abort
  <2>1. thread' \in {"connect", "accept", "main"} /\ toThread' = in /\ toOwner' = out
    BY <1>3, <1>6 DEF Leave, Condition, Looping
  <2>2. late' \in BOOLEAN
    BY <1>3, <1>6
  <2>3. CASE ~live
    <3>1. sent \o <<>> = sent
      BY <1>1
    <3>2. next = l /\ all = sent
      BY <2>3, <3>1
    <3> HIDE DEF next, all
    <3>3. Heeds(remote, remote', l.tcp.sender) /\ Joined(l.tcp, remote')
      BY <1>3, <1>6, <3>2, CalledHears
    <3> QED BY <1>1, <1>3, <1>4, <1>6, <2>1, <2>2, <3>2, <3>3 DEF Continued, Heeds
  <2>4. CASE live
    <3> DEFINE q == ticked.peer
    <3>1. Between(l.tcp, FarSender(remote.sent), remote.heard)
      BY <1>1, JoinedParts
    <3>2. Count(late) \in Nat
      BY DEF Count
    <3> HIDE DEF ticked
    <3>3. /\ Moved(l.tcp, q, ticked.out, FarSender(remote.sent), remote.heard)
          /\ Finished(l.tcp.sender) => Finished(q.sender)
          /\ q.receiver = l.tcp.receiver
      BY <3>1, <3>2, TickMoved DEF ticked
    <3> HIDE DEF q
    <3>4. SameOwner(l.tcp.sender, q.sender) /\ Good(q.sender)
      BY <3>3 DEF Moved
    <3>5. q.sender.input.closed => Finished(q.sender)
      BY <1>1, <3>3, <3>4 DEF SameOwner, Joined
    <3>6. Output(q.receiver).error => remote.reset
      BY <1>1, <3>3 DEF Joined
    <3>7. q.sender.next_seqno < HalfModulus
      BY <3>4, OwnBounds DEF SameOwner
    <3>8. Called([l EXCEPT !.tcp = q], sent \o ticked.out)
      BY <3>3, <3>5, <3>6, <3>7, CalledAgain
    <3>9. next = [l EXCEPT !.tcp = q] /\ all = sent \o ticked.out
      BY <2>4 DEF q
    <3> HIDE DEF next, all
    <3>10. /\ Heeds(remote, remote', next.tcp.sender) /\ Joined(next.tcp, remote')
      <4>1. Called(next, all)
        BY <3>8, <3>9
      <4>2. remote' = HearAll(remote, adapter', all)
        BY <1>3, <1>6
      <4> QED BY <4>1, <4>2, CalledHears
    <3>11. /\ next \in Local /\ next.tcp = q /\ next.eof = l.eof
           /\ next.outbound_shutdown = l.outbound_shutdown
      BY <1>1, <3>8, <3>9 DEF Called, Local
    <3>12. ~AnyErrors(l.tcp)
      BY <2>4 DEF Active
    <3> QED BY <1>3, <1>6, <2>1, <2>2, <3>3, <3>4, <3>10, <3>11, <3>12 DEF Continued, Heeds
  <2> QED BY <2>3, <2>4
<1> QED BY <1>5, <1>6

LEMMA ShutFacts ==
  ASSUME NEW ch \in Channel
  PROVE  Shut(ch) \in Channel /\ Shut(ch).shut = TRUE /\ Shut(ch).data = ch.data
BY DEF Shut, Channel

LEMMA InvParts ==
  ASSUME IInv
  PROVE  /\ local \in Local /\ Joined(local.tcp, remote) /\ remote \in RemoteEnd
         /\ remote.sent \in 0 .. FinPosition + 1
         /\ toThread \in Channel /\ toOwner \in Channel /\ late \in BOOLEAN
         /\ inbox \in Seq(Datagram)
         /\ loop.rules \subseteq {Network, FromOwner, ToOwner}
         /\ owner.wrote \in 0 .. OwnerBytes /\ owner.read \in Nat /\ owner.eof \in BOOLEAN
         /\ Outbound(local).total_pushed <= OwnerBytes
         /\ local.tcp.sender.next_seqno < HalfModulus
<1>1. /\ local \in Local /\ Joined(local.tcp, remote) /\ remote \in RemoteEnd
      /\ remote.sent \in 0 .. FinPosition + 1
      /\ toThread \in Channel /\ toOwner \in Channel /\ late \in BOOLEAN
      /\ inbox \in Seq(Datagram)
      /\ loop.rules \subseteq {Network, FromOwner, ToOwner}
      /\ owner.wrote \in 0 .. OwnerBytes /\ owner.read \in Nat /\ owner.eof \in BOOLEAN
  BY DEF IInv, TypeOK, Joined, Owner
<1>2. Outbound(local).total_pushed \in Nat /\ OwnerBytes \in Nat
  BY <1>1, LocalParts, Bounds DEF Stream
<1>3. Outbound(local).total_pushed <= OwnerBytes
  BY <1>1, <1>2 DEF IInv, Lying
<1>4. local.tcp.sender.next_seqno < HalfModulus
  BY <1>1, <1>3, OwnBounds DEF Joined, Outbound
<1> QED BY <1>1, <1>3, <1>4

\* A call of wait_next_event that goes on, in which a callback has left l, in and
\* out and transmitted sent.
LEMMA CallKeeps ==
  ASSUME IInv, Looping, NEW l, NEW sent, NEW in \in Channel, NEW out \in Channel, NEW rules,
         Called(l, sent), Flagged(l, in), Lying(l, in, out),
         rules \subseteq loop.rules,
         \A r \in loop.rules : r \notin rules => r # Network /\ (r = ToOwner => toOwner.shut),
         toOwner.shut => out.shut, out.shut => toOwner.shut \/ Over(l),
         Over(local) => Over(l), AnyErrors(local.tcp) => AnyErrors(l.tcp),
         owner.eof => out.data = <<>>,
         loop' = [rules |-> rules, poll |-> NotPolled], owner' = owner,
         adapter' \in {Listening, Met},
         inbox' \in Seq(Datagram),
         \A i \in 1 .. Len(inbox') : \E j \in 1 .. Len(inbox) : inbox'[i] = inbox[j],
         Continue(l, sent, in, out)
  PROVE  IInv'
<1>1. Continued(l, in, out)
  <2>1. Outbound(l).total_pushed <= OwnerBytes
    <3>1. /\ Outbound(l).total_pushed \in Nat /\ OwnerBytes \in Nat /\ owner.wrote \in 0 .. OwnerBytes
      BY InvParts, LocalParts, Bounds DEF Stream, Called
    <3> QED BY <3>1 DEF Lying
  <2> QED BY <2>1, InvParts, ContinueFacts DEF Outbound
<1>2. /\ Shut(in) \in Channel /\ Shut(in).shut = TRUE /\ Shut(in).data = in.data
      /\ Shut(out) \in Channel /\ Shut(out).shut = TRUE /\ Shut(out).data = out.data
  BY ShutFacts
<1>3. /\ toThread' \in Channel /\ toThread'.data = in.data /\ (in.shut => toThread'.shut)
      /\ toOwner' \in Channel /\ toOwner'.data = out.data /\ (out.shut => toOwner'.shut)
      /\ toOwner'.shut => out.shut \/ thread' = "ended"
      /\ thread' \in {"connect", "accept", "main", "ended"}
      /\ thread' = "ended" => owner.phase = "destructing" /\ toThread'.shut /\ toOwner'.shut
  BY <1>1, <1>2 DEF Continued
<1>4. /\ local' \in Local /\ Joined(local'.tcp, remote') /\ late' \in BOOLEAN
      /\ local'.eof = l.eof /\ local'.outbound_shutdown = l.outbound_shutdown
      /\ SameOwner(l.tcp.sender, local'.tcp.sender) /\ local'.tcp.receiver = l.tcp.receiver
      /\ AnyErrors(l.tcp) => AnyErrors(local'.tcp)
  BY <1>1 DEF Continued
<1>5. /\ Inbound(local') = Inbound(l) /\ Outbound(local').closed = Outbound(l).closed
      /\ Outbound(local').total_pushed = Outbound(l).total_pushed
  BY <1>4 DEF Inbound, Outbound, SameOwner
<1>6. /\ loop'.rules = rules /\ loop'.poll = NotPolled
  OBVIOUS
<1>7. TypeOK'
  <2>1. thread # "new" /\ loop'.rules \subseteq {Network, FromOwner, ToOwner}
    BY <1>6, InvParts DEF Looping
  <2>2. owner' \in Owner
    BY DEF IInv, TypeOK
  <2> QED BY <1>3, <1>4, <2>1, <2>2 DEF TypeOK
<1>8. \A i \in 1 .. Len(inbox') : Expected(remote', inbox'[i])
  <2> SUFFICES ASSUME NEW i \in 1 .. Len(inbox') PROVE Expected(remote', inbox'[i])
    OBVIOUS
  <2>1. PICK j \in 1 .. Len(inbox) : inbox'[i] = inbox[j]
    OBVIOUS
  <2>2. Expected(remote, inbox[j]) /\ remote \in RemoteEnd /\ remote.sent \in 0 .. FinPosition + 1
    BY InvParts DEF IInv
  <2>3. /\ remote' \in RemoteEnd /\ remote'.sent \in remote.sent .. FinPosition + 1
        /\ remote.heard <= remote'.heard /\ (remote.reset => remote'.reset)
    <3>1. remote' \in RemoteEnd
      BY <1>4 DEF Joined
    <3>2. FinPosition \in Nat
      BY Bounds
    <3> QED BY <1>1, <2>2, <3>1, <3>2 DEF Continued
  <2>4. Expected(remote', inbox[j])
    BY <2>2, <2>3, ExpectedForward
  <2> QED BY <2>1, <2>4
<1>9. Flagged(local', toThread') /\ Lying(local, toThread, toOwner)'
  <2>1. Flagged(local', toThread')
    BY <1>3, <1>4, <1>5 DEF Flagged
  <2>2. Lying(local, toThread, toOwner)'
    BY <1>3, <1>5 DEF Lying
  <2> QED BY <2>1, <2>2
<1>10. Served'
  <2>1. Network \in loop.rules /\ (ToOwner \notin loop.rules => toOwner.shut)
    BY DEF IInv, Served
  <2>2. Network \in rules
    BY <2>1
  <2>3. ToOwner \notin rules => toOwner'.shut
    BY <1>3, <2>1
  <2> QED BY <1>6, <2>2, <2>3 DEF Served
<1>11. AnswerHolds'
  BY <1>6 DEF AnswerHolds, NotPolled
<1>12. Over(local') <=> Over(l)
  BY <1>5 DEF Over
<1>13. Told'
  <2>1. /\ toOwner.shut /\ owner.phase # "waiting early" => Over(local)
        /\ owner.eof => /\ toOwner.shut /\ toOwner.data = <<>> /\ owner.phase # "waiting early"
                        /\ Over(local) \/ AnyErrors(local.tcp)
    BY DEF IInv, Told, Looping
  <2>2. toOwner'.shut /\ owner'.phase # "waiting early" => Over(local') \/ thread' = "ended"
    BY <1>3, <1>12, <2>1
  <2>3. owner'.eof => /\ thread' # "new" /\ toOwner'.shut /\ toOwner'.data = <<>>
                      /\ owner'.phase # "waiting early"
                      /\ Over(local') \/ AnyErrors(local'.tcp)
    BY <1>3, <1>4, <1>12, <2>1
  <2> QED BY <2>2, <2>3 DEF Told
<1>14. Through' /\ DiesOnlyOfCutting'
  BY <1>3 DEF Through, DiesOnlyOfCutting
<1> QED BY <1>4, <1>7, <1>8, <1>9, <1>10, <1>11, <1>13, <1>14 DEF IInv
-----------------------------------------------------------------------------
(* The steps of the thread.                                                  *)

\* Nothing was called.
LEMMA NothingCalled ==
  ASSUME IInv
  PROVE  Called(local, <<>>) /\ Flagged(local, toThread) /\ Lying(local, toThread, toOwner)
BY InvParts DEF Called, IInv

\* The rules that are left before poll().
LEMMA RulesLeft ==
  ASSUME IInv
  PROVE  LET setup == Loop!SetUp(local, loop.rules)
         IN  /\ setup.state = local /\ setup.rules \subseteq loop.rules /\ Network \in setup.rules
             /\ \A r \in loop.rules : r \notin setup.rules => r = FromOwner
             /\ setup.events = {r \in setup.rules : RuleInterest(local, r)}
<1> DEFINE setup == Loop!SetUp(local, loop.rules)
<1>1. /\ setup.state = local /\ setup.rules = Left(local, loop.rules)
      /\ setup.events = {r \in setup.rules : RuleInterest(local, r)}
  BY InvParts, SetUpFacts DEF IInv
<1> HIDE DEF setup
<1>2. Network \in loop.rules /\ Network # FromOwner
  BY DEF IInv, Served, Network, FromOwner
<1> QED BY <1>1, <1>2 DEF Left, setup

LEMMA PollKeeps == IInv /\ Poll => IInv'
<1> SUFFICES ASSUME IInv, Poll PROVE IInv'
  OBVIOUS
<1> DEFINE setup  == Loop!SetUp(local, loop.rules)
           rules  == setup.rules
           events == setup.events
           answer == [r \in rules |-> Loop!Reported(r, events, Conditions(r))]
<1>1. /\ Looping /\ local' = setup.state
      /\ loop' = [rules |-> rules, poll |-> [events |-> events, revents |-> answer]]
      /\ UNCHANGED <<thread, adapter, late, toThread, toOwner, owner, inbox, remote>>
  BY DEF Poll
<1>2. /\ setup.state = local /\ rules \subseteq loop.rules /\ Network \in rules
      /\ \A r \in loop.rules : r \notin rules => r = FromOwner
      /\ events = {r \in rules : RuleInterest(local, r)}
  BY RulesLeft
<1> HIDE DEF setup
<1>3. local' = local
  BY <1>1, <1>2
<1>4. /\ loop'.rules = rules /\ loop'.poll.events = events /\ loop'.poll.revents = answer
  BY <1>1
<1>5. Network \in rules =>
        answer[Network] \subseteq {"IN"} /\ ("IN" \in answer[Network] => inbox # <<>>)
  BY DEF Loop!Reported, Conditions, When
<1>6. ASSUME FromOwner \in rules
      PROVE  /\ answer[FromOwner] \subseteq {"IN", "HUP"}
             /\ "IN" \in answer[FromOwner] => FromOwner \in events
             /\ FromOwner \in events => /\ RuleInterest(local, FromOwner)
                                        /\ "HUP" \in answer[FromOwner] => "IN" \in answer[FromOwner]
  <2>1. answer[FromOwner] = Loop!Reported(FromOwner, events, PolledSocket(toThread, toOwner))
    BY <1>6 DEF Conditions, FromOwner, Network
  <2>2. RuleDirection(FromOwner) = "In"
    BY DEF RuleDirection, FromOwner, ToOwner
  <2>3. FromOwner \in events => RuleInterest(local, FromOwner)
    BY <1>2
  <2> HIDE DEF answer, events
  <2> QED BY <2>1, <2>2, <2>3 DEF Loop!Reported, PolledSocket, When
<1>7. ASSUME ToOwner \in rules
      PROVE  /\ answer[ToOwner] \subseteq {"OUT", "HUP"}
             /\ "OUT" \in answer[ToOwner] => RoomIn(toOwner) > 0
             /\ "HUP" \in answer[ToOwner] => toOwner.shut
  <2>1. answer[ToOwner] = Loop!Reported(ToOwner, events, PolledSocket(toThread, toOwner))
    BY <1>7 DEF Conditions, ToOwner, Network
  <2>2. RuleDirection(ToOwner) = "Out"
    BY DEF RuleDirection
  <2> HIDE DEF answer, events
  <2> QED BY <2>1, <2>2 DEF Loop!Reported, PolledSocket, When
<1> HIDE DEF answer, events, rules
<1>8. AnswerHolds'
  <2>1. thread' # "new"
    BY <1>1 DEF Looping
  <2> QED BY <1>1, <1>3, <1>4, <1>5, <1>6, <1>7, <2>1 DEF AnswerHolds
<1>9. TypeOK' /\ Served'
  <2>1. loop'.rules \subseteq {Network, FromOwner, ToOwner}
    BY <1>2, <1>4, InvParts
  <2>2. Served'
    BY <1>1, <1>2, <1>4 DEF IInv, Served, FromOwner, ToOwner
  <2> QED BY <1>1, <1>3, <2>1, <2>2 DEF IInv, TypeOK
<1>10. Flagged(local', toThread') /\ Lying(local, toThread, toOwner)' /\ Told' /\ Joined(local'.tcp, remote')
  BY <1>1, <1>3 DEF IInv, Lying, Told, Flagged
<1>11. Through' /\ DiesOnlyOfCutting'
  BY <1>1 DEF Through, DiesOnlyOfCutting, Looping
<1>12. \A i \in 1 .. Len(inbox') : Expected(remote', inbox'[i])
  BY <1>1 DEF IInv
<1> QED BY <1>8, <1>9, <1>10, <1>11, <1>12 DEF IInv

LEMMA TimeoutKeeps == IInv /\ Timeout => IInv'
<1> SUFFICES ASSUME IInv, Timeout PROVE IInv'
  OBVIOUS
<1> DEFINE setup == Loop!SetUp(local, loop.rules)
           rules == setup.rules
<1>1. /\ Looping /\ loop' = [rules |-> rules, poll |-> NotPolled] /\ adapter' = adapter
      /\ Continue(setup.state, <<>>, toThread, toOwner)
      /\ owner' = owner /\ inbox' = inbox
  BY DEF Timeout
<1>2. /\ setup.state = local /\ rules \subseteq loop.rules /\ Network \in rules
      /\ \A r \in loop.rules : r \notin rules => r = FromOwner
  BY RulesLeft
<1>3. \A r \in loop.rules : r \notin rules => r # Network /\ (r = ToOwner => toOwner.shut)
  BY <1>2 DEF FromOwner, ToOwner
<1> HIDE DEF setup, rules
<1>4. Continue(local, <<>>, toThread, toOwner)
  BY <1>1, <1>2
<1>5. adapter' \in {Listening, Met}
  BY <1>1 DEF IInv, TypeOK, Looping
<1>6. owner.eof => toOwner.data = <<>>
  BY DEF IInv, Told
<1>7. /\ inbox' \in Seq(Datagram)
      /\ \A i \in 1 .. Len(inbox') : \E j \in 1 .. Len(inbox) : inbox'[i] = inbox[j]
  BY <1>1, InvParts
<1> QED BY <1>1, <1>2, <1>3, <1>4, <1>5, <1>6, <1>7, InvParts, NothingCalled, CallKeeps

\* What PollPass leaves.
LEMMA RulesPassed ==
  ASSUME IInv, Polled
  PROVE  /\ Pass.state = local /\ Pass.rules \subseteq loop.rules
         /\ \A r \in loop.rules : r \notin Pass.rules => r # Network /\ (r = ToOwner => toOwner.shut)
         /\ Pass.served = Network => inbox # <<>>
         /\ Pass.served = FromOwner => RuleInterest(local, FromOwner)
         /\ Pass.served = ToOwner => RoomIn(toOwner) > 0
         /\ adapter \in {Listening, Met} /\ Looping
         /\ owner.eof => toOwner.shut /\ toOwner.data = <<>>
<1>1. AnswerHolds /\ loop.poll # NotPolled /\ Looping
  BY DEF IInv, Polled
<1>2. adapter \in {Listening, Met} /\ (owner.eof => toOwner.shut /\ toOwner.data = <<>>)
  BY <1>1 DEF IInv, TypeOK, Looping, Told
<1>3. Network # ToOwner
  BY DEF Network, ToOwner
<1> QED BY <1>1, <1>2, <1>3, InvParts, PassFacts

LEMMA ServeNoneKeeps == IInv /\ ServeNone => IInv'
<1> SUFFICES ASSUME IInv, ServeNone PROVE IInv'
  OBVIOUS
<1>1. /\ Polled /\ loop' = [rules |-> Pass.rules, poll |-> NotPolled] /\ adapter' = adapter
      /\ Continue(Pass.state, <<>>, toThread, toOwner)
      /\ owner' = owner /\ inbox' = inbox
  BY DEF ServeNone
<1> DEFINE rules == Pass.rules
<1>2. /\ Pass.state = local /\ rules \subseteq loop.rules
      /\ \A r \in loop.rules : r \notin rules => r # Network /\ (r = ToOwner => toOwner.shut)
      /\ adapter \in {Listening, Met} /\ Looping
      /\ owner.eof => toOwner.data = <<>>
  BY <1>1, RulesPassed
<1>3. Continue(local, <<>>, toThread, toOwner)
  BY <1>1, <1>2
<1>4. /\ inbox' \in Seq(Datagram)
      /\ \A i \in 1 .. Len(inbox') : \E j \in 1 .. Len(inbox) : inbox'[i] = inbox[j]
  BY <1>1, InvParts
<1>5. loop' = [rules |-> rules, poll |-> NotPolled]
  BY <1>1
<1> HIDE DEF rules
<1> QED BY <1>1, <1>2, <1>3, <1>4, <1>5, InvParts, NothingCalled, CallKeeps

\* No rule is interested: the peer is through, and nothing waits for the owner.
LEMMA ExitKeeps == IInv /\ Exit => IInv'
<1> SUFFICES ASSUME IInv, Exit PROVE IInv'
  OBVIOUS
<1> DEFINE setup == Loop!SetUp(local, loop.rules)
           rules == setup.rules
<1>1. /\ Looping /\ loop' = [rules |-> rules, poll |-> NotPolled] /\ local' = setup.state
      /\ setup.events = {} /\ Leave(toThread, toOwner)
      /\ adapter' = adapter /\ late' = late /\ owner' = owner /\ inbox' = inbox /\ remote' = remote
  BY DEF Exit
<1>2. /\ setup.state = local /\ rules \subseteq loop.rules /\ Network \in rules
      /\ \A r \in loop.rules : r \notin rules => r = FromOwner
      /\ setup.events = {r \in rules : RuleInterest(local, r)}
  BY RulesLeft
<1> HIDE DEF setup, rules
<1>3. local' = local /\ loop'.rules = rules /\ loop'.poll = NotPolled
  BY <1>1, <1>2
<1>4. /\ Shut(toThread) \in Channel /\ Shut(toThread).shut = TRUE /\ Shut(toThread).data = toThread.data
      /\ Shut(toOwner) \in Channel /\ Shut(toOwner).shut = TRUE /\ Shut(toOwner).data = toOwner.data
  BY InvParts, ShutFacts
<1>5. /\ toThread' \in Channel /\ toThread'.data = toThread.data /\ (toThread.shut => toThread'.shut)
      /\ toOwner' \in Channel /\ toOwner'.data = toOwner.data /\ (toOwner.shut => toOwner'.shut)
      /\ toOwner'.shut => toOwner.shut \/ thread' = "ended"
      /\ thread' \in {"main", "ended"}
      /\ thread' = "ended" => thread = "main" /\ toThread'.shut /\ toOwner'.shut
  BY <1>1, <1>4, InvParts DEF Leave
<1>6. TypeOK' /\ Joined(local'.tcp, remote')
  <2>1. thread # "new" /\ loop'.rules \subseteq {Network, FromOwner, ToOwner}
    BY <1>1, <1>2, <1>3, InvParts DEF Looping
  <2> QED BY <1>1, <1>3, <1>5, <2>1 DEF IInv, TypeOK
<1>7. \A i \in 1 .. Len(inbox') : Expected(remote', inbox'[i])
  BY <1>1 DEF IInv
<1>8. Flagged(local', toThread') /\ Lying(local, toThread, toOwner)' /\ Told'
  <2>1. Flagged(local', toThread')
    BY <1>3, <1>5 DEF IInv, Flagged
  <2>2. Lying(local, toThread, toOwner)'
    BY <1>1, <1>3, <1>5 DEF IInv, Lying
  <2>3. /\ toOwner.shut /\ owner.phase # "waiting early" => Over(local)
        /\ owner.eof => /\ toOwner.shut /\ toOwner.data = <<>> /\ owner.phase # "waiting early"
                        /\ Over(local) \/ AnyErrors(local.tcp)
    BY <1>1 DEF IInv, Told, Looping
  <2>4. Told'
    BY <1>1, <1>3, <1>5, <2>3 DEF Told
  <2> QED BY <2>1, <2>2, <2>4
<1>9. Served' /\ AnswerHolds' /\ DiesOnlyOfCutting'
  <2>1. ToOwner \notin rules => ToOwner \notin loop.rules
    BY <1>2 DEF FromOwner, ToOwner
  <2>2. Served'
    BY <1>2, <1>3, <1>5, <2>1 DEF IInv, Served
  <2>3. AnswerHolds' /\ DiesOnlyOfCutting'
    BY <1>3, <1>5 DEF AnswerHolds, NotPolled, DiesOnlyOfCutting
  <2> QED BY <2>2, <2>3
<1>10. Through'
  <2> SUFFICES ASSUME thread' = "ended", ~AnyErrors(local.tcp), owner.phase # "destructing"
               PROVE  /\ local.tcp.sender.flight = 0 /\ OutboundFinished(local.tcp)
                      /\ InboundClosed(local.tcp)
                      /\ owner.phase # "waiting early" => IsFinished(Inbound(local))
    BY <1>1, <1>3, <1>5 DEF Through
  <2>1. ~RuleInterest(local, Network)
    BY <1>1, <1>2
  <2>2. ~Active(local.tcp)
    BY <2>1 DEF RuleInterest, Network, FromOwner, ToOwner
  <2>3. local.tcp.sender.flight \in Nat
    BY InvParts, GoodCounters DEF Joined
  <2>4. local.tcp.sender.flight = 0 /\ OutboundFinished(local.tcp) /\ InboundClosed(local.tcp)
    BY <2>2, <2>3 DEF Active
  <2>5. ASSUME owner.phase # "waiting early" PROVE IsFinished(Inbound(local))
    <3>1. Inbound(local).closed /\ ~Inbound(local).error
      BY <2>4 DEF InboundClosed, AnyErrors, Inbound
    <3>2. CASE ToOwner \in rules
      <4>1. ~RuleInterest(local, ToOwner)
        BY <1>1, <1>2, <3>2
      <4>2. ~(BytesBuffered(Inbound(local)) > 0)
        BY <4>1 DEF RuleInterest, ToOwner, FromOwner, Network
      <4>3. /\ Inbound(local).total_poped \in Nat /\ Inbound(local).total_pushed \in Nat
            /\ Inbound(local).total_poped <= Inbound(local).total_pushed
        <5>1. Faithful(local.tcp.receiver.reassembler)
          BY InvParts DEF Joined, Heard
        <5> QED BY <5>1, InvParts, LocalParts DEF Faithful, Inbound, Output, Stream
      <4> QED BY <3>1, <4>2, <4>3 DEF IsFinished, BytesBuffered
    <3>3. CASE ToOwner \notin rules
      <4>1. ToOwner \notin loop.rules
        BY <1>2, <3>3 DEF FromOwner, ToOwner
      <4>2. Over(local)
        BY <1>5, <2>5, <4>1 DEF IInv, Served, Told
      <4> QED BY <3>1, <4>2 DEF Over
    <3> QED BY <3>2, <3>3
  <2> QED BY <2>4, <2>5
<1> QED BY <1>6, <1>7, <1>8, <1>9, <1>10 DEF IInv

\* What the peer does with a message of the other end.
LEMMA MessageTaken ==
  ASSUME IInv, NEW msg, OfRemote(remote, msg)
  PROVE  LET call == PeerReceive(local.tcp, msg)
             l    == [local EXCEPT !.tcp = call.peer]
         IN  /\ Called(l, call.out) /\ Flagged(l, toThread) /\ Lying(l, toThread, toOwner)
             /\ Over(local) => Over(l)
             /\ AnyErrors(local.tcp) => AnyErrors(l.tcp)
<1> DEFINE p    == local.tcp
           call == PeerReceive(p, msg)
           q    == call.peer
           l    == [local EXCEPT !.tcp = q]
           far  == FarSender(remote.sent)
           rcv  == p.receiver
           next == ReceiveSegment(rcv, msg.sender)
<1> SUFFICES /\ Called(l, call.out) /\ Flagged(l, toThread) /\ Lying(l, toThread, toOwner)
             /\ Over(local) => Over(l)
             /\ AnyErrors(local.tcp) => AnyErrors(l.tcp)
  OBVIOUS
<1>1. CASE ~Active(p)
  <2>1. call = [peer |-> p, out |-> <<>>]
    BY <1>1 DEF PeerReceive
  <2>2. l = local /\ call.out = <<>>
    BY <2>1, InvParts DEF Local
  <2> HIDE DEF l, call
  <2> QED BY <2>2, NothingCalled
<1>2. CASE Active(p)
  <2>1. /\ local \in Local /\ Joined(p, remote) /\ p.sender.next_seqno < HalfModulus
        /\ Outbound(local).total_pushed <= OwnerBytes
    BY InvParts
  <2>2. /\ Between(p, far, remote.heard) /\ Good(far) /\ far.next_seqno < HalfModulus
        /\ far.input.total_poped < IndexModulus
    BY <2>1, JoinedParts
  <2>3. /\ msg.sender \in SenderMessage /\ msg.receiver \in ReceiverMessage
        /\ OfStream(far, msg.sender) /\ (msg.sender.RST => remote.reset)
        /\ msg.receiver.ackno # NoAck => \E a \in 1 .. remote.heard : msg.receiver.ackno = Wrap(a, OwnIsn)
    BY DEF OfRemote, Message
  <2>4. Heard(far, rcv) /\ p.sender.isn = OwnIsn /\ (Output(rcv).error => remote.reset)
    BY <2>1 DEF Joined
  <2> HIDE DEF far
  <2>5. /\ Heard(far, next) /\ Later(rcv, next)
        /\ Output(next).total_poped = Output(rcv).total_poped
        /\ Output(next).error = (Output(rcv).error \/ msg.sender.RST)
    BY <2>2, <2>3, <2>4, HearSegment
  <2>6. Before(p.sender, remote.heard, msg.receiver)
    BY <2>3, <2>4 DEF Before
  <2> HIDE DEF p, next
  <2>7. /\ Moved(p, q, call.out, far, remote.heard)
        /\ Finished(q.sender) /\ q.receiver = next
    <3>1. next = ReceiveSegment(p.receiver, msg.sender)
      BY DEF next
    <3> HIDE DEF rcv, q, call
    <3>2. /\ Heard(far, ReceiveSegment(p.receiver, msg.sender))
          /\ Later(p.receiver, ReceiveSegment(p.receiver, msg.sender))
      BY <2>5, <3>1 DEF rcv
    <3>3. Active(p) /\ p.sender.next_seqno < HalfModulus /\ msg.receiver \in ReceiverMessage
      BY <1>2, <2>1, <2>3 DEF p
    <3>4. /\ Moved(p, PeerReceive(p, msg).peer, PeerReceive(p, msg).out, far, remote.heard)
          /\ Finished(PeerReceive(p, msg).peer.sender)
          /\ PeerReceive(p, msg).peer.receiver = ReceiveSegment(p.receiver, msg.sender)
      BY <2>2, <2>6, <3>2, <3>3, ReceiveMoved
    <3> QED BY <3>1, <3>4 DEF q, call
  <2> HIDE DEF q, call, rcv
  <2>8. SameOwner(p.sender, q.sender) /\ Good(q.sender)
    BY <2>7 DEF Moved
  <2>9. /\ q.sender.next_seqno < HalfModulus /\ q.sender.input.closed = p.sender.input.closed
        /\ q.sender.input.total_pushed = p.sender.input.total_pushed
    BY <2>1, <2>8, OwnBounds DEF SameOwner, Outbound, p
  <2>10. Output(q.receiver).error => remote.reset
    BY <2>3, <2>4, <2>5, <2>7
  <2>11. Called(local, <<>>) /\ Flagged(local, toThread) /\ Lying(local, toThread, toOwner)
    BY NothingCalled
  <2>12. Called(l, <<>> \o call.out)
    BY <2>7, <2>9, <2>10, <2>11, CalledAgain DEF far, p
  <2>13. <<>> \o call.out = call.out
    BY <2>7 DEF Moved
  <2>14. /\ l.tcp = q /\ l.eof = local.eof /\ l.outbound_shutdown = local.outbound_shutdown
    BY <2>1 DEF Local
  <2> HIDE DEF l
  <2>15. Outbound(l).closed = Outbound(local).closed /\ Outbound(l).total_pushed = Outbound(local).total_pushed
    BY <2>9, <2>14 DEF Outbound, p
  <2>16. Inbound(l).total_poped = Inbound(local).total_poped
    BY <2>5, <2>7, <2>14 DEF Inbound, rcv, p
  <2>17. Flagged(l, toThread) /\ Lying(l, toThread, toOwner)
    BY <2>11, <2>14, <2>15, <2>16 DEF Flagged, Lying
  <2>18. ~AnyErrors(local.tcp) /\ ~Inbound(local).error
    BY <1>2 DEF Active, AnyErrors, Inbound, p
  <2>19. Over(local) => Over(l)
    <3> SUFFICES ASSUME IsFinished(Inbound(local)) PROVE IsFinished(Inbound(l))
      BY <2>18 DEF Over
    <3>1. Output(rcv).closed /\ Output(rcv).total_poped = Output(rcv).total_pushed
      BY DEF IsFinished, Inbound, rcv, p
    <3>2. Output(next).closed
      BY <2>5, <3>1 DEF Later
    <3>3. /\ Output(rcv).total_pushed = far.input.total_poped
          /\ Output(next).total_pushed = far.input.total_poped
      BY <2>2, <2>4, <2>5, <3>1, <3>2, HeardCounters
    <3>4. Inbound(l) = Output(next)
      BY <2>7, <2>14 DEF Inbound
    <3> QED BY <2>5, <3>1, <3>2, <3>3, <3>4 DEF IsFinished
  <2> QED BY <2>12, <2>13, <2>17, <2>18, <2>19 DEF l, call, q, p
<1> QED BY <1>1, <1>2

LEMMA ServeNetworkKeeps == IInv /\ ServeNetwork => IInv'
<1> SUFFICES ASSUME IInv, ServeNetwork PROVE IInv'
  OBVIOUS
<1> DEFINE rules  == Pass.rules
           dgram  == Head(inbox)
           read   == ReadDatagram(adapter, dgram)
           result == IF read.message = NoMessage THEN [peer |-> local.tcp, out |-> <<>>]
                     ELSE PeerReceive(local.tcp, read.message)
           l      == [local EXCEPT !.tcp = result.peer]
           sent   == result.out
<1>1. /\ Polled /\ Pass.served = Network
  BY DEF ServeNetwork
<1>2. /\ Pass.state = local /\ rules \subseteq loop.rules
      /\ \A r \in loop.rules : r \notin rules => r # Network /\ (r = ToOwner => toOwner.shut)
      /\ adapter \in {Listening, Met} /\ Looping /\ inbox # <<>>
      /\ owner.eof => toOwner.data = <<>>
  BY <1>1, RulesPassed
<1>3. /\ loop' = [rules |-> rules, poll |-> NotPolled] /\ inbox' = Tail(inbox)
      /\ adapter' = read.adapter /\ Continue(l, sent, toThread, toOwner) /\ owner' = owner
  BY <1>2 DEF ServeNetwork
<1>4. /\ inbox \in Seq(Datagram) /\ toThread \in Channel /\ toOwner \in Channel /\ local \in Local
  BY InvParts
<1>5. /\ dgram = inbox[1] /\ 1 \in 1 .. Len(inbox)
      /\ inbox' \in Seq(Datagram)
      /\ \A i \in 1 .. Len(inbox') : \E j \in 1 .. Len(inbox) : inbox'[i] = inbox[j]
  <2>1. /\ Len(inbox) \in Nat /\ Len(inbox) >= 1 /\ dgram = inbox[1]
        /\ Tail(inbox) \in Seq(Datagram) /\ Len(Tail(inbox)) = Len(inbox) - 1
        /\ \A i \in 1 .. Len(Tail(inbox)) : Tail(inbox)[i] = inbox[i + 1]
    BY <1>2, <1>4, HeadTailProperties, EmptySeq
  <2>2. \A i \in 1 .. Len(Tail(inbox)) : i + 1 \in 1 .. Len(inbox)
    BY <2>1
  <2> QED BY <1>3, <2>1, <2>2
<1>6. Expected(remote, dgram)
  BY <1>5 DEF IInv
<1> HIDE DEF rules, dgram
<1>7. /\ read.adapter \in {Listening, Met}
      /\ read.message = NoMessage \/ OfRemote(remote, read.message)
  BY <1>2, <1>6, ExpectedRead
<1> HIDE DEF read
<1>8. /\ Called(l, sent) /\ Flagged(l, toThread) /\ Lying(l, toThread, toOwner)
      /\ Over(local) => Over(l)
      /\ AnyErrors(local.tcp) => AnyErrors(l.tcp)
  <2>1. CASE read.message = NoMessage
    <3>1. l = local /\ sent = <<>>
      BY <1>4, <2>1 DEF Local
    <3> HIDE DEF l, sent
    <3> QED BY <3>1, NothingCalled
  <2>2. CASE read.message # NoMessage
    <3>1. result = PeerReceive(local.tcp, read.message) /\ OfRemote(remote, read.message)
      BY <1>7, <2>2
    <3> HIDE DEF result
    <3> QED BY <3>1, MessageTaken
  <2> QED BY <2>1, <2>2
<1> HIDE DEF l, sent
<1> QED BY <1>2, <1>3, <1>4, <1>5, <1>7, <1>8, CallKeeps
-----------------------------------------------------------------------------
(* The reads and the writes of the pair.                                     *)

LEMMA BytesFirst ==
  ASSUME NEW a \in Nat, NEW b \in Nat, NEW n \in Nat, n <= b - a
  PROVE  SubSeq(Bytes(a, b), 1, n) = Bytes(a, a + n)
<1> DEFINE p == Bytes(a, b)
           w == Bytes(a, a + n)
           s == SubSeq(p, 1, n)
<1>1. /\ p \in Seq(Byte) /\ Len(p) = b - a /\ w \in Seq(Byte) /\ Len(w) = n
  <2>1. a <= b /\ a + n \in Nat /\ a <= a + n /\ (a + n) - a = n
    OBVIOUS
  <2>2. p \in Seq(Byte) /\ Len(p) = b - a
    BY <2>1, BytesType
  <2>3. w \in Seq(Byte) /\ Len(w) = (a + n) - a
    BY <2>1, BytesType
  <2> QED BY <2>1, <2>2, <2>3
<1>2. /\ \A i \in 1 .. b - a : p[i] = a + i
      /\ \A i \in 1 .. n : w[i] = a + i
  BY DEF Bytes
<1> HIDE DEF p, w
<1>3. s \in Seq(Byte) /\ Len(s) = n /\ \A i \in 1 .. n : s[i] = p[i]
  BY <1>1, SubSeqProperties
<1> HIDE DEF s
<1>4. \A i \in 1 .. Len(s) : s[i] = w[i]
  BY <1>1, <1>2, <1>3
<1>5. s = w
  BY <1>1, <1>3, <1>4, SeqEqual
<1> QED BY <1>5 DEF s, p, w

LEMMA BytesNone ==
  ASSUME NEW a \in Nat, NEW b \in Nat, a <= b
  PROVE  Bytes(a, b) = <<>> <=> a = b
<1>1. Bytes(a, b) \in Seq(Byte) /\ Len(Bytes(a, b)) = b - a
  BY BytesType
<1> QED BY <1>1, EmptySeq

\* How far they reach.
LEMMA BytesReach ==
  ASSUME NEW a \in Nat, NEW b \in Nat, a <= b
  PROVE  a + Len(Bytes(a, b)) = b
BY BytesType

\* What a read of the channel ch finds, in which the bytes a + 1 .. b lie.
ReadsOn(ch, size, a, b) ==
  LET read == ReadFrom(ch, size)
      n    == Len(read.data)
  IN  /\ n \in 0 .. size /\ a + n <= b /\ read.data = Bytes(a, a + n)
      /\ read.channel \in Channel /\ read.channel.data = Bytes(a + n, b)
      /\ (read.channel.shut <=> ch.shut)
      /\ (read.eof <=> n = 0 /\ ch.shut) /\ (read.registered <=> n > 0 \/ ch.shut)
      /\ n = 0 => a = b

LEMMA ReadOfBytes ==
  ASSUME NEW ch \in Channel, NEW a \in Nat, NEW b \in Nat, a <= b, ch.data = Bytes(a, b),
         NEW size \in Nat \ {0}
  PROVE  ReadsOn(ch, size, a, b)
<1> DEFINE read == ReadFrom(ch, size)
           n    == Least(ReadSize(size), Len(ch.data))
<1>1. ch.data \in Seq(Byte) /\ Len(ch.data) = b - a /\ ch.shut \in BOOLEAN
  BY BytesType DEF Channel
<1>2. n \in 0 .. size /\ n <= b - a /\ (n = 0 => a = b)
  BY <1>1 DEF Least, ReadSize
<1>3. /\ read.channel = [ch EXCEPT !.data = SubSeq(ch.data, n + 1, Len(ch.data))]
      /\ read.data = SubSeq(ch.data, 1, n)
      /\ (read.eof <=> n = 0 /\ ch.shut) /\ (read.registered <=> n > 0 \/ ch.shut)
  BY DEF ReadFrom
<1> HIDE DEF n, read
<1>4. read.data = Bytes(a, a + n)
  BY <1>2, <1>3, BytesFirst
<1>5. n \in Nat /\ n <= b - a /\ a + n \in Nat /\ a <= a + n /\ (a + n) - a = n /\ a + n <= b
  BY <1>2
<1>9. Len(read.data) = n
  BY <1>4, <1>5, BytesType
<1> DEFINE rest == SubSeq(ch.data, n + 1, Len(ch.data))
<1>6. rest = Bytes(a + n, b) /\ rest \in Seq(Byte)
  <2>1. rest = Bytes(a + n, b)
    BY <1>5, BytesRest
  <2> QED BY <1>5, <2>1, BytesType
<1>7. read.channel = [ch EXCEPT !.data = rest]
  BY <1>3
<1> HIDE DEF rest
<1>8. read.channel \in Channel /\ read.channel.data = rest /\ (read.channel.shut <=> ch.shut)
  BY <1>6, <1>7 DEF Channel
<1> QED BY <1>2, <1>3, <1>4, <1>5, <1>6, <1>8, <1>9 DEF read, ReadsOn

\* A write of bytes that come next, of which a part is taken.
LEMMA WriteOfBytes ==
  ASSUME NEW ch \in Channel, NEW a \in Nat, NEW b \in Nat, NEW c \in Nat, a <= b, b <= c,
         ch.data = Bytes(a, b), NEW data, data = Bytes(b, c), NEW n \in 0 .. c - b
  PROVE  LET next == WriteTo(ch, data, n)
         IN  next \in Channel /\ next.data = Bytes(a, b + n) /\ (next.shut <=> ch.shut)
<1> DEFINE next == WriteTo(ch, data, n)
           more == SubSeq(data, 1, n)
<1>1. n \in Nat /\ n <= c - b /\ more = SubSeq(Bytes(b, c), 1, n)
  OBVIOUS
<1>2. next = [ch EXCEPT !.data = ch.data \o more]
  BY DEF WriteTo
<1> HIDE DEF next, more
<1>3. Bytes(a, b) \o Bytes(b, b + n) = Bytes(a, b + n) /\ Bytes(a, b + n) \in Seq(Byte)
  <2>1. b + n \in Nat /\ b <= b + n /\ a <= b + n
    OBVIOUS
  <2> QED BY <2>1, BytesJoined, BytesType
<1>4. ch.data \o more = Bytes(a, b + n)
  BY <1>1, <1>3, BytesFirst
<1>5. next \in Channel /\ next.data = Bytes(a, b + n) /\ (next.shut <=> ch.shut)
  BY <1>2, <1>3, <1>4 DEF Channel
<1> QED BY <1>5 DEF next
-----------------------------------------------------------------------------
(* Rule 2.                                                                   *)

\* What the callback leaves before it pushes, and what the sender has then.
Fill(l, read)   == [l EXCEPT !.tcp.sender.input = PushBytes(@, read.data), !.eof = @ \/ read.eof]
Filled(l, read) == IF Fill(l, read).eof THEN CloseOutbound(Fill(l, read)) ELSE Fill(l, read)
Gets(snd, read) ==
  IF read.eof THEN [snd EXCEPT !.input = Close(PushBytes(@, read.data))]
  ELSE [snd EXCEPT !.input = PushBytes(@, read.data)]

LEMMA FilledParts ==
  ASSUME NEW l \in Local, ~l.eof, ~l.outbound_shutdown, NEW read, read.eof \in BOOLEAN,
         PushBytes(l.tcp.sender.input, read.data) \in Stream
  PROVE  /\ Filled(l, read) \in Local /\ Gets(l.tcp.sender, read) \in Sender
         /\ Filled(l, read).tcp = [l.tcp EXCEPT !.sender = Gets(l.tcp.sender, read)]
         /\ (Filled(l, read).eof <=> read.eof) /\ (Filled(l, read).outbound_shutdown <=> read.eof)
<1> DEFINE data   == read.data
           eof    == read.eof
           in     == PushBytes(l.tcp.sender.input, data)
           put    == [l.tcp.sender EXCEPT !.input = in]
           peer   == [l.tcp EXCEPT !.sender = put]
           filled == Fill(l, read)
           closed == Filled(l, read)
           last   == Gets(l.tcp.sender, read)
           end    == [put EXCEPT !.input = Close(in)]
<1>1. /\ l.tcp \in Peer /\ l.tcp.sender \in Sender /\ in \in Stream
      /\ l.eof = FALSE /\ l.outbound_shutdown = FALSE
  BY LocalParts
<1> HIDE DEF in
<1>2. put \in Sender /\ put.input = in
  BY <1>1 DEF Sender
<1>3. peer \in Peer /\ peer.sender = put
  <2> HIDE DEF put
  <2> QED BY <1>1, <1>2 DEF Peer
<1>4. filled = [l EXCEPT !.tcp = peer, !.eof = eof]
  BY <1>1 DEF in, Fill
<1> HIDE DEF filled
<1>5. filled \in Local /\ filled.tcp = peer /\ filled.eof = eof /\ filled.outbound_shutdown = FALSE
  <2> HIDE DEF peer
  <2> QED BY <1>3, <1>4 DEF Local
<1>6. Close(in) \in Stream
  BY <1>1 DEF Close, Stream
<1>7. end \in Sender
  <2> DEFINE c == Close(in)
  <2>1. end = [put EXCEPT !.input = c]
    OBVIOUS
  <2> HIDE DEF put, end, c
  <2> QED BY <1>2, <1>6, <2>1 DEF Sender, c
<1>8. CASE ~eof
  <2>1. closed = filled /\ last = put
    BY <1>5, <1>8 DEF in, filled, Filled, Gets
  <2> HIDE DEF closed, last, put
  <2> QED BY <1>2, <1>5, <1>8, <2>1 DEF closed, last
<1>9. CASE eof
  <2> DEFINE c      == Close(in)
             other  == [peer EXCEPT !.sender = end]
  <2>1. closed = [filled EXCEPT !.tcp.sender.input = Close(filled.tcp.sender.input), !.outbound_shutdown = TRUE]
    BY <1>5, <1>9 DEF CloseOutbound, Filled, filled
  <2>2. filled.tcp.sender.input = in
    BY <1>2, <1>3, <1>5
  <2>3. closed = [filled EXCEPT !.tcp.sender.input = c, !.outbound_shutdown = TRUE]
    BY <2>1, <2>2
  <2> HIDE DEF c, closed
  <2>4. closed = [filled EXCEPT !.tcp = [filled.tcp EXCEPT !.sender = [filled.tcp.sender EXCEPT !.input = c]],
                                !.outbound_shutdown = TRUE]
    BY <2>3
  <2>5. closed = [filled EXCEPT !.tcp = other, !.outbound_shutdown = TRUE]
    BY <1>3, <1>5, <2>4 DEF c
  <2>6. other \in Peer
    <3> HIDE DEF peer, end
    <3> QED BY <1>3, <1>7 DEF Peer
  <2>7. other = [l.tcp EXCEPT !.sender = end]
    <3> HIDE DEF put, end
    <3> QED BY <1>1 DEF Peer
  <2> HIDE DEF other
  <2>8. /\ closed \in Local /\ closed.tcp = other /\ closed.eof = TRUE
        /\ closed.outbound_shutdown = TRUE
    BY <1>5, <1>9, <2>5, <2>6 DEF Local
  <2>9. last = end
    BY <1>1, <1>9 DEF in, Sender, Gets
  <2> HIDE DEF end, last
  <2> QED BY <1>7, <1>9, <2>7, <2>8, <2>9 DEF closed, last
<1> QED BY <1>8, <1>9

\* The sender gets the next bytes of the owner, and the end of the stream.
LEMMA SenderGets ==
  ASSUME NEW snd, Good(snd), Carries(snd), ~snd.input.closed,
         NEW n \in Nat, n <= AvailableCapacity(snd.input), NEW eof \in BOOLEAN
  PROVE  LET put  == Written(snd, n)
             last == IF eof THEN [put EXCEPT !.input = Close(@)] ELSE put
         IN  /\ Good(last) /\ Carries(last) /\ Forward(snd, last) /\ last.ackno = snd.ackno
             /\ last.input.total_pushed = snd.input.total_pushed + n
             /\ last.input.closed <=> eof
<1> DEFINE put == Written(snd, n)
           end == [put EXCEPT !.input = Close(@)]
<1>1. /\ Good(put) /\ Carries(put) /\ Forward(snd, put) /\ put.ackno = snd.ackno
      /\ put.input.total_pushed = snd.input.total_pushed + n /\ put.input.closed = snd.input.closed
  BY OwnerMoves
<1> HIDE DEF put
<1>2. /\ Good(end) /\ Carries(end) /\ Forward(put, end) /\ end.ackno = put.ackno
      /\ end.input.total_pushed = put.input.total_pushed /\ end.input.closed
  BY <1>1, OwnerMoves
<1>3. Forward(snd, end)
  <2> HIDE DEF end
  <2> QED BY <1>1, <1>2, ForwardTwice
<1> HIDE DEF end
<1>4. CASE eof
  BY <1>1, <1>2, <1>3, <1>4 DEF put, end
<1>5. CASE ~eof
  BY <1>1, <1>5 DEF put
<1> QED BY <1>4, <1>5

\* Rule 2, as far as the peer's answer.
LEMMA OwnerGives ==
  ASSUME IInv, RuleInterest(local, FromOwner)
  PROVE  LET read   == ReadFrom(toThread, AvailableCapacity(Outbound(local)))
             filled == [local EXCEPT !.tcp.sender.input = PushBytes(@, read.data), !.eof = @ \/ read.eof]
             closed == IF filled.eof THEN CloseOutbound(filled) ELSE filled
             pushed == PeerPush(closed.tcp)
             next   == [closed EXCEPT !.tcp = pushed.peer]
         IN  /\ Called(next, pushed.out) /\ read.channel \in Channel
             /\ Flagged(next, read.channel) /\ Lying(next, read.channel, toOwner)
             /\ Inbound(next) = Inbound(local) /\ ~AnyErrors(local.tcp)
<1> DEFINE read   == ReadFrom(toThread, AvailableCapacity(Outbound(local)))
           filled == [local EXCEPT !.tcp.sender.input = PushBytes(@, read.data), !.eof = @ \/ read.eof]
           closed == IF filled.eof THEN CloseOutbound(filled) ELSE filled
           pushed == PeerPush(closed.tcp)
           next   == [closed EXCEPT !.tcp = pushed.peer]
           p      == local.tcp
           snd    == p.sender
           n      == Len(read.data)
           eof    == read.eof
           last   == IF eof THEN [Written(snd, n) EXCEPT !.input = Close(@)] ELSE Written(snd, n)
           far    == FarSender(remote.sent)
<1> SUFFICES /\ Called(next, pushed.out) /\ read.channel \in Channel
             /\ Flagged(next, read.channel) /\ Lying(next, read.channel, toOwner)
             /\ Inbound(next) = Inbound(local) /\ ~AnyErrors(local.tcp)
  OBVIOUS
<1>1. /\ ~AnyErrors(local.tcp) /\ ~local.outbound_shutdown
      /\ AvailableCapacity(Outbound(local)) > 0
  BY DEF RuleInterest, Active, Network, FromOwner, ToOwner
<1>2. /\ local \in Local /\ Joined(p, remote) /\ toThread \in Channel
      /\ owner.wrote \in 0 .. OwnerBytes /\ OwnerBytes \in Nat
  BY InvParts, Bounds
<1>3. /\ Outbound(local) = snd.input /\ snd.input \in Stream /\ Good(snd) /\ Carries(snd)
      /\ snd.input.total_pushed \in Nat /\ snd.input.total_poped \in Nat /\ snd.input.capacity \in Nat
      /\ snd.isn = OwnIsn
  BY <1>2, LocalParts DEF Joined, Outbound, Stream
<1>4. /\ local.eof = FALSE /\ local.outbound_shutdown = FALSE /\ snd.input.closed = FALSE
      /\ toThread.data = Bytes(snd.input.total_pushed, owner.wrote)
      /\ snd.input.total_pushed <= owner.wrote
      /\ toOwner.data = Bytes(owner.read, Inbound(local).total_poped)
      /\ owner.read <= Inbound(local).total_poped
  BY <1>1, <1>2, <1>3, LocalParts DEF IInv, Flagged, Lying
<1>5. AvailableCapacity(snd.input) \in Nat \ {0}
  BY <1>1, <1>3 DEF AvailableCapacity
<1> DEFINE a == snd.input.total_pushed
<1>6. /\ n \in 0 .. AvailableCapacity(snd.input) /\ a + n <= owner.wrote
      /\ read.data = Bytes(a, a + n)
      /\ read.channel \in Channel /\ read.channel.data = Bytes(a + n, owner.wrote)
      /\ (read.channel.shut <=> toThread.shut)
      /\ (read.eof <=> n = 0 /\ toThread.shut)
      /\ n = 0 => a = owner.wrote
  <2> DEFINE size == AvailableCapacity(snd.input)
  <2>1. /\ owner.wrote \in Nat /\ a \in Nat /\ a <= owner.wrote
        /\ toThread \in Channel /\ toThread.data = Bytes(a, owner.wrote) /\ size \in Nat \ {0}
    BY <1>2, <1>3, <1>4, <1>5
  <2>2. ReadsOn(toThread, size, a, owner.wrote)
    <3> HIDE DEF a, size
    <3> QED BY <2>1, ReadOfBytes
  <2> QED BY <1>3, <2>2 DEF ReadsOn
<1>7. eof \in BOOLEAN
  BY DEF ReadFrom
<1> HIDE DEF read
<1> HIDE DEF n
<1>8. n \in Nat /\ n <= AvailableCapacity(snd.input)
  BY <1>5, <1>6
<1>9. Written(snd, n) = [snd EXCEPT !.input = PushBytes(@, read.data)]
  <2>1. (a + n) - a = n
    BY <1>3, <1>8
  <2>2. read.data = [i \in 1 .. n |-> a + i]
    BY <1>6, <2>1 DEF Bytes
  <2> QED BY <2>2 DEF Written
<1>10. PushBytes(snd.input, read.data) \in Stream
  <2>1. a + n \in Nat /\ a <= a + n
    BY <1>3, <1>8
  <2>2. Bytes(a, a + n) \in Seq(Byte) /\ Len(read.data) = n
    <3> HIDE DEF a
    <3>1. a \in Nat
      BY <1>3 DEF a
    <3> QED BY <2>1, <3>1, BytesType DEF n
  <2> QED BY <1>3, <1>6, <1>8, <2>2, PushBytesFits
<1>11. /\ closed \in Local /\ last \in Sender /\ closed.tcp = [p EXCEPT !.sender = last]
       /\ closed.eof = eof /\ closed.outbound_shutdown = eof
  <2>1. /\ local \in Local /\ ~local.eof /\ ~local.outbound_shutdown
        /\ read.eof \in BOOLEAN /\ PushBytes(local.tcp.sender.input, read.data) \in Stream
    BY <1>2, <1>4, <1>7, <1>10
  <2>2. closed = Filled(local, read)
    BY DEF Filled, Fill
  <2>3. last = Gets(local.tcp.sender, read)
    BY <1>9 DEF Gets
  <2> HIDE DEF last, closed, filled
  <2>4. /\ closed \in Local /\ last \in Sender /\ closed.tcp = [local.tcp EXCEPT !.sender = last]
        /\ (closed.eof <=> read.eof) /\ (closed.outbound_shutdown <=> read.eof)
    BY <2>1, <2>2, <2>3, FilledParts
  <2>5. closed.eof \in BOOLEAN /\ closed.outbound_shutdown \in BOOLEAN
    BY <2>4 DEF Local
  <2> QED BY <2>1, <2>4, <2>5
<1> HIDE DEF filled, closed, p, eof
<1>12. /\ Good(last) /\ Carries(last) /\ Forward(snd, last) /\ last.ackno = snd.ackno
       /\ last.input.total_pushed = a + n
       /\ last.input.closed <=> eof
  BY <1>3, <1>4, <1>7, <1>8, SenderGets
<1> HIDE DEF last
<1> DEFINE q == closed.tcp
<1>13. q \in Peer /\ q.sender = last /\ q.receiver = p.receiver
  BY <1>2, <1>11, LocalParts DEF Peer, p, Local
<1> HIDE DEF q
<1>14. Between(q, far, remote.heard) /\ Good(far)
  <2>1. /\ Good(far) /\ Heard(far, p.receiver) /\ snd.ackno <= remote.heard
        /\ remote.heard <= snd.next_seqno /\ remote.heard \in Nat
    BY <1>2, JoinedParts DEF Joined
  <2>2. last.next_seqno >= snd.next_seqno /\ last.next_seqno \in Nat /\ snd.next_seqno \in Nat
        /\ last.ackno \in Nat
    BY <1>3, <1>12, GoodCounters DEF Forward
  <2>3. remote.heard \in last.ackno .. last.next_seqno
    BY <1>12, <2>1, <2>2
  <2> QED BY <1>12, <1>13, <2>1, <2>3 DEF Between
<1>15. /\ Moved(q, pushed.peer, pushed.out, far, remote.heard)
       /\ Finished(pushed.peer.sender) /\ pushed.peer.receiver = q.receiver
  BY <1>14, PushMoved DEF q
<1> HIDE DEF pushed
<1> DEFINE r == pushed.peer
<1>16. /\ SameOwner(last, r.sender) /\ Good(r.sender) /\ r \in Peer /\ Forward(last, r.sender)
  BY <1>13, <1>15 DEF Moved
<1> HIDE DEF r
<1>17. /\ r.sender.input.total_pushed = a + n /\ (r.sender.input.closed <=> eof)
       /\ r.sender.isn = OwnIsn
  BY <1>3, <1>12, <1>16 DEF SameOwner, Forward
<1>18. r.sender.next_seqno < HalfModulus
  <2>1. a + n <= OwnerBytes
    BY <1>2, <1>3, <1>6, <1>8
  <2> QED BY <1>16, <1>17, <2>1, OwnBounds
<1>19. Joined(r, remote)
  <2>1. Output(r.receiver).error => remote.reset
    BY <1>2, <1>13, <1>15 DEF r, Joined
  <2>2. /\ remote \in RemoteEnd /\ remote.sent \in 0 .. FinPosition + 1
    BY <1>2 DEF Joined
  <2>3. /\ Carries(r.sender) /\ Heard(far, r.receiver) /\ r.sender.ackno <= remote.heard
        /\ Finished(r.sender)
    BY <1>15 DEF Moved, r
  <2>4. remote.heard <= r.sender.next_seqno
    <3>1. /\ remote.heard \in last.ackno .. last.next_seqno
      BY <1>13, <1>14 DEF Between
    <3>2. last.next_seqno <= r.sender.next_seqno
      BY <1>16 DEF Forward
    <3>3. last.ackno \in Nat /\ last.next_seqno \in Nat /\ r.sender.next_seqno \in Nat
      BY <1>12, <1>16, GoodCounters
    <3> QED BY <3>1, <3>2, <3>3
  <2> QED BY <1>16, <1>17, <2>1, <2>2, <2>3, <2>4 DEF Joined, far
<1>20. /\ next \in Local /\ next.tcp = r /\ next.eof = eof /\ next.outbound_shutdown = eof
  <2>1. next = [closed EXCEPT !.tcp = r]
    BY DEF r
  <2> HIDE DEF next
  <2> QED BY <1>11, <1>16, <2>1 DEF Local
<1> HIDE DEF next
<1>21. Called(next, pushed.out)
  <2>1. /\ pushed.out \in Seq(Message)
        /\ \A i \in 1 .. Len(pushed.out) : OfStream(r.sender, pushed.out[i].sender)
    BY <1>15 DEF Moved, r
  <2> QED BY <1>18, <1>19, <1>20, <2>1 DEF Called
<1>22. Inbound(next) = Inbound(local) /\ Outbound(next) = r.sender.input
  <2>1. r.receiver = p.receiver
    BY <1>13, <1>15 DEF r
  <2> QED BY <1>20, <2>1 DEF Inbound, Outbound, p
<1>23. Lying(next, read.channel, toOwner)
  BY <1>4, <1>6, <1>17, <1>22 DEF Lying
<1>24. Flagged(next, read.channel)
  <2>1. Outbound(next).closed = eof
    <3>1. r.sender.input.closed \in BOOLEAN
      BY <1>16, GoodCounters DEF Stream
    <3> QED BY <1>7, <1>17, <1>22, <3>1
  <2>2. ASSUME eof PROVE read.channel.shut /\ read.channel.data = <<>>
    <3>1. n = 0 /\ toThread.shut /\ a = owner.wrote /\ a + n = a
      BY <1>3, <1>6, <2>2 DEF eof
    <3>2. Bytes(a, a) = <<>>
      BY <1>3, BytesNone
    <3> QED BY <1>6, <3>1, <3>2
  <2> QED BY <1>20, <2>1, <2>2 DEF Flagged
<1> QED BY <1>1, <1>6, <1>21, <1>22, <1>23, <1>24

LEMMA ServeFromOwnerKeeps == IInv /\ ServeFromOwner => IInv'
<1> SUFFICES ASSUME IInv, ServeFromOwner PROVE IInv'
  OBVIOUS
<1> DEFINE rules  == Pass.rules
           read   == ReadFrom(toThread, AvailableCapacity(Outbound(local)))
           filled == [local EXCEPT !.tcp.sender.input = PushBytes(@, read.data), !.eof = @ \/ read.eof]
           closed == IF filled.eof THEN CloseOutbound(filled) ELSE filled
           pushed == PeerPush(closed.tcp)
           next   == [closed EXCEPT !.tcp = pushed.peer]
           sent   == pushed.out
           in     == read.channel
<1>1. Polled /\ Pass.served = FromOwner
  BY DEF ServeFromOwner
<1>2. /\ Pass.state = local /\ rules \subseteq loop.rules
      /\ \A r \in loop.rules : r \notin rules => r # Network /\ (r = ToOwner => toOwner.shut)
      /\ RuleInterest(local, FromOwner) /\ adapter \in {Listening, Met} /\ Looping
      /\ owner.eof => toOwner.data = <<>>
  BY <1>1, RulesPassed
<1>3. /\ loop' = [rules |-> rules, poll |-> NotPolled] /\ adapter' = adapter
      /\ Continue(next, sent, in, toOwner) /\ owner' = owner /\ inbox' = inbox
  BY <1>2 DEF ServeFromOwner
<1>4. /\ Called(next, sent) /\ in \in Channel
      /\ Flagged(next, in) /\ Lying(next, in, toOwner)
      /\ Inbound(next) = Inbound(local) /\ ~AnyErrors(local.tcp)
  BY <1>2, OwnerGives
<1> HIDE DEF rules, next, sent, in
<1>5. Over(next) <=> Over(local)
  BY <1>4 DEF Over
<1>6. /\ inbox' \in Seq(Datagram)
      /\ \A i \in 1 .. Len(inbox') : \E j \in 1 .. Len(inbox) : inbox'[i] = inbox[j]
  BY <1>3, InvParts
<1> QED BY <1>2, <1>3, <1>4, <1>5, <1>6, InvParts, CallKeeps
-----------------------------------------------------------------------------
(* Rule 3.                                                                   *)

\* What the peer has for the owner.
LEMMA InboundBytes ==
  ASSUME IInv
  PROVE  /\ Inbound(local).total_poped \in Nat /\ Inbound(local).total_pushed \in Nat
         /\ Inbound(local).total_poped <= Inbound(local).total_pushed
         /\ Inbound(local).buffer = Bytes(Inbound(local).total_poped, Inbound(local).total_pushed)
         /\ Len(Inbound(local).buffer) = BytesBuffered(Inbound(local))
<1> DEFINE out == Inbound(local)
<1>1. Faithful(local.tcp.receiver.reassembler) /\ out \in Stream
  BY InvParts, LocalParts DEF Joined, Heard
<1>2. /\ out.total_poped \in Nat /\ out.total_pushed \in Nat
      /\ out.total_poped <= out.total_pushed
      /\ out.buffer = Bytes(out.total_poped, out.total_pushed)
  BY <1>1 DEF Faithful, Inbound, Output, Stream
<1> HIDE DEF out
<1>3. Len(out.buffer) = out.total_pushed - out.total_poped
  BY <1>2, BytesType
<1> QED BY <1>2, <1>3 DEF out, BytesBuffered

\* A part of it is taken out.
LEMMA TakeOutParts ==
  ASSUME NEW l \in Local, NEW n \in Nat, PopBytes(Inbound(l), n) \in Stream
  PROVE  LET rcv == [l.tcp.receiver EXCEPT !.reassembler.output = PopBytes(@, n)]
         IN  /\ TakeOut(l, n) \in Local /\ TakeOut(l, n).tcp.sender = l.tcp.sender
             /\ TakeOut(l, n).tcp.receiver = rcv
             /\ (TakeOut(l, n).eof <=> l.eof)
             /\ (TakeOut(l, n).outbound_shutdown <=> l.outbound_shutdown)
             /\ Inbound(TakeOut(l, n)) = PopBytes(Inbound(l), n)
<1> DEFINE next == TakeOut(l, n)
           out  == PopBytes(Inbound(l), n)
           rsm  == [l.tcp.receiver.reassembler EXCEPT !.output = out]
           rcv  == [l.tcp.receiver EXCEPT !.reassembler = rsm]
           peer == [l.tcp EXCEPT !.receiver = rcv]
<1>1. /\ l.tcp \in Peer /\ l.tcp.receiver \in Receiver /\ l.tcp.receiver.reassembler \in Reassembler
      /\ out \in Stream
  BY LocalParts DEF Receiver
<1>2. Inbound(l) = l.tcp.receiver.reassembler.output
  BY DEF Inbound, Output
<1>3. next = [l EXCEPT !.tcp = peer]
  BY <1>2 DEF TakeOut
<1>4. rcv = [l.tcp.receiver EXCEPT !.reassembler.output = PopBytes(@, n)]
  BY <1>2
<1> HIDE DEF next, out
<1>5. rsm \in Reassembler /\ rsm.output = out
  BY <1>1 DEF Reassembler
<1> HIDE DEF rsm
<1>6. rcv \in Receiver /\ rcv.reassembler = rsm
  BY <1>1, <1>5 DEF Receiver
<1> HIDE DEF rcv
<1>7. peer \in Peer /\ peer.receiver = rcv /\ peer.sender = l.tcp.sender
  BY <1>1, <1>6 DEF Peer
<1> HIDE DEF peer
<1>8. /\ next \in Local /\ next.tcp = peer /\ next.eof = l.eof
      /\ next.outbound_shutdown = l.outbound_shutdown
  BY <1>3, <1>7 DEF Local
<1>9. Inbound(next) = out
  BY <1>5, <1>6, <1>7, <1>8 DEF Inbound, Output
<1> QED BY <1>4, <1>7, <1>8, <1>9 DEF next, out

LEMMA TakeOutFacts ==
  ASSUME IInv, Inbound(local).buffer # <<>>, NEW n \in Accepted(toOwner, Inbound(local).buffer)
  PROVE  LET l   == TakeOut(local, n)
             out == WriteTo(toOwner, Inbound(local).buffer, n)
         IN  /\ Called(l, <<>>) /\ Flagged(l, toThread) /\ Lying(l, toThread, out)
             /\ out \in Channel /\ (out.shut <=> toOwner.shut)
             /\ Over(local) => Over(l)
             /\ AnyErrors(local.tcp) => AnyErrors(l.tcp)
<1> DEFINE l   == TakeOut(local, n)
           in  == Inbound(local)
           out == WriteTo(toOwner, in.buffer, n)
           rcv == [local.tcp.receiver EXCEPT !.reassembler.output = PopBytes(@, n)]
           far == FarSender(remote.sent)
<1>1. /\ local \in Local /\ Joined(local.tcp, remote) /\ toOwner \in Channel /\ owner.read \in Nat
      /\ in \in Stream /\ in = Output(local.tcp.receiver)
  BY InvParts, LocalParts DEF Inbound
<1>2. /\ in.total_poped \in Nat /\ in.total_pushed \in Nat /\ in.total_poped <= in.total_pushed
      /\ in.buffer = Bytes(in.total_poped, in.total_pushed)
      /\ Len(in.buffer) = in.total_pushed - in.total_poped
  BY InboundBytes DEF BytesBuffered
<1>3. n \in 1 .. Len(in.buffer)
  <2>1. n \in 1 .. Least(Len(in.buffer), RoomIn(toOwner))
    BY DEF Accepted
  <2>2. RoomIn(toOwner) \in Int /\ Len(in.buffer) \in Int
    BY <1>1, <1>2, DescriptorAssumption DEF RoomIn, Channel
  <2> HIDE DEF in
  <2> QED BY <2>1, <2>2 DEF Least
<1>4. n \in Nat /\ n \in 0 .. in.total_pushed - in.total_poped /\ n \in 1 .. BytesBuffered(in)
  BY <1>2, <1>3 DEF BytesBuffered
<1>5. /\ PopBytes(in, n) \in Stream /\ PopBytes(in, n).total_poped = in.total_poped + n
      /\ PopBytes(in, n).total_pushed = in.total_pushed
      /\ PopBytes(in, n).error = in.error
  BY <1>1, <1>4, PopBytesKeeps
<1>6. /\ l \in Local /\ l.tcp.sender = local.tcp.sender /\ l.tcp.receiver = rcv
      /\ (l.eof <=> local.eof) /\ (l.outbound_shutdown <=> local.outbound_shutdown)
      /\ Inbound(l) = PopBytes(in, n)
  BY <1>1, <1>4, <1>5, TakeOutParts
<1>7. Heard(far, rcv)
  BY <1>1, <1>4, HearRead DEF Joined
<1> HIDE DEF l, rcv, in, far
<1>8. Output(rcv).error = Output(local.tcp.receiver).error
  <2>1. Inbound(l) = Output(rcv)
    BY <1>6 DEF Inbound
  <2> QED BY <1>1, <1>5, <1>6, <2>1
<1>9. Joined(l.tcp, remote)
  <2>1. l.tcp \in Peer
    BY <1>6, LocalParts
  <2> QED BY <1>1, <1>6, <1>7, <1>8, <2>1 DEF Joined, far
<1>10. Called(l, <<>>)
  BY <1>6, <1>9, InvParts DEF Called
<1>11. Flagged(local, toThread) /\ Lying(local, toThread, toOwner)
  BY NothingCalled
<1>12. Flagged(l, toThread)
  <2>1. l.eof = local.eof /\ l.outbound_shutdown = local.outbound_shutdown
    BY <1>1, <1>6 DEF Local
  <2>2. Outbound(l) = Outbound(local)
    BY <1>6 DEF Outbound
  <2> QED BY <1>11, <2>1, <2>2 DEF Flagged
<1>13. /\ out \in Channel /\ out.data = Bytes(owner.read, in.total_poped + n)
       /\ (out.shut <=> toOwner.shut)
  <2>1. toOwner.data = Bytes(owner.read, in.total_poped) /\ owner.read <= in.total_poped
    BY <1>11 DEF Lying, in
  <2> QED BY <1>1, <1>2, <1>4, <2>1, WriteOfBytes
<1> HIDE DEF out
<1>14. Lying(l, toThread, out)
  <2>1. Outbound(l) = Outbound(local) /\ Inbound(l).total_poped = in.total_poped + n
    BY <1>5, <1>6 DEF Outbound
  <2>2. owner.read <= in.total_poped
    BY <1>11 DEF Lying, in
  <2>3. owner.read <= in.total_poped + n
    BY <1>1, <1>2, <1>4, <2>2
  <2> QED BY <1>11, <1>13, <2>1, <2>3 DEF Lying
<1>15. Over(local) => Over(l)
  <2>1. ~IsFinished(in)
    BY <1>2, <1>3 DEF IsFinished
  <2> QED BY <1>5, <1>6, <2>1 DEF Over, in
<1>16. AnyErrors(local.tcp) => AnyErrors(l.tcp)
  BY <1>6, <1>8 DEF AnyErrors
<1> QED BY <1>10, <1>12, <1>13, <1>14, <1>15, <1>16 DEF l, out, in

\* The end of the callback.
LEMMA TellKeeps ==
  ASSUME IInv, Looping, NEW l, NEW out \in Channel, NEW rules,
         Called(l, <<>>), Flagged(l, toThread), Lying(l, toThread, out),
         rules \subseteq loop.rules,
         \A r \in loop.rules : r \notin rules => r # Network /\ (r = ToOwner => toOwner.shut),
         out.shut <=> toOwner.shut,
         Over(local) => Over(l), AnyErrors(local.tcp) => AnyErrors(l.tcp),
         owner.eof => out.data = <<>>,
         loop' = [rules |-> rules, poll |-> NotPolled], owner' = owner,
         adapter' \in {Listening, Met}, inbox' = inbox,
         TellOwner(l, out)
  PROVE  IInv'
<1>1. toThread \in Channel
  BY InvParts
<1>2. /\ inbox' \in Seq(Datagram)
      /\ \A i \in 1 .. Len(inbox') : \E j \in 1 .. Len(inbox) : inbox'[i] = inbox[j]
  BY InvParts
<1>3. CASE ~Over(l)
  <2>1. Continue(l, <<>>, toThread, out)
    BY <1>3 DEF TellOwner
  <2> QED BY <1>1, <1>2, <2>1, CallKeeps
<1>4. CASE Over(l)
  <2> DEFINE k == [l EXCEPT !.inbound_shutdown = TRUE]
             end == Shut(out)
  <2>1. Continue(k, <<>>, toThread, end)
    BY <1>4 DEF TellOwner
  <2>2. /\ k \in Local /\ k.tcp = l.tcp /\ k.eof = l.eof /\ k.outbound_shutdown = l.outbound_shutdown
    BY DEF Called, Local
  <2>3. end \in Channel /\ end.shut = TRUE /\ end.data = out.data
    BY ShutFacts
  <2> HIDE DEF k, end
  <2>4. Inbound(k) = Inbound(l) /\ Outbound(k) = Outbound(l)
    BY <2>2 DEF Inbound, Outbound
  <2>5. Called(k, <<>>)
    BY <2>2 DEF Called
  <2>6. Flagged(k, toThread) /\ Lying(k, toThread, end)
    BY <2>2, <2>3, <2>4 DEF Flagged, Lying
  <2>7. Over(k) /\ (Over(local) => Over(k))
    BY <1>4, <2>4 DEF Over
  <2>8. AnyErrors(local.tcp) => AnyErrors(k.tcp)
    BY <2>2
  <2> QED BY <1>1, <1>2, <2>1, <2>3, <2>5, <2>6, <2>7, <2>8, CallKeeps
<1> QED BY <1>3, <1>4

LEMMA ServeToOwnerKeeps == IInv /\ ServeToOwner => IInv'
<1> SUFFICES ASSUME IInv, ServeToOwner PROVE IInv'
  OBVIOUS
<1> DEFINE rules == Pass.rules
           data  == Inbound(local).buffer
<1>1. Polled /\ Pass.served = ToOwner
  BY DEF ServeToOwner
<1>2. /\ Pass.state = local /\ rules \subseteq loop.rules
      /\ \A r \in loop.rules : r \notin rules => r # Network /\ (r = ToOwner => toOwner.shut)
      /\ adapter \in {Listening, Met} /\ Looping
      /\ owner.eof => toOwner.shut /\ toOwner.data = <<>>
  BY <1>1, RulesPassed
<1>3. /\ loop' = [rules |-> rules, poll |-> NotPolled] /\ adapter' = adapter
      /\ owner' = owner /\ inbox' = inbox
      /\ \/ data = <<>> /\ TellOwner(local, toOwner)
         \/ /\ data # <<>> /\ ~WriteFails(toOwner)
            /\ \E n \in Accepted(toOwner, data) :
                 TellOwner(TakeOut(local, n), WriteTo(toOwner, data, n))
  BY <1>2 DEF ServeToOwner
<1> HIDE DEF rules
<1>4. CASE TellOwner(local, toOwner)
  BY <1>2, <1>3, <1>4, InvParts, NothingCalled, TellKeeps
<1>5. CASE /\ data # <<>> /\ ~WriteFails(toOwner)
           /\ \E n \in Accepted(toOwner, data) :
                TellOwner(TakeOut(local, n), WriteTo(toOwner, data, n))
  <2>1. PICK n \in Accepted(toOwner, data) : TellOwner(TakeOut(local, n), WriteTo(toOwner, data, n))
    BY <1>5
  <2> DEFINE l   == TakeOut(local, n)
             out == WriteTo(toOwner, data, n)
  <2>2. /\ Called(l, <<>>) /\ Flagged(l, toThread) /\ Lying(l, toThread, out)
        /\ out \in Channel /\ (out.shut <=> toOwner.shut)
        /\ Over(local) => Over(l)
        /\ AnyErrors(local.tcp) => AnyErrors(l.tcp)
    BY <1>5, TakeOutFacts
  <2>3. owner.eof => out.data = <<>>
    BY <1>2, <1>5 DEF WriteFails
  <2>4. TellOwner(l, out)
    BY <2>1
  <2>5. adapter' \in {Listening, Met}
    BY <1>2, <1>3
  <2> HIDE DEF l, out
  <2> QED BY <1>2, <1>3, <2>2, <2>3, <2>4, <2>5, TellKeeps
<1> QED BY <1>3, <1>4, <1>5

\* It fails only where the direction is shut, and a byte is left.
LEMMA KilledKeeps == IInv /\ Killed => IInv'
<1> SUFFICES ASSUME IInv, Killed PROVE IInv'
  OBVIOUS
<1>1. /\ Polled /\ Pass.served = ToOwner /\ Inbound(Pass.state).buffer # <<>> /\ WriteFails(toOwner)
      /\ thread' = "killed"
      /\ UNCHANGED <<local, adapter, loop, late, toThread, toOwner, owner, inbox, remote>>
  BY DEF Killed
<1>2. Pass.state = local /\ RoomIn(toOwner) > 0 /\ adapter \in {Listening, Met} /\ Looping
  BY <1>1, RulesPassed
<1>3. toOwner.shut /\ Inbound(local).buffer # <<>>
  BY <1>1, <1>2 DEF WriteFails
<1>4. DiesOnlyOfCutting'
  <2>1. CASE owner.phase = "waiting early"
    BY <1>1, <2>1 DEF DiesOnlyOfCutting
  <2>2. CASE owner.phase # "waiting early"
    <3>1. Over(local)
      BY <1>2, <1>3, <2>2 DEF IInv, Told, Looping
    <3>2. ~IsFinished(Inbound(local))
      <4>1. Len(Inbound(local).buffer) # 0
        BY <1>3, InboundBytes, BytesType
      <4> QED BY <4>1, InboundBytes DEF IsFinished, BytesBuffered
    <3>3. Inbound(local).error
      BY <3>1, <3>2 DEF Over
    <3>4. remote.reset
      BY <3>3 DEF IInv, Joined, Inbound
    <3> QED BY <1>1, <3>3, <3>4 DEF DiesOnlyOfCutting
  <2> QED BY <2>1, <2>2
<1>5. TypeOK' /\ Joined(local'.tcp, remote')
  BY <1>1, <1>2 DEF IInv, TypeOK
<1>6. \A i \in 1 .. Len(inbox') : Expected(remote', inbox'[i])
  BY <1>1 DEF IInv
<1>7. Flagged(local', toThread') /\ Lying(local, toThread, toOwner)'
  BY <1>1 DEF IInv, Flagged, Lying
<1>8. Served' /\ Told'
  BY <1>1, <1>2 DEF IInv, Served, Told, Looping
<1>9. AnswerHolds'
  BY <1>1 DEF IInv, AnswerHolds
<1>10. Through'
  BY <1>1 DEF Through
<1> QED BY <1>4, <1>5, <1>6, <1>7, <1>8, <1>9, <1>10 DEF IInv

LEMMA ClockKeeps == IInv /\ Clock => IInv'
<1> SUFFICES ASSUME IInv, Clock PROVE IInv'
  OBVIOUS
<1>1. /\ late' = TRUE
      /\ UNCHANGED <<thread, local, adapter, loop, toThread, toOwner, owner, inbox, remote>>
  BY DEF Clock
<1>2. TypeOK' /\ Joined(local'.tcp, remote')
  BY <1>1 DEF IInv, TypeOK
<1>3. \A i \in 1 .. Len(inbox') : Expected(remote', inbox'[i])
  BY <1>1 DEF IInv
<1>4. Flagged(local', toThread') /\ Lying(local, toThread, toOwner)'
  BY <1>1 DEF IInv, Flagged, Lying
<1>5. Served' /\ Told' /\ Through' /\ DiesOnlyOfCutting'
  BY <1>1 DEF IInv, Served, Told, Through, DiesOnlyOfCutting
<1>6. AnswerHolds'
  BY <1>1 DEF IInv, AnswerHolds
<1> QED BY <1>2, <1>3, <1>4, <1>5, <1>6 DEF IInv
-----------------------------------------------------------------------------
(* connect and listen_and_accept.                                            *)

LEMMA ListenAndAcceptKeeps == IInv /\ ListenAndAccept => IInv'
<1> SUFFICES ASSUME IInv, ListenAndAccept PROVE IInv'
  OBVIOUS
<1>1. /\ thread = "new" /\ thread' = "accept" /\ adapter' = Listening
      /\ UNCHANGED <<local, loop, late, toThread, toOwner, owner, inbox, remote>>
  BY DEF ListenAndAccept, Listening
<1>2. TypeOK' /\ Joined(local'.tcp, remote')
  BY <1>1 DEF IInv, TypeOK
<1>3. \A i \in 1 .. Len(inbox') : Expected(remote', inbox'[i])
  BY <1>1 DEF IInv
<1>4. Flagged(local', toThread') /\ Lying(local, toThread, toOwner)'
  BY <1>1 DEF IInv, Flagged, Lying
<1>5. Served' /\ Told' /\ Through' /\ DiesOnlyOfCutting'
  BY <1>1 DEF IInv, Served, Told, Through, DiesOnlyOfCutting
<1>6. AnswerHolds'
  BY <1>1 DEF IInv, AnswerHolds
<1> QED BY <1>2, <1>3, <1>4, <1>5, <1>6 DEF IInv

LEMMA ConnectKeeps == IInv /\ Connect => IInv'
<1> SUFFICES ASSUME IInv, Connect PROVE IInv'
  OBVIOUS
<1> DEFINE pushed == PeerPush(local.tcp)
           next   == [local EXCEPT !.tcp = pushed.peer]
<1>1. /\ thread = "new" /\ thread' = "connect" /\ adapter' = Met
      /\ local' = next /\ remote' = HearAll(remote, adapter', pushed.out)
      /\ UNCHANGED <<loop, late, toThread, toOwner, owner, inbox>>
  BY DEF Connect, Met
<1>2. /\ local \in Local /\ local.tcp \in Peer /\ Joined(local.tcp, remote)
      /\ remote.sent \in 0 .. FinPosition + 1
      /\ owner.wrote \in 0 .. OwnerBytes /\ Outbound(local).total_pushed <= OwnerBytes
  BY InvParts, LocalParts
<1>3. Between(local.tcp, FarSender(remote.sent), remote.heard)
  BY <1>2, JoinedParts
<1>4. /\ Moved(local.tcp, pushed.peer, pushed.out, FarSender(remote.sent), remote.heard)
      /\ Finished(pushed.peer.sender) /\ pushed.peer.receiver = local.tcp.receiver
  BY <1>3, PushMoved
<1> HIDE DEF pushed
<1>5. /\ pushed.peer \in Peer /\ Good(pushed.peer.sender) /\ pushed.out \in Seq(Message)
      /\ SameOwner(local.tcp.sender, pushed.peer.sender)
      /\ \A i \in 1 .. Len(pushed.out) : OfStream(pushed.peer.sender, pushed.out[i].sender)
  BY <1>4 DEF Moved
<1>6. /\ next \in Local /\ next.tcp = pushed.peer /\ next.eof = local.eof
      /\ next.outbound_shutdown = local.outbound_shutdown
  BY <1>2, <1>5 DEF Local
<1> HIDE DEF next
<1>7. /\ Inbound(next) = Inbound(local) /\ Outbound(next).total_pushed = Outbound(local).total_pushed
      /\ Outbound(next).closed = Outbound(local).closed
  BY <1>4, <1>5, <1>6 DEF Inbound, Outbound, SameOwner
<1>8. Joined(next.tcp, remote)
  <2>1. Output(pushed.peer.receiver).error => remote.reset
    BY <1>2, <1>4 DEF Joined
  <2> QED BY <1>2, <1>4, <1>6, <2>1, CallJoins
<1>9. Called(next, pushed.out)
  <2>1. next.tcp.sender.next_seqno < HalfModulus
    BY <1>2, <1>5, <1>6, <1>7, OwnBounds DEF Outbound
  <2> QED BY <1>5, <1>6, <1>8, <2>1 DEF Called
<1>10. /\ Heeds(remote, remote', next.tcp.sender) /\ Joined(next.tcp, remote')
  BY <1>1, <1>9, CalledHears
<1>11. /\ remote' \in RemoteEnd /\ remote'.sent = remote.sent /\ remote.heard <= remote'.heard
       /\ remote.reset => remote'.reset
  BY <1>10 DEF Heeds
<1>12. \A i \in 1 .. Len(inbox') : Expected(remote', inbox'[i])
  <2>1. /\ remote \in RemoteEnd /\ FinPosition + 1 \in Nat
        /\ remote'.sent \in remote.sent .. FinPosition + 1
    BY <1>2, <1>11, Bounds, InvParts
  <2>2. \A i \in 1 .. Len(inbox) : Expected(remote, inbox[i])
    BY DEF IInv
  <2> QED BY <1>1, <1>2, <1>11, <2>1, <2>2, ExpectedForward
<1>13. TypeOK'
  BY <1>1, <1>6 DEF IInv, TypeOK
<1>14. Flagged(local', toThread') /\ Lying(local, toThread, toOwner)'
  BY <1>1, <1>6, <1>7 DEF IInv, Flagged, Lying
<1>15. Over(next) <=> Over(local)
  BY <1>7 DEF Over
<1>16. Told'
  BY <1>1, <1>15 DEF IInv, Told
<1>17. Served' /\ Through' /\ DiesOnlyOfCutting'
  BY <1>1 DEF IInv, Served, Through, DiesOnlyOfCutting
<1>18. AnswerHolds'
  BY <1>1 DEF IInv, AnswerHolds
<1> QED BY <1>1, <1>10, <1>12, <1>13, <1>14, <1>16, <1>17, <1>18 DEF IInv
-----------------------------------------------------------------------------
(* The owner.                                                                *)

\* What a step of the owner must see to, so that the rest stays as it is.
LEMMA OwnerKeeps ==
  ASSUME IInv, OwnerFree, NEW in, NEW out, NEW new, OwnerChanges(in, out, new),
         in \in Channel, out \in Channel,
         new \in Owner,
         Flagged(local, in),
         out.data = Bytes(new.read, Inbound(local).total_poped),
         in.data = Bytes(Outbound(local).total_pushed, new.wrote),
         new.read <= Inbound(local).total_poped, Outbound(local).total_pushed <= new.wrote,
         toThread.shut => in.shut, toOwner.shut => out.shut,
         RoomIn(toOwner) > 0 => RoomIn(out) > 0,
         out.shut /\ new.phase # "waiting early" => Over(local) \/ thread = "ended",
         new.eof => /\ out.shut /\ out.data = <<>> /\ new.phase # "waiting early"
                    /\ Over(local) \/ AnyErrors(local.tcp)
  PROVE  IInv'
<1>1. /\ toThread' = in /\ toOwner' = out /\ owner' = new
      /\ UNCHANGED <<thread, local, adapter, loop, late, inbox, remote>>
      /\ thread \in {"main", "ended"} /\ owner.phase = "open"
  BY DEF OwnerChanges, OwnerFree
<1>2. TypeOK' /\ Joined(local'.tcp, remote')
  BY <1>1 DEF IInv, TypeOK
<1>3. \A i \in 1 .. Len(inbox') : Expected(remote', inbox'[i])
  BY <1>1 DEF IInv
<1>4. Flagged(local', toThread') /\ Lying(local, toThread, toOwner)'
  BY <1>1 DEF Flagged, Lying
<1>5. Served' /\ DiesOnlyOfCutting'
  BY <1>1 DEF IInv, Served, DiesOnlyOfCutting
<1>6. Told'
  <2>1. thread # "new"
    BY <1>1
  <2> QED BY <1>1, <2>1 DEF Told
<1>7. Through'
  <2>1. owner.phase # "destructing" /\ owner.phase # "waiting early"
    BY <1>1
  <2> QED BY <1>1, <2>1 DEF IInv, Through
<1>8. AnswerHolds'
  BY <1>1 DEF IInv, AnswerHolds
<1> QED BY <1>2, <1>3, <1>4, <1>5, <1>6, <1>7, <1>8 DEF IInv

\* What the owner knows while it is free.
LEMMA OwnerSees ==
  ASSUME IInv, OwnerFree
  PROVE  /\ owner \in Owner
         /\ owner.wrote \in 0 .. OwnerBytes /\ owner.wrote \in Nat /\ OwnerBytes \in Nat /\ owner.read \in Nat
         /\ toThread \in Channel /\ toOwner \in Channel
         /\ Flagged(local, toThread) /\ Lying(local, toThread, toOwner)
         /\ Outbound(local).total_pushed \in Nat /\ Inbound(local).total_poped \in Nat
         /\ owner.read <= Inbound(local).total_poped /\ Outbound(local).total_pushed <= owner.wrote
         /\ toOwner.data = Bytes(owner.read, Inbound(local).total_poped)
         /\ toThread.data = Bytes(Outbound(local).total_pushed, owner.wrote)
         /\ toOwner.shut => /\ Over(local) \/ thread = "ended"
                            /\ Over(local) \/ AnyErrors(local.tcp)
         /\ owner.eof => toOwner.shut /\ toOwner.data = <<>>
<1>1. /\ Flagged(local, toThread) /\ Lying(local, toThread, toOwner)
      /\ Outbound(local) \in Stream /\ Inbound(local) \in Stream
  BY NothingCalled, LocalParts DEF Called
<1>2. toOwner.shut => Over(local) \/ thread = "ended"
  BY DEF IInv, Told, OwnerFree
<1>3. toOwner.shut => Over(local) \/ AnyErrors(local.tcp)
  <2>1. thread = "ended" => AnyErrors(local.tcp) \/ Over(local)
    BY DEF IInv, Through, OwnerFree, Over
  <2> QED BY <1>2, <2>1
<1>4. /\ Outbound(local).total_pushed \in Nat /\ Inbound(local).total_poped \in Nat
  BY <1>1 DEF Stream
<1>5. /\ owner.read <= Inbound(local).total_poped /\ Outbound(local).total_pushed <= owner.wrote
      /\ toOwner.data = Bytes(owner.read, Inbound(local).total_poped)
      /\ toThread.data = Bytes(Outbound(local).total_pushed, owner.wrote)
  BY <1>1 DEF Lying
<1>6. owner.eof => toOwner.shut /\ toOwner.data = <<>>
  BY DEF IInv, Told
<1>7. owner \in Owner
  BY DEF IInv, TypeOK
<1>8. owner.wrote \in 0 .. OwnerBytes /\ owner.wrote \in Nat /\ OwnerBytes \in Nat /\ owner.read \in Nat
  <2>1. owner.wrote \in 0 .. OwnerBytes /\ owner.read \in Nat
    BY InvParts
  <2> QED BY <2>1, SocketAssumption
<1>9. toThread \in Channel /\ toOwner \in Channel
  BY InvParts
<1> QED BY <1>1, <1>2, <1>3, <1>4, <1>5, <1>6, <1>7, <1>8, <1>9

LEMMA OwnerWritesKeeps == IInv /\ OwnerWrites => IInv'
<1> SUFFICES ASSUME IInv, OwnerWrites PROVE IInv'
  OBVIOUS
<1>1. OwnerFree /\ ~WriteFails(toThread)
  BY DEF OwnerWrites
<1>2. PICK n \in 1 .. Least(RoomIn(toThread), OwnerBytes - owner.wrote) :
        OwnerChanges(WriteTo(toThread, [i \in 1 .. n |-> owner.wrote + i], n), toOwner,
                     [owner EXCEPT !.wrote = @ + n])
  BY DEF OwnerWrites
<1> DEFINE data == [i \in 1 .. n |-> owner.wrote + i]
           in   == WriteTo(toThread, data, n)
           new  == [owner EXCEPT !.wrote = @ + n]
           pushed == Outbound(local).total_pushed
<1>3. OwnerChanges(in, toOwner, new)
  BY <1>2
<1>4. /\ owner.wrote \in 0 .. OwnerBytes /\ owner.wrote \in Nat /\ OwnerBytes \in Nat /\ pushed \in Nat /\ pushed <= owner.wrote
      /\ toThread \in Channel /\ toThread.data = Bytes(pushed, owner.wrote)
      /\ owner \in Owner
  BY <1>1, OwnerSees
<1>5. n \in Nat /\ n <= OwnerBytes - owner.wrote
  <2>1. RoomIn(toThread) \in Int
    BY <1>4, DescriptorAssumption DEF RoomIn, Channel
  <2> QED BY <1>4, <2>1 DEF Least
<1>6. data = Bytes(owner.wrote, owner.wrote + n)
  <2>1. (owner.wrote + n) - owner.wrote = n
    BY <1>4, <1>5
  <2> QED BY <2>1 DEF Bytes
<1>7. in \in Channel /\ in.data = Bytes(pushed, owner.wrote + n) /\ (in.shut <=> toThread.shut)
  <2>1. /\ owner.wrote + n \in Nat /\ owner.wrote <= owner.wrote + n
        /\ n \in 0 .. (owner.wrote + n) - owner.wrote
    BY <1>4, <1>5
  <2> QED BY <1>4, <1>6, <2>1, WriteOfBytes
<1>8. /\ new \in Owner
      /\ new.wrote = owner.wrote + n /\ new.read = owner.read /\ (new.eof <=> owner.eof)
      /\ new.phase = owner.phase /\ pushed <= owner.wrote + n
  <2>1. owner.wrote + n \in 0 .. OwnerBytes /\ pushed <= owner.wrote + n
    BY <1>4, <1>5
  <2> DEFINE w == owner.wrote + n
  <2>2. w \in 0 .. OwnerBytes /\ new = [owner EXCEPT !.wrote = w]
    BY <2>1
  <2> HIDE DEF w, new
  <2>3. /\ new \in Owner /\ new.wrote = w /\ new.read = owner.read /\ (new.eof <=> owner.eof)
        /\ new.phase = owner.phase
    BY <1>4, <2>2 DEF Owner
  <2> QED BY <2>1, <2>3 DEF w
<1> HIDE DEF in, data, new
<1>9. ~local.eof
  BY <1>1, OwnerSees DEF Flagged, WriteFails
<1>10. Flagged(local, in)
  BY <1>1, <1>9, OwnerSees DEF Flagged
<1>11. toOwner.data = Bytes(new.read, Inbound(local).total_poped) /\ new.read <= Inbound(local).total_poped
  BY <1>1, <1>8, OwnerSees
<1>12. owner.phase = "open"
  BY <1>1 DEF OwnerFree
<1> QED BY <1>1, <1>3, <1>7, <1>8, <1>10, <1>11, <1>12, OwnerSees, OwnerKeeps

LEMMA OwnerReadsKeeps == IInv /\ OwnerReads => IInv'
<1> SUFFICES ASSUME IInv, OwnerReads PROVE IInv'
  OBVIOUS
<1>1. OwnerFree /\ ~owner.eof /\ owner.phase = "open"
  BY DEF OwnerReads, OwnerFree
<1>2. PICK size \in 1 .. PipeCapacity :
        OwnerChanges(toThread, ReadFrom(toOwner, size).channel,
                     [owner EXCEPT !.read = @ + Len(ReadFrom(toOwner, size).data),
                                   !.eof = ReadFrom(toOwner, size).eof])
  BY DEF OwnerReads
<1> DEFINE read  == ReadFrom(toOwner, size)
           n     == Len(read.data)
           out   == read.channel
           poped == Inbound(local).total_poped
           new   == [owner EXCEPT !.read = @ + n, !.eof = read.eof]
<1>3. OwnerChanges(toThread, out, new)
  BY <1>2
<1>4. /\ owner.read \in Nat /\ poped \in Nat /\ owner.read <= poped
      /\ toOwner \in Channel /\ toOwner.data = Bytes(owner.read, poped)
      /\ owner \in Owner
  BY <1>1, OwnerSees
<1>5. size \in Nat \ {0}
  BY DescriptorAssumption
<1>6. /\ n \in 0 .. size /\ owner.read + n <= poped
      /\ out \in Channel /\ out.data = Bytes(owner.read + n, poped)
      /\ (out.shut <=> toOwner.shut)
      /\ (read.eof <=> n = 0 /\ toOwner.shut)
      /\ n = 0 => owner.read = poped
  <2>1. ReadsOn(toOwner, size, owner.read, poped)
    <3> HIDE DEF poped
    <3> QED BY <1>4, <1>5, ReadOfBytes
  <2> QED BY <2>1 DEF ReadsOn
<1>7. read.eof \in BOOLEAN
  BY DEF ReadFrom
<1>8. n \in Nat
  BY <1>5, <1>6
<1> HIDE DEF read, n, out
<1>9. /\ new \in Owner
      /\ new.wrote = owner.wrote /\ new.read = owner.read + n /\ (new.eof <=> read.eof)
      /\ new.phase = owner.phase
  <2> DEFINE m == owner.read + n
  <2>1. m \in Nat /\ new = [owner EXCEPT !.read = m, !.eof = read.eof]
    BY <1>4, <1>8
  <2> HIDE DEF m, new
  <2>2. /\ new \in Owner /\ new.wrote = owner.wrote /\ new.read = m /\ (new.eof <=> read.eof)
        /\ new.phase = owner.phase
    BY <1>4, <1>7, <2>1 DEF Owner
  <2> QED BY <2>2 DEF m
<1> HIDE DEF new
<1>10. toThread.data = Bytes(Outbound(local).total_pushed, new.wrote) /\ Outbound(local).total_pushed <= new.wrote
  BY <1>1, <1>9, OwnerSees
<1>11. new.eof => out.shut /\ out.data = <<>>
  <2> SUFFICES ASSUME new.eof PROVE out.shut /\ out.data = <<>>
    OBVIOUS
  <2>1. n = 0 /\ out.shut /\ owner.read = poped
    BY <1>6, <1>9
  <2>2. out.data = Bytes(poped, poped)
    BY <1>4, <1>6, <2>1
  <2> QED BY <1>4, <2>1, <2>2, BytesNone
<1>12. RoomIn(toOwner) > 0 => RoomIn(out) > 0
  <2>1. Len(toOwner.data) = poped - owner.read
    BY <1>4, BytesType
  <2>2. Len(out.data) = poped - (owner.read + n)
    <3>1. owner.read + n \in Nat
      BY <1>4, <1>8
    <3> HIDE DEF poped
    <3> QED BY <1>4, <1>6, <3>1, BytesType
  <2> QED BY <1>4, <1>8, <2>1, <2>2, DescriptorAssumption DEF RoomIn
<1>13. toThread \in Channel /\ Flagged(local, toThread)
  BY <1>1, OwnerSees
<1>14. out.shut => /\ Over(local) \/ thread = "ended"
                   /\ Over(local) \/ AnyErrors(local.tcp)
  BY <1>1, <1>6, OwnerSees
<1>15. new.phase # "waiting early"
  BY <1>1, <1>9
<1> QED BY <1>1, <1>3, <1>6, <1>9, <1>10, <1>11, <1>12, <1>13, <1>14, <1>15, OwnerKeeps

LEMMA OwnerShutsDownKeeps == IInv /\ OwnerShutsDown => IInv'
<1> SUFFICES ASSUME IInv, OwnerShutsDown PROVE IInv'
  OBVIOUS
<1> DEFINE in == Shut(toThread)
<1>1. /\ OwnerFree /\ OwnerChanges(in, toOwner, owner) /\ owner.phase = "open"
  BY DEF OwnerShutsDown, OwnerFree
<1>2. in \in Channel /\ in.shut = TRUE /\ in.data = toThread.data
  BY <1>1, OwnerSees, ShutFacts
<1> HIDE DEF in
<1>3. Flagged(local, in)
  BY <1>1, <1>2, OwnerSees DEF Flagged
<1>4. in.data = Bytes(Outbound(local).total_pushed, owner.wrote)
  BY <1>1, <1>2, OwnerSees
<1> QED BY <1>1, <1>2, <1>3, <1>4, OwnerSees, OwnerKeeps

\* Both directions are shut down.
LEMMA BothShut ==
  ASSUME IInv, OwnerFree, NEW phase \in {"waiting", "waiting early"},
         owner.eof <=> phase = "waiting",
         OwnerChanges(Shut(toThread), Shut(toOwner), [owner EXCEPT !.phase = phase])
  PROVE  IInv'
<1> DEFINE in  == Shut(toThread)
           out == Shut(toOwner)
           new == [owner EXCEPT !.phase = phase]
<1>1. OwnerChanges(in, out, new)
  OBVIOUS
<1>2. /\ in \in Channel /\ in.shut = TRUE /\ in.data = toThread.data
      /\ out \in Channel /\ out.shut = TRUE /\ out.data = toOwner.data
  BY OwnerSees, ShutFacts
<1>3. /\ new \in Owner
      /\ new.wrote = owner.wrote /\ new.read = owner.read /\ (new.eof <=> owner.eof)
      /\ new.phase = phase
  BY OwnerSees DEF Owner
<1> HIDE DEF in, out, new
<1>4. Flagged(local, in)
  BY <1>2, OwnerSees DEF Flagged
<1>5. /\ in.data = Bytes(Outbound(local).total_pushed, new.wrote) /\ Outbound(local).total_pushed <= new.wrote
      /\ out.data = Bytes(new.read, Inbound(local).total_poped) /\ new.read <= Inbound(local).total_poped
  BY <1>2, <1>3, OwnerSees
<1>6. RoomIn(out) = RoomIn(toOwner)
  BY <1>2 DEF RoomIn
<1>7. out.shut /\ new.phase # "waiting early" => Over(local) \/ thread = "ended"
  BY <1>3, OwnerSees
<1>8. new.eof => /\ out.shut /\ out.data = <<>> /\ new.phase # "waiting early"
                 /\ Over(local) \/ AnyErrors(local.tcp)
  BY <1>2, <1>3, OwnerSees
<1> QED BY <1>1, <1>2, <1>3, <1>4, <1>5, <1>6, <1>7, <1>8, OwnerKeeps

LEMMA WaitUntilClosedKeeps == IInv /\ (WaitUntilClosed \/ WaitUntilClosedEarly) => IInv'
<1>1. IInv /\ WaitUntilClosed => IInv'
  BY BothShut DEF WaitUntilClosed
<1>2. IInv /\ WaitUntilClosedEarly => IInv'
  BY BothShut DEF WaitUntilClosedEarly
<1> QED BY <1>1, <1>2

LEMMA DestructKeeps == IInv /\ Destruct => IInv'
<1> SUFFICES ASSUME IInv, Destruct PROVE IInv'
  OBVIOUS
<1> DEFINE new == [owner EXCEPT !.phase = "destructing"]
<1>1. OwnerFree /\ OwnerChanges(toThread, toOwner, new)
  BY DEF Destruct
<1>2. /\ new \in Owner
      /\ new.wrote = owner.wrote /\ new.read = owner.read /\ (new.eof <=> owner.eof)
      /\ new.phase = "destructing"
  BY <1>1, OwnerSees DEF Owner
<1> HIDE DEF new
<1>3. /\ toThread.data = Bytes(Outbound(local).total_pushed, new.wrote) /\ Outbound(local).total_pushed <= new.wrote
      /\ toOwner.data = Bytes(new.read, Inbound(local).total_poped) /\ new.read <= Inbound(local).total_poped
  BY <1>1, <1>2, OwnerSees
<1> QED BY <1>1, <1>2, <1>3, OwnerSees, OwnerKeeps
-----------------------------------------------------------------------------
(* The network.                                                              *)

\* One more datagram waits.
LEMMA DatagramWaits ==
  ASSUME IInv, NEW dgram \in Datagram, inbox' = Append(inbox, dgram), Expected(remote', dgram),
         UNCHANGED <<thread, local, adapter, loop, late, toThread, toOwner, owner>>,
         Joined(local.tcp, remote'), remote.sent <= remote'.sent, remote.heard <= remote'.heard,
         remote.reset => remote'.reset
  PROVE  IInv'
<1>1. UNCHANGED <<thread, local, adapter, loop, late, toThread, toOwner, owner>>
  OBVIOUS
<1>2. /\ inbox \in Seq(Datagram) /\ inbox' \in Seq(Datagram) /\ inbox' # <<>>
      /\ Len(inbox') = Len(inbox) + 1 /\ Len(inbox) \in Nat
      /\ \A i \in 1 .. Len(inbox) : inbox'[i] = inbox[i]
      /\ inbox'[Len(inbox) + 1] = dgram
  BY InvParts
<1>3. /\ remote \in RemoteEnd /\ remote.sent \in 0 .. FinPosition + 1
      /\ remote' \in RemoteEnd /\ remote'.sent \in remote.sent .. FinPosition + 1
  <2>1. /\ remote \in RemoteEnd /\ remote.sent \in 0 .. FinPosition + 1
        /\ remote' \in RemoteEnd /\ remote'.sent \in 0 .. FinPosition + 1
    BY InvParts DEF Joined
  <2> QED BY <2>1, Bounds
<1>4. \A i \in 1 .. Len(inbox') : Expected(remote', inbox'[i])
  <2> TAKE i \in 1 .. Len(inbox')
  <2>1. CASE i = Len(inbox) + 1
    BY <1>2, <2>1
  <2>2. CASE i # Len(inbox) + 1
    <3>1. i \in 1 .. Len(inbox) /\ inbox'[i] = inbox[i]
      BY <1>2, <2>2
    <3>2. Expected(remote, inbox[i])
      BY <3>1 DEF IInv
    <3> QED BY <1>3, <3>1, <3>2, ExpectedForward
  <2> QED BY <2>1, <2>2
<1>5. TypeOK'
  BY <1>1, <1>2 DEF IInv, TypeOK
<1>6. Flagged(local', toThread') /\ Lying(local, toThread, toOwner)'
  BY <1>1 DEF IInv, Flagged, Lying
<1>7. Served' /\ Told' /\ Through' /\ DiesOnlyOfCutting'
  <2>1. Served' /\ Told' /\ Through'
    BY <1>1 DEF IInv, Served, Told, Through
  <2>2. DiesOnlyOfCutting
    BY DEF IInv
  <2>3. remote.reset => remote'.reset
    OBVIOUS
  <2>4. thread' = thread /\ Inbound(local') = Inbound(local) /\ owner' = owner
    BY <1>1
  <2>5. DiesOnlyOfCutting'
    BY <2>2, <2>3, <2>4, Zenon DEF DiesOnlyOfCutting
  <2> QED BY <2>1, <2>5
<1>8. AnswerHolds'
  BY <1>1, <1>2 DEF IInv, AnswerHolds
<1> QED BY <1>1, <1>4, <1>5, <1>6, <1>7, <1>8 DEF IInv

LEMMA RemoteWritesKeeps ==
  ASSUME IInv, NEW end \in remote.sent .. FinPosition + 1, remote.sent > 0 \/ end <= 1,
         NEW rst \in BOOLEAN, RemoteWrites(remote.sent, end, rst)
  PROVE  IInv'
<1> DEFINE msg   == RemoteSegment(remote.sent, end, rst)
           dgram == WrapInIP(Away, msg)
           after == [remote EXCEPT !.sent = end, !.acked = remote.heard, !.reset = rst]
<1>1. /\ ~remote.reset /\ inbox' = Append(inbox, dgram) /\ remote' = after
      /\ UNCHANGED <<thread, local, adapter, loop, late, toThread, toOwner, owner>>
  BY DEF RemoteWrites, Away
<1>2. /\ Joined(local.tcp, remote) /\ remote \in RemoteEnd /\ remote.sent \in 0 .. FinPosition + 1
      /\ FinPosition \in Nat
  BY InvParts, Bounds
<1>3. remote.heard \in Nat
  BY <1>2 DEF RemoteEnd
<1>4. end \in 0 .. FinPosition + 1 /\ remote.sent <= end /\ end \in Nat
  BY <1>2
<1>5. /\ after \in RemoteEnd /\ after.sent = end /\ after.heard = remote.heard /\ after.reset = rst
  BY <1>2, <1>3, <1>4 DEF RemoteEnd
<1>6. msg \in Message
  BY <1>2, <1>3, RemoteSegmentSent
<1>7. Expected(after, dgram)
  <2> HIDE DEF after
  <2> QED BY <1>2, <1>3, <1>5, SegmentExpected
<1>8. dgram \in Datagram
  BY <1>6, AwayDatagram
<1> HIDE DEF msg, dgram, after
<1>9. Joined(local.tcp, after)
  <2>1. /\ Good(FarSender(remote.sent)) /\ Good(FarSender(end))
        /\ Forward(FarSender(remote.sent), FarSender(end))
    BY <1>2, <1>4, FarSenderGood, FarSenderForward
  <2>2. Heard(FarSender(remote.sent), local.tcp.receiver)
    BY <1>2 DEF Joined
  <2>3. Heard(FarSender(end), local.tcp.receiver)
    BY <2>1, <2>2, HeardForward
  <2>4. ~Output(local.tcp.receiver).error
    BY <1>1, <1>2 DEF Joined
  <2> QED BY <1>2, <1>4, <1>5, <2>3, <2>4 DEF Joined
<1> QED BY <1>1, <1>3, <1>4, <1>5, <1>7, <1>8, <1>9, DatagramWaits

LEMMA RemoteKeeps == IInv /\ (RemoteSends \/ RemoteAcks \/ RemoteResets) => IInv'
<1> SUFFICES ASSUME IInv, RemoteSends \/ RemoteAcks \/ RemoteResets PROVE IInv'
  OBVIOUS
<1>1. remote.sent \in 0 .. FinPosition + 1 /\ FinPosition \in Nat
  BY InvParts, Bounds
<1>2. CASE remote.sent = 0 /\ RemoteWrites(0, 1, FALSE)
  <2> DEFINE end == 1
  <2>1. end \in remote.sent .. FinPosition + 1 /\ end <= 1
    BY <1>1, <1>2
  <2>2. RemoteWrites(remote.sent, end, FALSE)
    BY <1>2, Zenon
  <2> HIDE DEF end
  <2> QED BY <2>1, <2>2, RemoteWritesKeeps
<1>3. ASSUME remote.sent > 0, NEW end \in remote.sent + 1 .. FinPosition + 1,
             RemoteWrites(remote.sent, end, FALSE)
      PROVE  IInv'
  <2>1. end \in remote.sent .. FinPosition + 1
    BY <1>1
  <2> QED BY <1>3, <2>1, RemoteWritesKeeps
<1>4. ASSUME NEW rst \in BOOLEAN, remote.sent > 0 \/ remote.sent <= 1,
             RemoteWrites(remote.sent, remote.sent, rst)
      PROVE  IInv'
  <2>1. remote.sent \in remote.sent .. FinPosition + 1
    BY <1>1
  <2> QED BY <1>4, <2>1, RemoteWritesKeeps
<1>5. CASE RemoteSends
  BY <1>2, <1>3, <1>5 DEF RemoteSends
<1>6. CASE RemoteAcks
  BY <1>4, <1>6 DEF RemoteAcks
<1>7. CASE RemoteResets
  <2>1. remote.sent > 0 \/ remote.sent <= 1
    BY <1>1
  <2> QED BY <1>4, <1>7, <2>1 DEF RemoteResets
<1> QED BY <1>5, <1>6, <1>7

LEMMA StrayArrivesKeeps == IInv /\ StrayArrives => IInv'
<1> SUFFICES ASSUME IInv, StrayArrives PROVE IInv'
  OBVIOUS
<1>1. UNCHANGED <<thread, local, adapter, loop, late, toThread, toOwner, owner, remote>>
  BY DEF StrayArrives
<1>2. PICK dgram \in Strays : inbox' = Append(inbox, dgram)
  BY DEF StrayArrives
<1>3. /\ Joined(local.tcp, remote) /\ remote \in RemoteEnd /\ remote.sent \in 0 .. FinPosition + 1
  BY InvParts
<1>4. local.tcp.sender.next_seqno \in Nat
  BY <1>3, GoodCounters DEF Joined
<1>5. AbsoluteAckno(local.tcp.receiver) \in Nat
  BY <1>3, FarSenderGood, HeardCounters DEF Joined
<1>6. dgram \in Datagram /\ Expected(remote, dgram)
  BY <1>4, <1>5, StraysExpected
<1>7. remote.sent <= remote.sent /\ remote.heard <= remote.heard
  BY <1>3 DEF RemoteEnd
<1> QED BY <1>1, <1>2, <1>3, <1>6, <1>7, DatagramWaits
-----------------------------------------------------------------------------
(* The invariant holds.                                                      *)

LEMMA InitEstablishes == Init => IInv
<1> SUFFICES ASSUME Init PROVE IInv
  OBVIOUS
<1> DEFINE snd == NewSender(SendCapacity, OwnIsn)
           rcv == NewReceiver(RecvCapacity)
           new == NewPeer(SendCapacity, RecvCapacity, OwnIsn)
           r   == rcv.reassembler
           far == FarSender(0)
<1>1. /\ thread = "new" /\ loop = [rules |-> {Network, FromOwner, ToOwner}, poll |-> NotPolled]
      /\ local = [tcp |-> new, eof |-> FALSE, outbound_shutdown |-> FALSE, inbound_shutdown |-> FALSE]
      /\ late = FALSE /\ toThread = NewChannel /\ toOwner = NewChannel
      /\ owner = [wrote |-> 0, read |-> 0, eof |-> FALSE, phase |-> "open"]
      /\ inbox = <<>> /\ remote = [heard |-> 0, sent |-> 0, acked |-> 0, reset |-> FALSE]
  BY DEF Init
<1>2. new.sender = snd /\ new.receiver = rcv
  BY DEF NewPeer
<1>3. Good(snd) /\ Carries(snd) /\ snd \in Sender
  BY SocketAssumption, NewSenderGood DEF Good
<1>4. /\ snd.isn = OwnIsn /\ snd.ackno = 0 /\ snd.next_seqno = 0
      /\ snd.input = NewStream(SendCapacity)
  BY DEF NewSender
<1>5. /\ snd.input.total_pushed = 0 /\ snd.input.total_poped = 0 /\ snd.input.closed = FALSE
  BY <1>4 DEF NewStream
<1>6. /\ rcv \in Receiver /\ ~rcv.SYN /\ Output(rcv) = NewStream(RecvCapacity)
      /\ r \in Ordered(r.output, 1) /\ Faithful(r)
      /\ Known(r) = {} /\ ~r.eof_received /\ ~r.output.closed
  BY SocketAssumption, NewReceiverFaithful
<1>7. /\ Output(rcv).total_pushed = 0 /\ Output(rcv).total_poped = 0 /\ Output(rcv).error = FALSE
      /\ Output(rcv).closed = FALSE
  BY <1>6 DEF NewStream
<1>8. new \in Peer
  <2>1. 0 \in 0 .. LingerTime
    BY LingerAssumption, SenderAssumption DEF LingerTime
  <2> HIDE DEF snd, rcv
  <2>2. new = [sender |-> snd, receiver |-> rcv, linger_after_streams_finish |-> TRUE, idle |-> 0]
    BY DEF NewPeer, snd, rcv
  <2> QED BY <1>3, <1>6, <2>1, <2>2 DEF Peer
<1>9. local \in Local /\ local.tcp = new /\ ~local.eof /\ ~local.outbound_shutdown
  BY <1>1, <1>8 DEF Local
<1> HIDE DEF snd, rcv, new
<1>10. /\ remote \in RemoteEnd /\ remote.sent = 0 /\ remote.heard = 0 /\ ~remote.reset
       /\ remote.sent \in 0 .. FinPosition + 1
  BY <1>1, Bounds DEF RemoteEnd
<1>11. Heard(far, rcv)
  BY <1>6 DEF Heard
<1>12. Joined(local.tcp, remote)
  <2>1. local.tcp.sender = snd /\ local.tcp.receiver = rcv
    BY <1>2, <1>9
  <2>2. snd.ackno <= 0 /\ 0 <= snd.next_seqno
    BY <1>4
  <2> QED BY <1>3, <1>4, <1>5, <1>7, <1>8, <1>9, <1>10, <1>11, <2>1, <2>2 DEF Joined
<1>13. NewChannel \in Channel /\ NewChannel.data = <<>> /\ ~NewChannel.shut
  BY DEF NewChannel, Channel
<1>14. owner \in Owner /\ owner.wrote = 0 /\ owner.read = 0 /\ ~owner.eof
  BY <1>1, Bounds DEF Owner
<1>15. TypeOK
  <2>1. loop.rules \subseteq {Network, FromOwner, ToOwner} /\ inbox \in Seq(Datagram)
    BY <1>1
  <2> QED BY <1>1, <1>9, <1>13, <1>14, <2>1 DEF TypeOK
<1>16. Flagged(local, toThread) /\ Lying(local, toThread, toOwner)
  <2>1. /\ Outbound(local).closed = FALSE /\ Outbound(local).total_pushed = 0
        /\ Inbound(local).total_poped = 0
    BY <1>2, <1>5, <1>7, <1>9 DEF Outbound, Inbound
  <2>2. Bytes(0, 0) = <<>>
    BY BytesNone
  <2>3. Flagged(local, toThread)
    BY <1>1, <1>9, <2>1 DEF Flagged, Local
  <2>4. Lying(local, toThread, toOwner)
    BY <1>1, <1>13, <1>14, <2>1, <2>2 DEF Lying
  <2> QED BY <2>3, <2>4
<1>17. \A i \in 1 .. Len(inbox) : Expected(remote, inbox[i])
  BY <1>1
<1>18. Served /\ AnswerHolds
  BY <1>1 DEF Served, AnswerHolds
<1>19. Told /\ Through /\ DiesOnlyOfCutting
  BY <1>1, <1>13, <1>14 DEF Told, Through, DiesOnlyOfCutting
<1> QED BY <1>12, <1>15, <1>16, <1>17, <1>18, <1>19 DEF IInv

\* No step of anyone leaves it.
LEMMA NextKeeps == IInv /\ [Next]_vars => IInv'
<1> SUFFICES ASSUME IInv, [Next]_vars PROVE IInv'
  OBVIOUS
<1>1. CASE ThreadStep
  BY <1>1, PollKeeps, TimeoutKeeps, ExitKeeps, ServeNoneKeeps, ServeNetworkKeeps, ServeFromOwnerKeeps,
     ServeToOwnerKeeps DEF ThreadStep
<1>2. CASE UNCHANGED vars
  <2>1. UNCHANGED <<thread, local, adapter, loop, late, toThread, toOwner, owner, inbox, remote>>
    BY <1>2 DEF vars
  <2>2. TypeOK' /\ Joined(local'.tcp, remote')
    BY <2>1 DEF IInv, TypeOK
  <2>3. \A i \in 1 .. Len(inbox') : Expected(remote', inbox'[i])
    BY <2>1 DEF IInv
  <2>4. Flagged(local', toThread') /\ Lying(local, toThread, toOwner)'
    BY <2>1 DEF IInv, Flagged, Lying
  <2>5. Served' /\ Told' /\ Through' /\ DiesOnlyOfCutting'
    BY <2>1 DEF IInv, Served, Told, Through, DiesOnlyOfCutting
  <2>6. AnswerHolds'
    BY <2>1 DEF IInv, AnswerHolds
  <2> QED BY <2>2, <2>3, <2>4, <2>5, <2>6 DEF IInv
<1> QED BY <1>1, <1>2, ConnectKeeps, ListenAndAcceptKeeps, KilledKeeps, ClockKeeps, OwnerWritesKeeps,
           OwnerReadsKeeps, OwnerShutsDownKeeps, WaitUntilClosedKeeps, DestructKeeps, RemoteKeeps,
           StrayArrivesKeeps DEF Next

\* The inductive invariant of the socket: types; each end of the connection has
\* heard of no more than the other has sent; every datagram that waits is one of
\* the other end or one that no adapter takes; what lies in the pair continues
\* what the owner has read and ends what it wrote; a rule is dropped only when
\* nothing is left for it; what poll() answered still holds; and the flags say
\* what they are set for (_initialize_TCP, _tcp_loop, _tcp_main).
THEOREM SocketInvariant == Spec => []IInv
<1>1. Init => IInv
  BY InitEstablishes
<1>2. IInv /\ [Next]_vars => IInv'
  BY NextKeeps
<1> QED BY <1>1, <1>2, PTL DEF Spec
-----------------------------------------------------------------------------
(* What it shows.                                                            *)

\* What the owner has given to the peer and the peer has not yet sent.
LEMMA OutboundBytes ==
  ASSUME NEW snd, Good(snd), Carries(snd)
  PROVE  /\ snd.input.total_poped \in Nat /\ snd.input.total_pushed \in Nat
         /\ snd.input.total_poped <= snd.input.total_pushed
         /\ snd.input.buffer = Bytes(snd.input.total_poped, snd.input.total_pushed)
<1> DEFINE a == snd.input.total_poped
           z == snd.input.total_pushed
           buffer == snd.input.buffer
           b == Bytes(a, z)
<1>1. a \in Nat /\ z \in Nat /\ a <= z /\ snd.input \in Stream
  BY GoodCounters
<1>2. buffer \in Seq(Byte) /\ z = a + Len(buffer)
  BY <1>1 DEF Stream, Good, Position
<1>3. \A k \in 1 .. Len(buffer) : buffer[k] = a + k
  BY DEF Carries, Numbered
<1> HIDE DEF a, z, buffer
<1>4. Len(buffer) = z - a
  BY <1>1, <1>2
<1>5. b \in Seq(Byte) /\ Len(b) = z - a
  BY <1>1, BytesType
<1>6. \A k \in 1 .. Len(b) : b[k] = a + k
  BY <1>1, <1>5 DEF Bytes
<1> HIDE DEF b
<1>7. buffer = b
  <2>1. Len(buffer) = Len(b) /\ \A k \in 1 .. Len(buffer) : buffer[k] = b[k]
    BY <1>3, <1>4, <1>5, <1>6
  <2> QED BY <1>2, <1>5, <2>1, SeqEqual
<1> QED BY <1>1, <1>7 DEF a, z, buffer, b

\* Between the owner and the peer no byte is lost, repeated or misplaced in
\* either direction (rules 2 and 3 of _initialize_TCP, unwrap_tcp_in_ip).
THEOREM NothingIsLost == Spec => []NothingIsLostBetween
<1>1. IInv => NothingIsLostBetween
  <2> SUFFICES ASSUME IInv PROVE NothingIsLostBetween
    OBVIOUS
  <2> DEFINE in  == Inbound(local)
             out == Outbound(local)
  <2>1. /\ toOwner.data = Bytes(owner.read, in.total_poped) /\ owner.read <= in.total_poped
        /\ toThread.data = Bytes(out.total_pushed, owner.wrote) /\ out.total_pushed <= owner.wrote
    BY NothingCalled DEF Lying
  <2>2. /\ in.total_poped \in Nat /\ in.total_pushed \in Nat /\ in.total_poped <= in.total_pushed
        /\ in.buffer = Bytes(in.total_poped, in.total_pushed)
    BY InboundBytes
  <2>3. /\ out.total_poped \in Nat /\ out.total_pushed \in Nat /\ out.total_poped <= out.total_pushed
        /\ out.buffer = Bytes(out.total_poped, out.total_pushed)
    <3>1. Good(local.tcp.sender) /\ Carries(local.tcp.sender)
      BY InvParts DEF Joined
    <3> QED BY <3>1, OutboundBytes DEF Outbound
  <2>4. owner.read \in Nat /\ owner.wrote \in Nat
    BY InvParts, Bounds
  <2> HIDE DEF in, out
  <2>5. toOwner.data \o in.buffer = Bytes(owner.read, in.total_pushed)
    <3>1. Bytes(owner.read, in.total_poped) \o Bytes(in.total_poped, in.total_pushed)
            = Bytes(owner.read, in.total_pushed)
      BY <2>1, <2>2, <2>4, BytesJoined
    <3> QED BY <2>1, <2>2, <3>1
  <2>6. out.buffer \o toThread.data = Bytes(out.total_poped, owner.wrote)
    <3>1. Bytes(out.total_poped, out.total_pushed) \o Bytes(out.total_pushed, owner.wrote)
            = Bytes(out.total_poped, owner.wrote)
      BY <2>1, <2>3, <2>4, BytesJoined
    <3> QED BY <2>1, <2>3, <3>1
  <2> QED BY <2>5, <2>6 DEF NothingIsLostBetween, in, out
<1> QED BY <1>1, SocketInvariant, PTL

\* The inbound stream is closed only behind the last byte of the remote host.
LEMMA ClosedIsAll ==
  ASSUME IInv, Inbound(local).closed
  PROVE  Inbound(local).total_pushed = RemoteBytes
<1> DEFINE far == FarSender(remote.sent)
<1>1. remote.sent \in 0 .. FinPosition + 1 /\ Heard(far, local.tcp.receiver)
  BY InvParts DEF Joined
<1>2. /\ Good(far) /\ (far.fin_sent <=> remote.sent > FinPosition)
      /\ far.input.total_poped = (IF remote.sent = 0 THEN 0 ELSE Least(remote.sent - 1, RemoteBytes))
  BY <1>1, FarSenderGood
<1> HIDE DEF far
<1>3. far.fin_sent /\ Inbound(local).total_pushed = far.input.total_poped
  BY <1>1, <1>2, HeardCounters DEF Inbound
<1> QED BY <1>1, <1>2, <1>3, Bounds DEF Least

\* When the owner reads end of file, it has read all that the remote host wrote,
\* or the connection has failed (rule 3, _tcp_main).
THEOREM EndOfFileIsTheEnd == Spec => []EofIsTheEnd
<1>1. IInv => EofIsTheEnd
  <2> SUFFICES ASSUME IInv, owner.eof, ~AnyErrors(local.tcp)
               PROVE  owner.read = RemoteBytes /\ InboundClosed(local.tcp)
    BY DEF EofIsTheEnd
  <2> DEFINE in == Inbound(local)
  <2>1. toOwner.data = <<>> /\ Over(local)
    BY DEF IInv, Told
  <2>2. IsFinished(in)
    BY <2>1 DEF Over, AnyErrors, Inbound
  <2>3. in.closed /\ in.total_poped = in.total_pushed /\ in.total_pushed = RemoteBytes
    BY <2>2, ClosedIsAll DEF IsFinished
  <2>4. /\ toOwner.data = Bytes(owner.read, in.total_poped) /\ owner.read <= in.total_poped
        /\ owner.read \in Nat /\ in.total_poped \in Nat
    BY NothingCalled, InboundBytes, InvParts DEF Lying
  <2>5. owner.read = in.total_poped
    <3> HIDE DEF in
    <3> QED BY <2>1, <2>4, BytesNone
  <2> QED BY <2>3, <2>5 DEF InboundClosed, Inbound
<1> QED BY <1>1, SocketInvariant, PTL

\* A thread that ends although neither the connection failed nor the owner
\* abandoned it has passed on everything, both ways, but for what the owner no
\* longer wanted to read, and the remote host has heard the end of the stream
\* (_tcp_loop, TCPPeer::active).
THEOREM CleanEnd == Spec => []CleanEndIsComplete
<1>1. IInv => CleanEndIsComplete
  <2> SUFFICES ASSUME IInv, thread = "ended", ~AnyErrors(local.tcp), owner.phase # "destructing"
               PROVE  /\ owner.phase # "waiting early" => owner.read + Len(toOwner.data) = RemoteBytes
                      /\ remote.heard = owner.wrote + 2
    BY DEF CleanEndIsComplete
  <2> DEFINE in  == Inbound(local)
             out == Outbound(local)
             snd == local.tcp.sender
  <2>1. /\ snd.flight = 0 /\ IsFinished(out) /\ in.closed
        /\ owner.phase # "waiting early" => IsFinished(in)
    BY DEF IInv, Through, OutboundFinished, InboundClosed, Inbound, Outbound
  <2>2. /\ toOwner.data = Bytes(owner.read, in.total_poped) /\ owner.read <= in.total_poped
        /\ toThread.data = Bytes(out.total_pushed, owner.wrote) /\ out.total_pushed <= owner.wrote
        /\ owner.read \in Nat /\ owner.wrote \in Nat /\ in.total_poped \in Nat
        /\ out.total_pushed \in Nat
    <3>1. out \in Stream
      BY InvParts, LocalParts
    <3> QED BY <3>1, NothingCalled, InboundBytes, InvParts, Bounds DEF Lying, Stream
  <2>3. /\ Good(snd) /\ Finished(snd) /\ snd.ackno <= remote.heard /\ remote.heard <= snd.next_seqno
        /\ remote.heard \in Nat
    BY <2>1, InvParts DEF Joined, Outbound, IsFinished, RemoteEnd
  <2>4. owner.phase # "waiting early" => owner.read + Len(toOwner.data) = RemoteBytes
    <3> SUFFICES ASSUME owner.phase # "waiting early" PROVE owner.read + Len(toOwner.data) = RemoteBytes
      OBVIOUS
    <3>1. in.total_poped = RemoteBytes
      BY <2>1, ClosedIsAll DEF IsFinished
    <3> HIDE DEF in
    <3> QED BY <2>2, <3>1, BytesReach
  <2>5. out.total_pushed = owner.wrote
    <3>1. out.closed
      BY <2>1 DEF IsFinished
    <3>2. toThread.data = <<>>
      BY <3>1, NothingCalled DEF Flagged
    <3> HIDE DEF out
    <3> QED BY <2>2, <3>2, BytesNone
  <2>6. snd.fin_sent
    <3>1. snd.input.closed
      BY <2>1 DEF IsFinished, Outbound
    <3>2. snd.flight = 0
      BY <2>1
    <3> HIDE DEF snd
    <3> QED BY <2>3, <3>1, <3>2 DEF Finished
  <2>7. snd.next_seqno = 2 + out.total_pushed
    BY <2>3, <2>6, GoodCounters DEF Outbound
  <2>8. snd.ackno = snd.next_seqno
    BY <2>1, <2>3, NothingInFlight
  <2>9. remote.heard = owner.wrote + 2
    <3>1. snd.next_seqno = 2 + owner.wrote /\ snd.ackno = 2 + owner.wrote
      BY <2>5, <2>7, <2>8
    <3> HIDE DEF snd
    <3> QED BY <2>2, <2>3, <3>1
  <2> QED BY <2>4, <2>9
<1> QED BY <1>1, SocketInvariant, PTL

\* The thread dies at the most after a reset, or of an owner that shuts the pair
\* before the end (rule 3, the hangup check of wait_next_event,
\* FileDescriptor::write).
THEOREM ThreadDiesOnlyOfCutting == Spec => []DiesOnlyOfCutting
<1>1. IInv => DiesOnlyOfCutting
  BY DEF IInv
<1> QED BY <1>1, SocketInvariant, PTL
=============================================================================
