------------------------- MODULE TCPConnectionProofs -------------------------
(* Two TCPPeers and a network that loses, repeats, delays and reorders, for  *)
(* every capacity, window, timeout, initial sequence number and number of    *)
(* faults: what one owner reads is what the other one wrote, nothing is      *)
(* acknowledged that was not delivered, and a side that ends without an      *)
(* error leaves nothing undone.  Also, what one peer transmits reaches the   *)
(* other one through the adapters as OnWire says.                            *)
EXTENDS TCPConnection, TCPPeerProofs, TCPOverIP
-----------------------------------------------------------------------------
(* The inductive invariant.                                                  *)

S(s) == peer[s].sender
R(s) == peer[s].receiver

\* The sender of the side s.  Once its owner has closed, it waits for an
\* acknowledgment, or has sent all.
Sending(s, snd) ==
  /\ Good(snd) /\ Carries(snd)
  /\ snd.isn = Isn(s) /\ snd.input.total_pushed <= MaxBytes(s)
  /\ snd.input.closed => Finished(snd)

\* A side that will not linger has all, and all of its segments with a FIN say
\* so: the other side cannot have the FIN without the acknowledgment.
Parting(s) ==
  ~peer[s].linger_after_streams_finish =>
    /\ Output(R(s)).closed
    /\ \A m \in network[Other(s)] : m.sender.FIN => m.receiver.ackno = Acknowledge(R(s)).ackno
    /\ R(Other(s)).reassembler.eof_received =>
         S(Other(s)).fin_sent /\ S(Other(s)).ackno = S(Other(s)).next_seqno

ConnectionInv ==
  /\ peer \in [Side -> Peer]
  /\ network \in [Side -> SUBSET Message]
  /\ \A s \in Side :
       /\ Sending(s, S(s))
       /\ Heard(S(s), R(Other(s)))
       /\ S(s).ackno <= Acked(R(Other(s)))
       /\ \A m \in network[s] : /\ OfStream(S(Other(s)), m.sender)
                                /\ OfReceiver(R(Other(s)), m.receiver)
       /\ Parting(s)
-----------------------------------------------------------------------------
(* What a call does to a side.                                               *)

\* The call made the peer of the side s into q, and out was transmitted: the
\* sender and the receiver have moved forward, and a side does not stop
\* lingering once it has sent its FIN.
Effect(s, q, out) ==
  LET t == Other(s)
  IN  /\ q \in Peer /\ out \in Seq(Message)
      /\ Sending(s, q.sender) /\ Forward(S(s), q.sender)
      /\ Heard(S(t), q.receiver) /\ Later(R(s), q.receiver)
      /\ S(s).ackno <= q.sender.ackno /\ q.sender.ackno <= Acked(R(t))
      /\ \A i \in 1 .. Len(out) : /\ OfStream(q.sender, out[i].sender)
                                  /\ out[i].receiver.ackno = Acknowledge(q.receiver).ackno
      /\ ~peer[s].linger_after_streams_finish => ~q.linger_after_streams_finish
      /\ ~q.linger_after_streams_finish => Output(q.receiver).closed
      /\ ~q.linger_after_streams_finish =>
           ~peer[s].linger_after_streams_finish \/ ~q.sender.fin_sent
      /\ ~peer[t].linger_after_streams_finish /\ q.receiver.reassembler.eof_received =>
           q.sender.fin_sent /\ q.sender.ackno = q.sender.next_seqno

(* What the invariant says of one side.                                      *)
LEMMA SideFacts ==
  ASSUME ConnectionInv, NEW s \in Side
  PROVE  LET t == Other(s)
         IN  /\ t \in Side /\ Other(t) = s
             /\ peer[s] \in Peer /\ S(s) \in Sender /\ R(s) \in Receiver
             /\ peer[s].linger_after_streams_finish \in BOOLEAN /\ peer[s].idle \in 0 .. LingerTime
             /\ Sending(s, S(s)) /\ Good(S(s)) /\ Carries(S(s)) /\ S(s).isn = Isn(s)
             /\ Heard(S(s), R(t)) /\ Heard(S(t), R(s))
             /\ S(s).ackno <= Acked(R(t)) /\ S(s).ackno \in Nat
             /\ Forward(S(s), S(s)) /\ Later(R(s), R(s))
             /\ Parting(s) /\ Parting(t)
<1>1. Other(s) \in Side /\ Other(Other(s)) = s
  BY DEF Side, Other
<1>2. /\ peer[s] \in Peer /\ Sending(s, S(s)) /\ Heard(S(s), R(Other(s)))
      /\ S(s).ackno <= Acked(R(Other(s))) /\ Parting(s)
  BY DEF ConnectionInv
<1>3. Heard(S(Other(s)), R(s)) /\ Parting(Other(s))
  BY <1>1 DEF ConnectionInv
<1>4. /\ S(s) \in Sender /\ R(s) \in Receiver
      /\ peer[s].linger_after_streams_finish \in BOOLEAN /\ peer[s].idle \in 0 .. LingerTime
  BY <1>2 DEF Peer, S, R
<1>5. Good(S(s)) /\ Carries(S(s)) /\ S(s).isn = Isn(s)
  BY <1>2 DEF Sending
<1>6. /\ S(s).next_seqno \in Nat /\ S(s).input.total_pushed \in Nat /\ S(s).ackno \in Nat
  BY <1>5, GoodCounters
<1>7. Forward(S(s), S(s))
  BY <1>5, <1>6, ForwardFromPosition
<1>8. Later(R(s), R(s))
  <2>1. Good(S(Other(s)))
    BY <1>1 DEF ConnectionInv, Sending
  <2>2. Output(R(s)).total_pushed \in Nat
    BY <1>3, <2>1, HeardCounters
  <2> QED BY <2>2 DEF Later
<1> QED BY <1>1, <1>2, <1>3, <1>4, <1>5, <1>6, <1>7, <1>8

(* The streams take less than half of the sequence numbers.                  *)
LEMMA StreamFits ==
  ASSUME NEW s \in Side, NEW snd, Sending(s, snd)
  PROVE  snd.next_seqno < HalfModulus /\ snd.input.total_poped < IndexModulus
<1>1. /\ MaxBytes(s) \in Nat /\ MaxBytes(s) + 2 < HalfModulus /\ MaxBytes(s) < IndexModulus
  BY ConnectionAssumption, IndexAssumption DEF MaxBytes, Side
<1>2. Good(snd) /\ snd.input.total_pushed <= MaxBytes(s)
  BY DEF Sending
<1>3. HalfModulus \in Int
  BY ModulusAssumption DEF HalfModulus
<1>4. /\ snd.next_seqno \in Nat /\ snd.input.total_poped \in Nat
      /\ snd.input.total_pushed \in Nat /\ snd.input.total_poped <= snd.input.total_pushed
      /\ snd.next_seqno <= snd.input.total_poped + 2
  <2>1. /\ snd.next_seqno \in Nat /\ snd.input.total_poped \in Nat
        /\ snd.input.total_pushed \in Nat /\ snd.input.total_poped <= snd.input.total_pushed
        /\ snd.syn_sent \in BOOLEAN /\ snd.fin_sent \in BOOLEAN
        /\ ~snd.syn_sent => snd.next_seqno = 0 /\ snd.input.total_poped = 0
        /\ ~snd.syn_sent => ~snd.fin_sent
        /\ snd.syn_sent /\ ~snd.fin_sent => snd.next_seqno = 1 + snd.input.total_poped
        /\ snd.fin_sent => snd.next_seqno = 2 + snd.input.total_poped
    BY <1>2, GoodCounters
  <2> QED BY <2>1
<1> QED BY <1>1, <1>2, <1>3, <1>4, IndexAssumption

(* Calls that leave the receiver alone, and the acknowledged position.       *)
LEMMA SenderEffect ==
  ASSUME ConnectionInv, NEW s \in Side, NEW q \in Peer, q.receiver = R(s),
         q.linger_after_streams_finish = peer[s].linger_after_streams_finish,
         Sending(s, q.sender), Forward(S(s), q.sender), q.sender.ackno = S(s).ackno,
         NEW msgs \in Seq(SenderMessage),
         \A i \in 1 .. Len(msgs) : OfStream(q.sender, msgs[i])
  PROVE  Effect(s, q, Outgoing(msgs, R(s)))
<1> DEFINE t == Other(s)
           out == Outgoing(msgs, R(s))
<1>1. /\ t \in Side /\ Other(t) = s
      /\ Good(S(s)) /\ Good(S(t)) /\ Heard(S(t), R(s)) /\ Later(R(s), R(s))
      /\ S(s).ackno <= Acked(R(t)) /\ S(s).ackno \in Nat
      /\ Parting(s) /\ Parting(t)
  BY SideFacts
<1>2. /\ out \in Seq(Message)
      /\ \A i \in 1 .. Len(out) : /\ OfStream(q.sender, out[i].sender)
                                  /\ out[i].receiver.ackno = Acknowledge(R(s)).ackno
  <2> DEFINE snd == q.sender
  <2> HIDE DEF snd, out
  <2>1. \A i \in 1 .. Len(msgs) : OfStream(snd, msgs[i])
    BY DEF snd
  <2>2. Good(S(t)) /\ Heard(S(t), R(s))
    BY <1>1
  <2>3. /\ out \in Seq(Message)
        /\ \A i \in 1 .. Len(out) : /\ OfStream(snd, out[i].sender)
                                    /\ out[i].receiver.ackno = Acknowledge(R(s)).ackno
    BY <2>1, <2>2, OutgoingTogether DEF out
  <2> QED BY <2>3 DEF snd
<1>3. ~peer[s].linger_after_streams_finish => Output(R(s)).closed
  BY <1>1 DEF Parting
<1>4. ~peer[t].linger_after_streams_finish /\ R(s).reassembler.eof_received =>
        q.sender.fin_sent /\ q.sender.ackno = q.sender.next_seqno
  BY <1>1 DEF Parting, Forward
<1> HIDE DEF out
<1>5. S(s).ackno <= q.sender.ackno /\ q.sender.ackno <= Acked(R(t))
  BY <1>1
<1> QED BY <1>1, <1>2, <1>3, <1>4, <1>5 DEF Effect, t, out

(* A call that did nothing.                                                  *)
LEMMA NoEffect ==
  ASSUME ConnectionInv, NEW s \in Side
  PROVE  Effect(s, NoCall[s].peer, NoCall[s].out)
<1>1. NoCall[s].peer = peer[s] /\ NoCall[s].out = <<>>
  BY DEF NoCall
<1>2. Outgoing(<<>>, R(s)) = <<>>
  BY DEF Outgoing
<1>3. peer[s] \in Peer /\ Sending(s, S(s)) /\ Forward(S(s), S(s))
  BY SideFacts
<1> DEFINE q == peer[s]
           msgs == <<>>
<1>4. q.sender = S(s) /\ q.receiver = R(s)
  BY DEF S, R
<1>5. msgs \in Seq(SenderMessage) /\ \A i \in 1 .. Len(msgs) : OfStream(q.sender, msgs[i])
  <2>1. 1 .. Len(msgs) = {}
    OBVIOUS
  <2> QED BY <2>1
<1>6. /\ q \in Peer /\ Sending(s, q.sender) /\ Forward(S(s), q.sender)
      /\ q.linger_after_streams_finish = peer[s].linger_after_streams_finish
      /\ q.sender.ackno = S(s).ackno
  BY <1>3, <1>4
<1>7. Effect(s, q, Outgoing(msgs, R(s)))
  <2> HIDE DEF q, msgs
  <2> QED BY <1>4, <1>5, <1>6, SenderEffect
<1> QED BY <1>1, <1>2, <1>7

(* push, after the owner has changed the sender into snd, or not.            *)
LEMMA PushEffect ==
  ASSUME ConnectionInv, NEW s \in Side,
         NEW snd, Good(snd), Carries(snd), Forward(S(s), snd), snd.ackno = S(s).ackno,
         snd.input.total_pushed <= MaxBytes(s)
  PROVE  LET call == PeerPush([peer[s] EXCEPT !.sender = snd])
         IN  /\ Effect(s, call.peer, call.out)
             /\ SameOwner(snd, call.peer.sender) /\ call.peer.receiver = R(s)
<1> DEFINE before == [peer[s] EXCEPT !.sender = snd]
           call == PeerPush(before)
           t    == Push(snd).snd
           msgs == Push(snd).out
<1>1. /\ peer[s] \in Peer /\ S(s).isn = Isn(s) /\ Good(S(s))
      /\ peer[s].receiver = R(s)
  BY SideFacts DEF R
<1>2. /\ Good(t) /\ Carries(t) /\ Finished(t)
      /\ SameOwner(snd, t) /\ Forward(snd, t) /\ t.ackno = snd.ackno
      /\ msgs \in Seq(SenderMessage)
      /\ \A i \in 1 .. Len(msgs) : OfStream(t, msgs[i])
  BY PushSends
<1>3. before.sender = snd /\ before.receiver = R(s) /\ before = [peer[s] EXCEPT !.sender = snd]
  BY <1>1 DEF Peer
<1> HIDE DEF before, t, msgs
<1>4. call = [peer |-> [before EXCEPT !.sender = t], out |-> Outgoing(msgs, R(s))]
  BY <1>3 DEF PeerPush, t, msgs
<1> HIDE DEF call
<1> DEFINE q == call.peer
<1>5. q = [peer[s] EXCEPT !.sender = t] /\ call.out = Outgoing(msgs, R(s))
  BY <1>1, <1>3, <1>4 DEF Peer
<1>6. t \in Sender
  BY <1>2, GoodCounters
<1>7. /\ q \in Peer /\ q.sender = t /\ q.receiver = R(s)
      /\ q.linger_after_streams_finish = peer[s].linger_after_streams_finish
  BY <1>1, <1>5, <1>6 DEF Peer
<1>8. Forward(S(s), t)
  BY <1>1, <1>2, ForwardTwice
<1>9. Sending(s, t)
  BY <1>1, <1>2 DEF Sending, SameOwner, Forward
<1> HIDE DEF q
<1>10. Effect(s, q, Outgoing(msgs, R(s)))
  BY <1>2, <1>7, <1>8, <1>9, SenderEffect
<1> QED BY <1>2, <1>5, <1>7, <1>10 DEF call, before, q

(* tick                                                                      *)
LEMMA TickEffect ==
  ASSUME ConnectionInv, NEW s \in Side, NEW ms \in Nat
  PROVE  LET call == PeerTick(peer[s], ms)
         IN  /\ Effect(s, call.peer, call.out)
             /\ SameOwner(S(s), call.peer.sender) /\ call.peer.receiver = R(s)
<1> DEFINE call == PeerTick(peer[s], ms)
           t    == Tick(S(s), ms).snd
           msgs == Tick(S(s), ms).out
           idle == Least(peer[s].idle + ms, LingerTime)
<1>1. /\ peer[s] \in Peer /\ S(s).isn = Isn(s) /\ Good(S(s)) /\ Carries(S(s))
      /\ Sending(s, S(s)) /\ peer[s].idle \in 0 .. LingerTime
  BY SideFacts
<1>2. /\ Good(t) /\ Carries(t) /\ (Finished(S(s)) => Finished(t))
      /\ SameOwner(S(s), t) /\ Forward(S(s), t) /\ t.ackno = S(s).ackno
      /\ msgs \in Seq(SenderMessage)
      /\ \A i \in 1 .. Len(msgs) : OfStream(t, msgs[i])
  BY <1>1, TickSends
<1>3. idle \in 0 .. LingerTime
  BY <1>1, LingerAssumption, SenderAssumption DEF LingerTime, Least
<1> HIDE DEF t, msgs, idle
<1>4. call = [peer |-> [peer[s] EXCEPT !.sender = t, !.idle = idle], out |-> Outgoing(msgs, R(s))]
  BY <1>1 DEF PeerTick, t, msgs, idle, S, R, Peer
<1>5. t \in Sender
  BY <1>2, GoodCounters
<1> HIDE DEF call
<1> DEFINE q == call.peer
<1>6. /\ q \in Peer /\ q.sender = t /\ q.receiver = R(s)
      /\ q.linger_after_streams_finish = peer[s].linger_after_streams_finish
      /\ call.out = Outgoing(msgs, R(s))
  BY <1>1, <1>3, <1>4, <1>5 DEF Peer, R
<1>7. Sending(s, t)
  BY <1>1, <1>2 DEF Sending, SameOwner
<1> HIDE DEF q
<1>8. Effect(s, q, Outgoing(msgs, R(s)))
  BY <1>2, <1>6, <1>7, SenderEffect
<1> QED BY <1>2, <1>6, <1>8 DEF call, q

(* receive: of a segment which the receiver of this side takes for what it   *)
(* is, with an acknowledgment of the other side.                             *)
LEMMA ReceiveEffect ==
  ASSUME ConnectionInv, NEW s \in Side, NEW m, m.receiver \in ReceiverMessage,
         Heard(S(Other(s)), ReceiveSegment(R(s), m.sender)),
         Later(R(s), ReceiveSegment(R(s), m.sender)),
         ReceiveSegment(R(s), m.sender).reassembler.eof_received =>
           R(s).reassembler.eof_received \/ m.sender.FIN,
         OfReceiver(R(Other(s)), m.receiver),
         ~peer[Other(s)].linger_after_streams_finish /\ m.sender.FIN =>
           m.receiver.ackno = Acknowledge(R(Other(s))).ackno
  PROVE  LET call == PeerReceive(peer[s], m)
         IN  /\ Effect(s, call.peer, call.out)
             /\ SameOwner(S(s), call.peer.sender)
<1> DEFINE t    == Other(s)
           call == PeerReceive(peer[s], m)
           rcv  == ReceiveSegment(R(s), m.sender)
           ackd == Receive(S(s), m.receiver)
           snd  == Push(ackd).snd
           sent == Push(ackd).out
           msgs == IF sent = <<>> /\ NeedsReply(peer[s], m.sender)
                   THEN <<MakeEmptyMessage(snd)>> ELSE sent
           p    == [peer[s] EXCEPT !.sender = snd, !.receiver = rcv, !.idle = 0]
           q    == Lingers(p)
<1>1. /\ t \in Side /\ Other(t) = s /\ peer[s] \in Peer
      /\ Good(S(s)) /\ Carries(S(s)) /\ Sending(s, S(s)) /\ Good(S(t))
      /\ Heard(S(s), R(t)) /\ S(s).ackno <= Acked(R(t)) /\ S(s).isn = Isn(s)
      /\ S(s).ackno \in Nat /\ Parting(s) /\ Parting(t)
      /\ peer[s].linger_after_streams_finish \in BOOLEAN /\ peer[t].linger_after_streams_finish \in BOOLEAN
  BY SideFacts
<1>2. CASE ~Active(peer[s])
  <2>1. call.peer = peer[s] /\ call.out = <<>>
    BY <1>2 DEF PeerReceive
  <2>2. NoCall[s].peer = peer[s] /\ NoCall[s].out = <<>>
    BY DEF NoCall
  <2> HIDE DEF call
  <2>3. Effect(s, call.peer, call.out)
    BY <2>1, <2>2, NoEffect
  <2>4. SameOwner(S(s), call.peer.sender)
    BY <2>1 DEF SameOwner, S
  <2> QED BY <2>3, <2>4 DEF call
<1>3. CASE Active(peer[s])
  <2>1. S(s).next_seqno < HalfModulus
    BY <1>1, StreamFits
  <2>2. /\ Good(ackd) /\ Carries(ackd) /\ SameOwner(S(s), ackd) /\ Forward(S(s), ackd)
        /\ ackd.next_seqno = S(s).next_seqno /\ ackd.fin_sent = S(s).fin_sent
        /\ S(s).ackno <= ackd.ackno /\ ackd.ackno <= Acked(R(t))
        /\ \/ S(s).ackno = S(s).next_seqno
           \/ m.receiver.ackno # NoAck /\ m.receiver.ackno = Wrap(S(s).next_seqno, S(s).isn)
           => ackd.ackno = S(s).next_seqno
    <3> DEFINE limit == Acked(R(t))
    <3>1. limit \in S(s).ackno .. S(s).next_seqno /\ Before(S(s), limit, m.receiver)
      BY <1>1, OfReceiverBefore
    <3> HIDE DEF limit
    <3>2. /\ Good(ackd) /\ Carries(ackd) /\ SameOwner(S(s), ackd) /\ Forward(S(s), ackd)
          /\ ackd.next_seqno = S(s).next_seqno /\ ackd.fin_sent = S(s).fin_sent
          /\ S(s).ackno <= ackd.ackno /\ ackd.ackno <= limit
          /\ \/ S(s).ackno = S(s).next_seqno
             \/ m.receiver.ackno # NoAck /\ m.receiver.ackno = Wrap(S(s).next_seqno, S(s).isn)
             => ackd.ackno = S(s).next_seqno
      BY <1>1, <2>1, <3>1, AckTaken
    <3> QED BY <3>2 DEF limit
  <2> HIDE DEF ackd
  <2>3. /\ Good(snd) /\ Carries(snd) /\ Finished(snd)
        /\ SameOwner(ackd, snd) /\ Forward(ackd, snd) /\ snd.ackno = ackd.ackno
        /\ sent \in Seq(SenderMessage)
        /\ \A i \in 1 .. Len(sent) : OfStream(snd, sent[i])
    BY <2>2, PushSends
  <2> HIDE DEF snd, sent
  <2>4. /\ msgs \in Seq(SenderMessage)
        /\ \A i \in 1 .. Len(msgs) : OfStream(snd, msgs[i])
    <3>1. CASE sent = <<>> /\ NeedsReply(peer[s], m.sender)
      <4> DEFINE empty == MakeEmptyMessage(snd)
      <4>1. empty \in SenderMessage /\ OfStream(snd, empty)
        BY <2>3, EmptyOfStream
      <4> HIDE DEF empty
      <4>2. msgs = <<empty>>
        BY <3>1 DEF empty
      <4> HIDE DEF msgs
      <4> QED BY <4>1, <4>2
    <3>2. CASE ~(sent = <<>> /\ NeedsReply(peer[s], m.sender))
      BY <2>3, <3>2
    <3> QED BY <3>1, <3>2
  <2>5. /\ rcv \in Receiver /\ Heard(S(t), rcv) /\ Later(R(s), rcv)
        /\ rcv.reassembler.eof_received => R(s).reassembler.eof_received \/ m.sender.FIN
    BY DEF Heard
  <2>6. call = [peer |-> q, out |-> Outgoing(msgs, rcv)]
    BY <1>3 DEF PeerReceive, S, R, snd, sent, ackd
  <2> HIDE DEF rcv, msgs, call
  <2>7. /\ snd \in Sender /\ p \in Peer /\ p.sender = snd /\ p.receiver = rcv
        /\ p.linger_after_streams_finish = peer[s].linger_after_streams_finish
    <3>1. snd \in Sender /\ 0 \in 0 .. LingerTime
      BY <2>3, GoodCounters, LingerAssumption, SenderAssumption DEF LingerTime
    <3> QED BY <1>1, <2>5, <3>1 DEF Peer
  <2> HIDE DEF p
  <2>8. /\ q \in Peer /\ q.sender = snd /\ q.receiver = rcv
        /\ q.linger_after_streams_finish =
             (peer[s].linger_after_streams_finish /\ ~(InboundClosed(p) /\ ~OutboundFinished(p)))
    <3>1. q = IF InboundClosed(p) /\ ~OutboundFinished(p)
              THEN [p EXCEPT !.linger_after_streams_finish = FALSE] ELSE p
      BY DEF Lingers
    <3>2. CASE InboundClosed(p) /\ ~OutboundFinished(p)
      <4>1. q = [p EXCEPT !.linger_after_streams_finish = FALSE]
        BY <3>1, <3>2
      <4> HIDE DEF q
      <4>2. /\ q \in Peer /\ q.sender = snd /\ q.receiver = rcv
            /\ q.linger_after_streams_finish = FALSE
        BY <2>7, <4>1 DEF Peer
      <4> QED BY <3>2, <4>2
    <3>3. CASE ~(InboundClosed(p) /\ ~OutboundFinished(p))
      BY <1>1, <2>7, <3>1, <3>3
    <3> QED BY <3>2, <3>3
  <2> HIDE DEF q
  <2>9. Sending(s, snd) /\ Forward(S(s), snd)
    <3>1. Forward(S(s), snd)
      BY <1>1, <2>2, <2>3, ForwardTwice
    <3>2. Sending(s, snd)
      BY <1>1, <2>2, <2>3 DEF Sending, SameOwner
    <3> QED BY <3>1, <3>2
  <2>10. S(s).ackno <= snd.ackno /\ snd.ackno <= Acked(R(t))
    BY <2>2, <2>3
  <2>11. /\ Outgoing(msgs, rcv) \in Seq(Message)
         /\ \A i \in 1 .. Len(Outgoing(msgs, rcv)) :
              /\ OfStream(snd, Outgoing(msgs, rcv)[i].sender)
              /\ Outgoing(msgs, rcv)[i].receiver.ackno = Acknowledge(rcv).ackno
    <3>1. Good(S(t)) /\ Heard(S(t), rcv)
      BY <1>1, <2>5
    <3> QED BY <2>4, <3>1, OutgoingTogether
  <2>12. ~q.linger_after_streams_finish =>
           /\ Output(rcv).closed
           /\ ~peer[s].linger_after_streams_finish \/ ~snd.fin_sent
    <3> SUFFICES ASSUME ~q.linger_after_streams_finish
                 PROVE  /\ Output(rcv).closed
                        /\ ~peer[s].linger_after_streams_finish \/ ~snd.fin_sent
      OBVIOUS
    <3>1. CASE ~peer[s].linger_after_streams_finish
      <4>1. Output(R(s)).closed
        BY <1>1, <3>1 DEF Parting
      <4> QED BY <2>5, <3>1, <4>1 DEF Later
    <3>2. CASE peer[s].linger_after_streams_finish
      <4>1. InboundClosed(p) /\ ~OutboundFinished(p)
        BY <2>8, <3>2
      <4>2. Output(rcv).closed /\ ~IsFinished(snd.input)
        BY <2>7, <4>1 DEF InboundClosed, OutboundFinished
      <4>3. snd.fin_sent => IsFinished(snd.input)
        BY <2>3, GoodCounters DEF IsFinished
      <4> QED BY <4>2, <4>3
    <3> QED BY <3>1, <3>2
  <2>13. ~peer[t].linger_after_streams_finish /\ rcv.reassembler.eof_received =>
           snd.fin_sent /\ snd.ackno = snd.next_seqno
    <3> SUFFICES ASSUME ~peer[t].linger_after_streams_finish, rcv.reassembler.eof_received
                 PROVE  snd.fin_sent /\ snd.ackno = snd.next_seqno
      OBVIOUS
    <3>1. S(s).fin_sent /\ ackd.ackno = S(s).next_seqno
      <4>1. CASE R(s).reassembler.eof_received
        <5>1. S(s).fin_sent /\ S(s).ackno = S(s).next_seqno
          BY <1>1, <4>1 DEF Parting
        <5> QED BY <2>2, <5>1
      <4>2. CASE ~R(s).reassembler.eof_received
        <5>1. m.sender.FIN /\ m.receiver.ackno = Acknowledge(R(t)).ackno
          BY <2>5, <4>2
        <5>2. Output(R(t)).closed
          BY <1>1 DEF Parting
        <5>3. /\ Acknowledge(R(t)).ackno # NoAck
              /\ Acknowledge(R(t)).ackno = Wrap(S(s).next_seqno, S(s).isn)
          BY <1>1, <5>2, AnswerOfReceiver
        <5>4. S(s).fin_sent
          BY <1>1, <5>2, HeardCounters
        <5> QED BY <2>2, <5>1, <5>3, <5>4
      <4> QED BY <4>1, <4>2
    <3>2. ackd.fin_sent /\ ackd.next_seqno = S(s).next_seqno
      BY <2>2, <3>1
    <3>3. snd.fin_sent /\ snd.next_seqno = ackd.next_seqno
      BY <2>3, <3>2 DEF Forward
    <3> QED BY <2>3, <3>1, <3>2, <3>3
  <2>14. call.peer = q /\ call.out = Outgoing(msgs, rcv)
    BY <2>6
  <2>15. ~peer[s].linger_after_streams_finish => ~q.linger_after_streams_finish
    BY <2>8
  <2>16. Effect(s, q, Outgoing(msgs, rcv))
    <3> DEFINE out == Outgoing(msgs, rcv)
    <3>1. /\ q \in Peer /\ q.sender = snd /\ q.receiver = rcv
      BY <2>8
    <3> HIDE DEF out
    <3>2. /\ out \in Seq(Message)
          /\ \A i \in 1 .. Len(out) : /\ OfStream(snd, out[i].sender)
                                      /\ out[i].receiver.ackno = Acknowledge(rcv).ackno
      BY <2>11 DEF out
    <3>3. Effect(s, q, out)
      BY <2>5, <2>9, <2>10, <2>12, <2>13, <2>15, <3>1, <3>2 DEF Effect
    <3> QED BY <3>3 DEF out
  <2>17. SameOwner(S(s), snd)
    BY <2>2, <2>3 DEF SameOwner
  <2> QED BY <2>8, <2>14, <2>16, <2>17 DEF call
<1> QED BY <1>2, <1>3

(* A segment that is on its way to the side.                                 *)
LEMMA ArrivalEffect ==
  ASSUME ConnectionInv, NEW s \in Side, NEW m \in network[s]
  PROVE  LET call == PeerReceive(peer[s], m)
         IN  /\ Effect(s, call.peer, call.out)
             /\ SameOwner(S(s), call.peer.sender)
<1> DEFINE t == Other(s)
           next == ReceiveSegment(R(s), m.sender)
<1>1. /\ t \in Side /\ Other(t) = s
      /\ Good(S(t)) /\ Sending(t, S(t)) /\ Heard(S(t), R(s)) /\ Parting(t)
  <2>1. t \in Side /\ Other(t) = s
    BY SideFacts
  <2> QED BY <2>1, SideFacts
<1>2. /\ m \in Message /\ OfStream(S(t), m.sender) /\ OfReceiver(R(t), m.receiver)
  BY DEF ConnectionInv
<1>3. m.sender \in SenderMessage /\ m.receiver \in ReceiverMessage
  BY <1>2 DEF Message
<1>4. S(t).next_seqno < HalfModulus /\ S(t).input.total_poped < IndexModulus
  BY <1>1, StreamFits
<1>5. /\ Heard(S(t), next) /\ Later(R(s), next)
      /\ next.reassembler.eof_received => R(s).reassembler.eof_received \/ m.sender.FIN
  BY <1>1, <1>2, <1>3, <1>4, HearSegment
<1>6. ~peer[t].linger_after_streams_finish /\ m.sender.FIN =>
        m.receiver.ackno = Acknowledge(R(t)).ackno
  BY <1>1 DEF Parting
<1> QED BY <1>2, <1>3, <1>5, <1>6, ReceiveEffect

(* A reset of a third party.                                                 *)
LEMMA ResetEffect ==
  ASSUME ConnectionInv, NEW s \in Side
  PROVE  LET call == PeerReceive(peer[s], Reset)
         IN  /\ Effect(s, call.peer, call.out)
             /\ SameOwner(S(s), call.peer.sender)
<1> DEFINE t == Other(s)
           next == ReceiveSegment(R(s), Reset.sender)
<1>1. Heard(S(t), R(s)) /\ R(s) \in Receiver
  BY SideFacts
<1>2. /\ Reset.sender.RST = TRUE /\ Reset.sender.SYN = FALSE /\ Reset.sender.FIN = FALSE
      /\ Reset.receiver = [ackno |-> NoAck, window_size |-> 0, RST |-> TRUE]
  BY DEF Reset
<1>3. Reset.receiver \in ReceiverMessage /\ Reset.receiver.ackno = NoAck
  BY <1>2, WindowAssumption DEF ReceiverMessage
<1>4. next = [R(s) EXCEPT !.reassembler.output = SetError(@)]
  BY <1>2 DEF ReceiveSegment
<1>5. /\ Heard(S(t), next) /\ Later(R(s), next)
      /\ next.reassembler.eof_received = R(s).reassembler.eof_received
  BY <1>1, <1>4, HearReset
<1>6. OfReceiver(R(t), Reset.receiver)
  BY <1>3 DEF OfReceiver
<1> QED BY <1>2, <1>3, <1>5, <1>6, ReceiveEffect
-----------------------------------------------------------------------------
(* The steps.                                                                *)

\* The invariant is kept, and the receivers have moved forward.
ConnectionKept ==
  /\ ConnectionInv'
  /\ \A s \in Side : Later(R(s), R(s)')

(* When each side has had a call, and nothing is on its way to a side that   *)
(* was not, or that the other one has not transmitted now, then all is well. *)
LEMMA CallsKeep ==
  ASSUME ConnectionInv, NEW result, peer' = [s \in Side |-> result[s].peer],
         \A s \in Side : Effect(s, result[s].peer, result[s].out),
         network' \in [Side -> SUBSET Message],
         \A s \in Side : \A m \in network'[s] :
           \/ m \in network[s]
           \/ \E i \in 1 .. Len(result[Other(s)].out) : m = result[Other(s)].out[i]
  PROVE  ConnectionKept
<1> DEFINE q(s) == result[s].peer
           out(s) == result[s].out
<1>1. \A s \in Side : /\ Other(s) \in Side /\ Other(Other(s)) = s
                      /\ peer'[s] = q(s) /\ S(s)' = q(s).sender /\ R(s)' = q(s).receiver
  BY DEF Side, Other, S, R
<1>2. peer' \in [Side -> Peer]
  BY DEF Effect
<1>3. ASSUME NEW s \in Side
      PROVE  /\ Sending(s, q(s).sender) /\ Good(S(s)) /\ Good(q(s).sender)
             /\ Forward(S(s), q(s).sender)
             /\ Heard(S(Other(s)), q(s).receiver)
             /\ Heard(q(Other(s)).sender, q(s).receiver)
             /\ Heard(q(s).sender, q(Other(s)).receiver)
             /\ Heard(S(s), R(Other(s))) /\ Later(R(s), q(s).receiver)
  <2>1. Other(s) \in Side /\ Other(Other(s)) = s
    BY <1>1
  <2>2. /\ Sending(s, q(s).sender) /\ Forward(S(s), q(s).sender) /\ Heard(S(Other(s)), q(s).receiver)
        /\ Later(R(s), q(s).receiver)
    BY DEF Effect
  <2>3. /\ Sending(Other(s), q(Other(s)).sender)
        /\ Forward(S(Other(s)), q(Other(s)).sender) /\ Heard(S(s), q(Other(s)).receiver)
    BY <2>1 DEF Effect
  <2>4. Good(S(s)) /\ Good(S(Other(s))) /\ Heard(S(s), R(Other(s)))
    BY <2>1, SideFacts
  <2>5. Good(q(s).sender) /\ Good(q(Other(s)).sender)
    BY <2>2, <2>3 DEF Sending
  <2> HIDE DEF q
  <2>6. Heard(q(Other(s)).sender, q(s).receiver)
    BY <2>2, <2>3, <2>4, <2>5, HeardForward
  <2>7. Heard(q(s).sender, q(Other(s)).receiver)
    BY <2>2, <2>3, <2>4, <2>5, HeardForward
  <2> QED BY <2>2, <2>4, <2>5, <2>6, <2>7
<1>4. ASSUME NEW s \in Side
      PROVE  /\ Sending(s, S(s))'
             /\ Heard(S(s), R(Other(s)))'
             /\ (S(s).ackno <= Acked(R(Other(s))))'
  <2> DEFINE t == Other(s)
  <2>1. t \in Side /\ S(s)' = q(s).sender /\ R(t)' = q(t).receiver
    BY <1>1
  <2>2. Sending(s, q(s).sender) /\ Heard(q(s).sender, q(t).receiver)
    BY <1>3
  <2>3. q(s).sender.ackno <= Acked(R(t)) /\ Acked(R(t)) <= Acked(q(t).receiver)
    <3>1. q(s).sender.ackno <= Acked(R(t))
      BY DEF Effect
    <3>2. Good(S(s)) /\ Heard(S(s), R(t)) /\ Later(R(t), q(t).receiver)
      BY <1>3, <2>1
    <3>3. Heard(S(s), q(t).receiver)
      BY <1>1, <1>3, <2>1
    <3> QED BY <3>1, <3>2, <3>3, AckedLater
  <2>4. /\ q(s).sender.ackno \in Nat /\ Acked(R(t)) \in Nat /\ Acked(q(t).receiver) \in Nat
    <3>1. Good(q(s).sender) /\ Good(S(s)) /\ Heard(S(s), R(t)) /\ Heard(q(s).sender, q(t).receiver)
      BY <1>3
    <3> HIDE DEF q, t
    <3>2. q(s).sender.ackno \in Nat /\ q(s).sender.next_seqno \in Nat /\ S(s).next_seqno \in Nat
      BY <3>1, GoodCounters
    <3>3. Acked(R(t)) \in 0 .. S(s).next_seqno /\ Acked(q(t).receiver) \in 0 .. q(s).sender.next_seqno
      BY <3>1, HeardCounters
    <3> QED BY <3>2, <3>3
  <2>5. q(s).sender.ackno <= Acked(q(t).receiver)
    BY <2>3, <2>4
  <2>6. Sending(s, S(s))'
    BY <2>1, <2>2 DEF Sending
  <2>7. Heard(S(s), R(t))'
    BY <2>1, <2>2 DEF Heard
  <2>8. (S(s).ackno <= Acked(R(t)))'
    BY <2>1, <2>5 DEF Acked
  <2> QED BY <2>6, <2>7, <2>8
<1>5. ASSUME NEW s \in Side, NEW m \in network'[s]
      PROVE  OfStream(S(Other(s)), m.sender)' /\ OfReceiver(R(Other(s)), m.receiver)'
  <2> DEFINE t == Other(s)
  <2>1. t \in Side /\ Other(t) = s /\ S(t)' = q(t).sender /\ R(t)' = q(t).receiver
    BY <1>1
  <2>2. /\ Good(S(t)) /\ Good(q(t).sender) /\ Forward(S(t), q(t).sender)
        /\ Good(S(s)) /\ Heard(S(s), R(t)) /\ Heard(S(s), q(t).receiver) /\ Later(R(t), q(t).receiver)
    BY <1>3, <2>1
  <2>3. OfStream(q(t).sender, m.sender) /\ OfReceiver(q(t).receiver, m.receiver)
    <3>1. CASE m \in network[s]
      <4>1. m \in Message /\ OfStream(S(t), m.sender) /\ OfReceiver(R(t), m.receiver)
        BY <3>1 DEF ConnectionInv
      <4>2. m.sender \in SenderMessage /\ m.receiver \in ReceiverMessage
        BY <4>1 DEF Message
      <4> HIDE DEF q, t
      <4>3. OfStream(q(t).sender, m.sender)
        BY <2>2, <4>1, <4>2, OfStreamForward
      <4>4. OfReceiver(q(t).receiver, m.receiver)
        BY <2>2, <4>1, <4>2, AckedLater
      <4> QED BY <4>3, <4>4
    <3>2. CASE m \notin network[s]
      <4>1. PICK i \in 1 .. Len(out(t)) : m = out(t)[i]
        BY <3>2
      <4>2. /\ OfStream(q(t).sender, out(t)[i].sender)
            /\ out(t)[i].receiver.ackno = Acknowledge(q(t).receiver).ackno
        BY <2>1, <4>1 DEF Effect
      <4>3. OfReceiver(q(t).receiver, Acknowledge(q(t).receiver))
        BY <2>2, AnswerOfReceiver
      <4>4. OfReceiver(q(t).receiver, m.receiver)
        BY <4>1, <4>2, <4>3 DEF OfReceiver
      <4> QED BY <4>1, <4>2, <4>4
    <3> QED BY <3>1, <3>2
  <2>4. OfStream(S(t), m.sender)'
    BY <2>1, <2>3 DEF OfStream
  <2>5. OfReceiver(R(t), m.receiver)'
    BY <2>1, <2>3 DEF OfReceiver, AbsoluteAckno, Output
  <2> QED BY <2>4, <2>5
<1>6. ASSUME NEW s \in Side PROVE Parting(s)'
  <2> DEFINE t == Other(s)
  <2>1. /\ t \in Side /\ Other(t) = s /\ S(t)' = q(t).sender /\ R(t)' = q(t).receiver
        /\ S(s)' = q(s).sender /\ R(s)' = q(s).receiver
        /\ peer'[s] = q(s)
    BY <1>1
  <2> SUFFICES ASSUME ~q(s).linger_after_streams_finish
               PROVE  /\ Output(q(s).receiver).closed
                      /\ \A m \in network'[t] :
                           m.sender.FIN => m.receiver.ackno = Acknowledge(q(s).receiver).ackno
                      /\ q(t).receiver.reassembler.eof_received =>
                           q(t).sender.fin_sent /\ q(t).sender.ackno = q(t).sender.next_seqno
    BY <2>1 DEF Parting, Output, Acknowledge, AbsoluteAckno, AdvertisedWindow
  <2>2. /\ Output(q(s).receiver).closed
        /\ ~peer[s].linger_after_streams_finish \/ ~q(s).sender.fin_sent
    BY DEF Effect
  <2>3. /\ Good(S(t)) /\ Good(q(t).sender) /\ Forward(S(t), q(t).sender)
        /\ Good(S(s)) /\ Good(q(s).sender) /\ Forward(S(s), q(s).sender)
        /\ Heard(S(t), R(s)) /\ Heard(q(t).sender, q(s).receiver)
        /\ Heard(q(s).sender, q(t).receiver)
    BY <1>3, <2>1
  <2>4. Parting(s)
    BY DEF ConnectionInv
  <2>5. ASSUME NEW m \in network'[t], m.sender.FIN
        PROVE  m.receiver.ackno = Acknowledge(q(s).receiver).ackno
    <3>1. CASE m \in network[t]
      <4>1. OfStream(S(s), m.sender)
        BY <2>1, <3>1 DEF ConnectionInv
      <4>2. S(s).fin_sent
        BY <2>5, <4>1 DEF OfStream
      <4>3. ~peer[s].linger_after_streams_finish
        BY <2>2, <2>3, <4>2 DEF Forward
      <4>4. Output(R(s)).closed /\ m.receiver.ackno = Acknowledge(R(s)).ackno
        BY <2>4, <2>5, <3>1, <4>3 DEF Parting
      <4>5. Acknowledge(R(s)).ackno = Wrap(S(t).next_seqno, S(t).isn) /\ S(t).fin_sent
        BY <2>3, <4>4, AnswerOfReceiver, HeardCounters
      <4>6. Acknowledge(q(s).receiver).ackno = Wrap(q(t).sender.next_seqno, q(t).sender.isn)
        BY <2>2, <2>3, AnswerOfReceiver
      <4>7. q(t).sender.next_seqno = S(t).next_seqno /\ q(t).sender.isn = S(t).isn
        BY <2>3, <4>5 DEF Forward
      <4> QED BY <4>4, <4>5, <4>6, <4>7
    <3>2. CASE m \notin network[t]
      <4>1. PICK i \in 1 .. Len(out(s)) : m = out(s)[i]
        BY <2>1, <3>2
      <4> QED BY <4>1 DEF Effect
    <3> QED BY <3>1, <3>2
  <2>6. ASSUME q(t).receiver.reassembler.eof_received
        PROVE  q(t).sender.fin_sent /\ q(t).sender.ackno = q(t).sender.next_seqno
    <3>1. CASE ~peer[s].linger_after_streams_finish
      <4>1. Effect(t, q(t), out(t))
        BY <2>1
      <4> QED BY <2>1, <2>6, <3>1, <4>1 DEF Effect
    <3>2. CASE peer[s].linger_after_streams_finish
      <4>1. ~q(s).sender.fin_sent
        BY <2>2, <3>2
      <4>2. q(s).sender.fin_sent
        BY <2>3, <2>6 DEF Heard
      <4> QED BY <4>1, <4>2
    <3> QED BY <3>1, <3>2
  <2> QED BY <2>2, <2>5, <2>6
<1>7. ConnectionInv'
  BY <1>2, <1>4, <1>5, <1>6 DEF ConnectionInv
<1>8. \A s \in Side : Later(R(s), R(s)')
  BY <1>1, <1>3
<1> QED BY <1>7, <1>8 DEF ConnectionKept

(* Whatever part of what was transmitted is lost, and whatever was taken off *)
(* the network.                                                              *)
LEMMA TakeKeeps ==
  ASSUME ConnectionInv, NEW result, NEW left, NEW fault, Take(result, left, fault),
         \A s \in Side : Effect(s, result[s].peer, result[s].out),
         \A s \in Side : left[s] \subseteq network[s]
  PROVE  ConnectionKept /\ peer' = [s \in Side |-> result[s].peer]
<1> DEFINE out == UNION {{<<Other(s), result[s].out[i]>> : i \in 1 .. Len(result[s].out)} : s \in Side}
<1>1. PICK lost \in SUBSET out :
        /\ peer' = [s \in Side |-> result[s].peer]
        /\ network' = [s \in Side |-> left[s] \cup {m[2] : m \in {m \in out \ lost : m[1] = s}}]
  BY DEF Take
<1>2. ASSUME NEW s \in Side, NEW m \in network'[s]
      PROVE  /\ m \in Message
             /\ \/ m \in network[s]
                \/ \E i \in 1 .. Len(result[Other(s)].out) : m = result[Other(s)].out[i]
  <2>1. CASE m \in left[s]
    <3>1. m \in network[s]
      BY <2>1
    <3> QED BY <3>1 DEF ConnectionInv
  <2>2. CASE m \notin left[s]
    <3>1. m \in {x[2] : x \in {y \in out \ lost : y[1] = s}}
      BY <1>1, <2>2
    <3>2. PICK x \in out : m = x[2] /\ x[1] = s
      BY <3>1
    <3>3. PICK t \in Side : x \in {<<Other(t), result[t].out[i]>> : i \in 1 .. Len(result[t].out)}
      BY <3>2
    <3>4. PICK i \in 1 .. Len(result[t].out) : x = <<Other(t), result[t].out[i]>>
      BY <3>3
    <3>5. m = result[t].out[i] /\ Other(t) = s
      BY <3>2, <3>4
    <3>6. t = Other(s)
      BY <3>5 DEF Side, Other
    <3>7. result[t].out \in Seq(Message)
      BY DEF Effect
    <3> QED BY <3>4, <3>5, <3>6, <3>7
  <2> QED BY <2>1, <2>2
<1> HIDE DEF out
<1>3. network' \in [Side -> SUBSET Message]
  BY <1>1, <1>2
<1> QED BY <1>1, <1>2, <1>3, CallsKeep

(* One side has had a call, the other one none.                              *)
LEMMA OneCallKeeps ==
  ASSUME ConnectionInv, NEW s \in Side, NEW call, Effect(s, call.peer, call.out),
         NEW left, NEW fault, Take([NoCall EXCEPT ![s] = call], left, fault),
         \A t \in Side : left[t] \subseteq network[t]
  PROVE  /\ ConnectionKept /\ peer'[s] = call.peer
         /\ \A t \in Side : t # s => peer'[t] = peer[t]
<1> DEFINE result == [NoCall EXCEPT ![s] = call]
<1>1. /\ result[s] = call
      /\ \A t \in Side : t # s => result[t] = NoCall[t] /\ NoCall[t].peer = peer[t]
  BY DEF NoCall
<1>2. \A t \in Side : Effect(t, result[t].peer, result[t].out)
  <2> SUFFICES ASSUME NEW t \in Side PROVE Effect(t, result[t].peer, result[t].out)
    OBVIOUS
  <2>1. CASE t = s
    BY <1>1, <2>1
  <2>2. CASE t # s
    <3>1. Effect(t, NoCall[t].peer, NoCall[t].out)
      BY NoEffect
    <3> QED BY <1>1, <2>2, <3>1
  <2> QED BY <2>1, <2>2
<1>3. Take(result, left, fault)
  OBVIOUS
<1> HIDE DEF result
<1>4. ConnectionKept /\ peer' = [t \in Side |-> result[t].peer]
  BY <1>2, <1>3, TakeKeeps
<1>5. \A t \in Side : peer'[t] = result[t].peer
  BY <1>4
<1> QED BY <1>1, <1>4, <1>5

\* What a step does to the streams: the owner of a side writes or closes, and
\* nothing arrives anywhere; or nobody writes.
Authored(s) ==
  /\ \/ /\ ~S(s).input.closed /\ S(s)'.input.closed = S(s).input.closed
        /\ S(s)'.input.total_pushed > S(s).input.total_pushed
     \/ S(s)'.input.closed /\ S(s)'.input.total_pushed = S(s).input.total_pushed
  /\ R(s)' = R(s)
  /\ \A t \in Side : t # s => peer'[t] = peer[t]

StreamStep ==
  \/ \E s \in Side : Authored(s)
  \/ \A s \in Side : SameOwner(S(s), S(s)')

LEMMA OwnersRest ==
  ASSUME NEW s \in Side, SameOwner(S(s), peer'[s].sender),
         \A t \in Side : t # s => peer'[t] = peer[t]
  PROVE  StreamStep
<1>1. \A t \in Side : SameOwner(S(t), S(t)')
  BY DEF SameOwner, S
<1> QED BY <1>1 DEF StreamStep

(* The owner's calls.                                                        *)
LEMMA OwnerStep ==
  ASSUME ConnectionInv, NEW s \in Side, Connect \/ Write(s) \/ CloseWrite(s)
  PROVE  ConnectionKept /\ StreamStep
<1>1. ASSUME NEW t \in Side, NEW snd, Good(snd), Carries(snd), Forward(S(t), snd),
             snd.ackno = S(t).ackno, snd.input.total_pushed <= MaxBytes(t),
             Do(t, PeerPush([peer[t] EXCEPT !.sender = snd]))
      PROVE  /\ ConnectionKept /\ SameOwner(snd, S(t)') /\ R(t)' = R(t)
             /\ \A u \in Side : u # t => peer'[u] = peer[u]
  <2> DEFINE call == PeerPush([peer[t] EXCEPT !.sender = snd])
  <2>1. /\ Effect(t, call.peer, call.out)
        /\ SameOwner(snd, call.peer.sender) /\ call.peer.receiver = R(t)
    BY <1>1, PushEffect
  <2>2. Take([NoCall EXCEPT ![t] = call], network, 0)
    BY <1>1 DEF Do
  <2> HIDE DEF call
  <2>3. /\ ConnectionKept /\ peer'[t] = call.peer
        /\ \A u \in Side : u # t => peer'[u] = peer[u]
    BY <2>1, <2>2, OneCallKeeps
  <2> QED BY <2>1, <2>3 DEF S, R
<1>2. ASSUME NEW t \in Side
      PROVE  /\ peer[t] \in Peer /\ Good(S(t)) /\ Carries(S(t)) /\ Forward(S(t), S(t))
             /\ S(t).input.total_pushed <= MaxBytes(t) /\ S(t) \in Sender
             /\ peer[t].sender = S(t) /\ S(t).input \in Stream
             /\ S(t).input.total_pushed \in Nat /\ S(t).input.capacity \in Nat
             /\ S(t).input.total_poped \in Nat /\ MaxBytes(t) \in Nat
  <2>1. MaxBytes(t) \in Nat
    BY ConnectionAssumption DEF MaxBytes
  <2> QED BY <2>1, SideFacts DEF Sending, S, Sender, Stream
<1>3. CASE Connect
  <2> DEFINE t == "client"
  <2>1. t \in Side
    BY DEF Side
  <2>2. Do(t, PeerPush([peer[t] EXCEPT !.sender = S(t)]))
    <3>1. [peer[t] EXCEPT !.sender = S(t)] = peer[t]
      BY <1>2, <2>1 DEF Peer
    <3> QED BY <1>3, <3>1 DEF Connect
  <2> HIDE DEF t
  <2>3. /\ ConnectionKept /\ SameOwner(S(t), S(t)')
        /\ \A u \in Side : u # t => peer'[u] = peer[u]
    BY <1>1, <1>2, <2>1, <2>2
  <2> QED BY <2>1, <2>3, OwnersRest DEF S
<1>4. CASE Write(s)
  <2> DEFINE room == Least(AvailableCapacity(S(s).input), MaxBytes(s) - S(s).input.total_pushed)
  <2>1. PICK n \in 1 .. room :
          Do(s, PeerPush([peer[s] EXCEPT !.sender.input =
                            PushBytes(@, [i \in 1 .. n |-> @.total_pushed + i])]))
    BY <1>4 DEF Write, Outbound, S
  <2>2. /\ n \in Nat /\ n >= 1 /\ n <= AvailableCapacity(S(s).input)
        /\ S(s).input.total_pushed + n <= MaxBytes(s)
    BY <1>2 DEF Least, AvailableCapacity
  <2>3. ~S(s).input.closed
    BY <1>4 DEF Write, MayRead, Outbound, S
  <2> DEFINE snd == Written(S(s), n)
  <2>4. /\ Good(snd) /\ Carries(snd) /\ Forward(S(s), snd) /\ snd.ackno = S(s).ackno
        /\ snd.input.total_pushed = S(s).input.total_pushed + n
        /\ snd.input.closed = S(s).input.closed
    BY <1>2, <2>2, <2>3, OwnerMoves
  <2>5. [peer[s] EXCEPT !.sender.input = PushBytes(@, [i \in 1 .. n |-> @.total_pushed + i])]
          = [peer[s] EXCEPT !.sender = snd]
    BY <1>2 DEF Written, Peer, Sender
  <2>6. Do(s, PeerPush([peer[s] EXCEPT !.sender = snd]))
    BY <2>1, <2>5
  <2> HIDE DEF snd, room
  <2>7. /\ ConnectionKept /\ SameOwner(snd, S(s)') /\ R(s)' = R(s)
        /\ \A u \in Side : u # s => peer'[u] = peer[u]
    BY <1>1, <2>2, <2>4, <2>6
  <2>8. /\ S(s)'.input.closed = S(s).input.closed
        /\ S(s)'.input.total_pushed > S(s).input.total_pushed
    BY <1>2, <2>2, <2>4, <2>7 DEF SameOwner
  <2> QED BY <2>3, <2>7, <2>8 DEF StreamStep, Authored
<1>5. CASE CloseWrite(s)
  <2> DEFINE snd == [S(s) EXCEPT !.input = Close(@)]
  <2>1. ~S(s).input.closed
    BY <1>5 DEF CloseWrite, MayRead, Outbound, S
  <2>2. /\ Good(snd) /\ Carries(snd) /\ Forward(S(s), snd) /\ snd.ackno = S(s).ackno
        /\ snd.input.total_pushed = S(s).input.total_pushed /\ snd.input.closed
    BY <1>2, <2>1, OwnerMoves
  <2>3. [peer[s] EXCEPT !.sender.input = Close(@)] = [peer[s] EXCEPT !.sender = snd]
    BY <1>2 DEF Peer, Sender
  <2>4. Do(s, PeerPush([peer[s] EXCEPT !.sender = snd]))
    BY <1>5, <2>3 DEF CloseWrite
  <2> HIDE DEF snd
  <2>5. /\ ConnectionKept /\ SameOwner(snd, S(s)') /\ R(s)' = R(s)
        /\ \A u \in Side : u # s => peer'[u] = peer[u]
    BY <1>1, <1>2, <2>2, <2>4
  <2>6. S(s)'.input.closed /\ S(s)'.input.total_pushed = S(s).input.total_pushed
    BY <2>2, <2>5 DEF SameOwner
  <2> QED BY <2>5, <2>6 DEF StreamStep, Authored
<1> QED BY <1>3, <1>4, <1>5

(* The clock of both sides.                                                  *)
LEMMA ClockStep ==
  ASSUME ConnectionInv, Clock
  PROVE  ConnectionKept /\ StreamStep
<1>1. PICK ms \in Ticks :
        LET result  == [s \in Side |-> IF Running(s) THEN PeerTick(peer[s], ms) ELSE NoCall[s]]
            expired == \E s \in Side : \/ result[s].out # <<>>
                                       \/ Active(peer[s]) /\ ~Active(result[s].peer)
        IN  Take(result, network, Count(expired /\ \E s \in Side : InTransit(s)))
  BY DEF Clock
<1> DEFINE result == [s \in Side |-> IF Running(s) THEN PeerTick(peer[s], ms) ELSE NoCall[s]]
<1>2. PICK fault : Take(result, network, fault)
  BY <1>1
<1>3. ms \in Nat
  BY ConnectionAssumption
<1>4. ASSUME NEW s \in Side
      PROVE  Effect(s, result[s].peer, result[s].out) /\ SameOwner(S(s), result[s].peer.sender)
  <2>1. CASE Running(s)
    <3>1. result[s] = PeerTick(peer[s], ms)
      BY <2>1
    <3> QED BY <1>3, <3>1, TickEffect
  <2>2. CASE ~Running(s)
    <3>1. result[s] = NoCall[s] /\ NoCall[s].peer = peer[s]
      BY <2>2 DEF NoCall
    <3>2. Effect(s, NoCall[s].peer, NoCall[s].out)
      BY NoEffect
    <3>3. SameOwner(S(s), peer[s].sender)
      BY DEF SameOwner, S
    <3> QED BY <3>1, <3>2, <3>3
  <2> QED BY <2>1, <2>2
<1> HIDE DEF result
<1>5. ConnectionKept /\ peer' = [s \in Side |-> result[s].peer]
  BY <1>2, <1>4, TakeKeeps
<1>6. \A s \in Side : SameOwner(S(s), S(s)')
  BY <1>4, <1>5 DEF S
<1> QED BY <1>5, <1>6 DEF StreamStep

(* What the network does.                                                    *)
LEMMA NetworkStep ==
  ASSUME ConnectionInv, NEW s \in Side,
         Arrives(s) \/ ArrivesAndRemains(s) \/ DroppedOnRead(s) \/ ResetArrives(s)
  PROVE  ConnectionKept /\ StreamStep
<1>1. \A t \in Side : network[t] \subseteq network[t]
  OBVIOUS
<1>2. ASSUME NEW msg \in network[s], NEW repeated \in {0, 1}, Deliver(s, msg, repeated)
      PROVE  ConnectionKept /\ StreamStep
  <2> DEFINE call == IF Filtered(s, msg) THEN NoCall[s] ELSE PeerReceive(peer[s], msg)
             left == IF repeated = 1 THEN network ELSE [network EXCEPT ![s] = @ \ {msg}]
  <2>1. Take([NoCall EXCEPT ![s] = call], left, repeated)
    BY <1>2 DEF Deliver
  <2>2. Effect(s, call.peer, call.out) /\ SameOwner(S(s), call.peer.sender)
    <3>1. Effect(s, NoCall[s].peer, NoCall[s].out)
      BY NoEffect
    <3>2. SameOwner(S(s), NoCall[s].peer.sender)
      BY DEF NoCall, SameOwner, S
    <3>3. /\ Effect(s, PeerReceive(peer[s], msg).peer, PeerReceive(peer[s], msg).out)
          /\ SameOwner(S(s), PeerReceive(peer[s], msg).peer.sender)
      BY ArrivalEffect
    <3> QED BY <3>1, <3>2, <3>3
  <2>3. \A t \in Side : left[t] \subseteq network[t]
    BY DEF ConnectionInv
  <2> HIDE DEF call, left
  <2>4. /\ ConnectionKept /\ peer'[s] = call.peer
        /\ \A t \in Side : t # s => peer'[t] = peer[t]
    BY <2>1, <2>2, <2>3, OneCallKeeps
  <2> QED BY <2>2, <2>4, OwnersRest
<1>3. CASE Arrives(s)
  BY <1>2, <1>3 DEF Arrives
<1>4. CASE ArrivesAndRemains(s)
  BY <1>2, <1>4 DEF ArrivesAndRemains
<1>5. CASE DroppedOnRead(s)
  <2>1. PICK msg \in network[s] : Take(NoCall, [network EXCEPT ![s] = @ \ {msg}], 1)
    BY <1>5 DEF DroppedOnRead
  <2> DEFINE left == [network EXCEPT ![s] = @ \ {msg}]
  <2>2. \A t \in Side : left[t] \subseteq network[t]
    BY DEF ConnectionInv
  <2>3. \A t \in Side : Effect(t, NoCall[t].peer, NoCall[t].out)
    BY NoEffect
  <2> HIDE DEF left
  <2>4. ConnectionKept /\ peer' = [t \in Side |-> NoCall[t].peer]
    BY <2>1, <2>2, <2>3, TakeKeeps DEF left
  <2>5. \A t \in Side : peer'[t] = peer[t]
    BY <2>4 DEF NoCall
  <2> QED BY <2>4, <2>5 DEF StreamStep, SameOwner, S
<1>6. CASE ResetArrives(s)
  <2> DEFINE call == PeerReceive(peer[s], Reset)
  <2>1. Take([NoCall EXCEPT ![s] = call], network, 1)
    BY <1>6 DEF ResetArrives
  <2>2. Effect(s, call.peer, call.out) /\ SameOwner(S(s), call.peer.sender)
    BY ResetEffect
  <2> HIDE DEF call
  <2>3. /\ ConnectionKept /\ peer'[s] = call.peer
        /\ \A t \in Side : t # s => peer'[t] = peer[t]
    BY <1>1, <2>1, <2>2, OneCallKeeps
  <2> QED BY <2>2, <2>3, OwnersRest
<1> QED BY <1>3, <1>4, <1>5, <1>6

(* The owner reads.                                                          *)
LEMMA ReadStep ==
  ASSUME ConnectionInv, NEW s \in Side, Read(s)
  PROVE  ConnectionKept /\ StreamStep
<1>1. PICK n \in 1 .. BytesBuffered(Output(R(s))) :
        peer' = [peer EXCEPT ![s].receiver.reassembler.output = PopBytes(@, n)]
  BY DEF Read, Inbound, R
<1> DEFINE t == Other(s)
           next == [R(s) EXCEPT !.reassembler.output = PopBytes(@, n)]
           q == [peer[s] EXCEPT !.receiver = next]
           call == [peer |-> q, out |-> <<>>]
           result == [NoCall EXCEPT ![s] = call]
<1>2. /\ t \in Side /\ peer[s] \in Peer /\ peer \in [Side -> Peer] /\ Heard(S(t), R(s))
      /\ Sending(s, S(s)) /\ Forward(S(s), S(s)) /\ S(s).ackno <= Acked(R(t)) /\ S(s).ackno \in Nat
      /\ Parting(s) /\ Parting(t) /\ network \in [Side -> SUBSET Message]
  <2>1. peer \in [Side -> Peer] /\ network \in [Side -> SUBSET Message]
    BY DEF ConnectionInv
  <2> QED BY <2>1, SideFacts
<1>3. /\ Heard(S(t), next) /\ Later(R(s), next)
      /\ next.reassembler.eof_received = R(s).reassembler.eof_received
      /\ Output(next).closed = Output(R(s)).closed
  BY <1>2, HearRead
<1>4. peer' = [peer EXCEPT ![s] = q]
  BY <1>1, <1>2 DEF R, Peer
<1> HIDE DEF next
<1>5. next \in Receiver
  BY <1>3 DEF Heard
<1>6. /\ q \in Peer /\ q.sender = S(s) /\ q.receiver = next
      /\ q.linger_after_streams_finish = peer[s].linger_after_streams_finish
  BY <1>2, <1>5 DEF Peer, S
<1> HIDE DEF q
<1>7. Effect(s, q, <<>>)
  <2>1. ~q.linger_after_streams_finish => Output(next).closed
    BY <1>2, <1>3, <1>6 DEF Parting
  <2>2. ~peer[t].linger_after_streams_finish /\ next.reassembler.eof_received =>
          S(s).fin_sent /\ S(s).ackno = S(s).next_seqno
    <3>1. Other(t) = s
      BY DEF Side, Other
    <3> QED BY <1>2, <1>3, <3>1 DEF Parting
  <2>3. <<>> \in Seq(Message) /\ 1 .. Len(<<>>) = {}
    OBVIOUS
  <2>4. S(s).ackno <= S(s).ackno
    BY <1>2
  <2> QED BY <1>2, <1>3, <1>6, <2>1, <2>2, <2>3, <2>4 DEF Effect
<1>8. \A u \in Side : Effect(u, result[u].peer, result[u].out)
  <2> SUFFICES ASSUME NEW u \in Side PROVE Effect(u, result[u].peer, result[u].out)
    OBVIOUS
  <2>1. CASE u = s
    <3>1. result[u].peer = q /\ result[u].out = <<>>
      BY <2>1 DEF NoCall
    <3> QED BY <1>7, <2>1, <3>1
  <2>2. CASE u # s
    <3>1. result[u] = NoCall[u]
      BY <2>2 DEF NoCall
    <3>2. Effect(u, NoCall[u].peer, NoCall[u].out)
      BY NoEffect
    <3> QED BY <3>1, <3>2
  <2> QED BY <2>1, <2>2
<1>9. peer' = [u \in Side |-> result[u].peer]
  BY <1>2, <1>4 DEF NoCall
<1>10. network' = network
  BY DEF Read
<1> HIDE DEF result
<1>11. ConnectionKept
  BY <1>2, <1>8, <1>9, <1>10, CallsKeep
<1>12. SameOwner(S(s), peer'[s].sender) /\ \A u \in Side : u # s => peer'[u] = peer[u]
  BY <1>2, <1>4, <1>6 DEF SameOwner
<1> QED BY <1>11, <1>12, OwnersRest

LEMMA StepKeepsConnection ==
  ASSUME ConnectionInv, [Next]_vars
  PROVE  ConnectionKept /\ StreamStep
<1>1. CASE Connect
  <2>1. "client" \in Side
    BY DEF Side
  <2> QED BY <1>1, <2>1, OwnerStep
<1>2. CASE Clock
  BY <1>2, ClockStep
<1>3. CASE \E s \in Side : \/ Write(s) \/ CloseWrite(s) \/ Read(s)
                           \/ Arrives(s) \/ ArrivesAndRemains(s)
                           \/ DroppedOnRead(s) \/ ResetArrives(s)
  <2>1. PICK s \in Side : \/ Write(s) \/ CloseWrite(s) \/ Read(s)
                          \/ Arrives(s) \/ ArrivesAndRemains(s)
                          \/ DroppedOnRead(s) \/ ResetArrives(s)
    BY <1>3
  <2>2. CASE Write(s) \/ CloseWrite(s)
    BY <2>2, OwnerStep
  <2>3. CASE Read(s)
    BY <2>3, ReadStep
  <2>4. CASE Arrives(s) \/ ArrivesAndRemains(s) \/ DroppedOnRead(s) \/ ResetArrives(s)
    BY <2>4, NetworkStep
  <2> QED BY <2>1, <2>2, <2>3, <2>4
<1>4. CASE UNCHANGED vars
  <2>1. peer' = peer /\ network' = network
    BY <1>4 DEF vars
  <2>2. \A s \in Side : NoCall[s].peer = peer[s] /\ Effect(s, NoCall[s].peer, NoCall[s].out)
    BY NoEffect DEF NoCall
  <2>3. peer \in [Side -> Peer] /\ network \in [Side -> SUBSET Message]
    BY DEF ConnectionInv
  <2>4. peer' = [s \in Side |-> NoCall[s].peer]
    BY <2>1, <2>2, <2>3
  <2>5. ConnectionKept
    <3> DEFINE result == NoCall
    <3> HIDE DEF result
    <3>1. \A s \in Side : Effect(s, result[s].peer, result[s].out)
      BY <2>2 DEF result
    <3>2. peer' = [s \in Side |-> result[s].peer]
      BY <2>4 DEF result
    <3> QED BY <2>1, <2>3, <3>1, <3>2, CallsKeep
  <2>6. StreamStep
    BY <2>1 DEF StreamStep, SameOwner, S
  <2> QED BY <2>5, <2>6
<1> QED BY <1>1, <1>2, <1>3, <1>4 DEF Next

LEMMA InitConnection ==
  ASSUME Init
  PROVE  ConnectionInv
<1>1. ASSUME NEW s \in Side
      PROVE  /\ Other(s) \in Side /\ Isn(s) \in Wrap32 /\ MaxBytes(s) \in Nat
             /\ peer[s] \in Peer
             /\ S(s) = NewSender(SendCapacity, Isn(s)) /\ R(s) = NewReceiver(RecvCapacity)
             /\ peer[s].linger_after_streams_finish = TRUE
             /\ Good(S(s)) /\ Carries(S(s)) /\ network[s] = {}
  <2>1. Other(s) \in Side /\ Isn(s) \in Wrap32 /\ MaxBytes(s) \in Nat
    BY ConnectionAssumption DEF Side, Other, Isn, MaxBytes
  <2>2. peer[s] = NewPeer(SendCapacity, RecvCapacity, Isn(s)) /\ network[s] = {}
    BY DEF Init
  <2>3. /\ S(s) = NewSender(SendCapacity, Isn(s)) /\ R(s) = NewReceiver(RecvCapacity)
        /\ peer[s].linger_after_streams_finish = TRUE /\ peer[s].idle = 0
        /\ peer[s] = [sender |-> S(s), receiver |-> R(s),
                      linger_after_streams_finish |-> TRUE, idle |-> 0]
    BY <2>2 DEF NewPeer, S, R
  <2>4. Good(S(s)) /\ Carries(S(s))
    BY <2>1, <2>3, ConnectionAssumption, NewSenderGood
  <2>5. S(s) \in Sender
    BY <2>4 DEF Good
  <2>6. R(s) \in Receiver
    BY <2>3, ConnectionAssumption, NewReceiverFaithful
  <2>7. 0 \in 0 .. LingerTime
    BY LingerAssumption, SenderAssumption DEF LingerTime
  <2>8. peer[s] \in Peer
    BY <2>3, <2>5, <2>6, <2>7 DEF Peer
  <2> QED BY <2>1, <2>2, <2>3, <2>4, <2>8
<1>2. ASSUME NEW s \in Side
      PROVE  /\ S(s).isn = Isn(s) /\ S(s).ackno = 0
             /\ S(s).input.total_pushed = 0 /\ S(s).input.closed = FALSE
             /\ S(s).input.total_poped = 0
  <2> DEFINE snd == S(s)
  <2>1. snd = NewSender(SendCapacity, Isn(s))
    BY <1>1
  <2> HIDE DEF snd
  <2>2. snd.isn = Isn(s) /\ snd.ackno = 0 /\ snd.input = NewStream(SendCapacity)
    BY <2>1 DEF NewSender
  <2>3. /\ snd.input.total_pushed = 0 /\ snd.input.closed = FALSE
        /\ snd.input.total_poped = 0
    BY <2>2 DEF NewStream
  <2> QED BY <2>2, <2>3 DEF snd
<1>3. ASSUME NEW s \in Side
      PROVE  Sending(s, S(s)) /\ Heard(S(s), R(Other(s))) /\ S(s).ackno <= Acked(R(Other(s)))
  <2> DEFINE rcv == R(Other(s))
             r == rcv.reassembler
  <2>1. rcv = NewReceiver(RecvCapacity)
    BY <1>1
  <2>2. /\ rcv \in Receiver /\ ~rcv.SYN /\ r \in Ordered(r.output, 1) /\ Faithful(r)
        /\ Known(r) = {} /\ ~r.eof_received /\ ~r.output.closed
    BY <2>1, ConnectionAssumption, NewReceiverFaithful
  <2> HIDE DEF rcv
  <2>3. Heard(S(s), rcv)
    BY <2>2 DEF Heard
  <2>4. S(s).ackno <= Acked(rcv)
    <3>1. Acked(rcv) = 0
      BY <2>2 DEF Acked
    <3>2. S(s).ackno = 0
      BY <1>2
    <3> QED BY <3>1, <3>2
  <2>5. Sending(s, S(s))
    <3>1. S(s).input.total_pushed <= MaxBytes(s)
      <4>1. S(s).input.total_pushed = 0 /\ MaxBytes(s) \in Nat
        BY <1>1, <1>2
      <4> QED BY <4>1
    <3> QED BY <1>1, <1>2, <3>1 DEF Sending
  <2> QED BY <2>3, <2>4, <2>5 DEF rcv
<1>4. peer \in [Side -> Peer] /\ network \in [Side -> SUBSET Message]
  <2>1. /\ peer = [s \in Side |-> NewPeer(SendCapacity, RecvCapacity, Isn(s))]
        /\ network = [s \in Side |-> {}]
    BY DEF Init
  <2>2. \A s \in Side : peer[s] \in Peer
    BY <1>1
  <2> QED BY <2>1, <2>2
<1> QED BY <1>1, <1>3, <1>4 DEF ConnectionInv, Parting

(* The inductive invariant holds in every behaviour, and every step is one   *)
(* of the two streams.                                                       *)
LEMMA ConnectionInvariant == Spec => []ConnectionInv
<1>1. ConnectionInv /\ [Next]_vars => ConnectionInv'
  BY StepKeepsConnection DEF ConnectionKept
<1> QED BY <1>1, InitConnection, PTL DEF Spec
-----------------------------------------------------------------------------
(* What one owner reads is what the other one wrote, in its order, whatever  *)
(* the network does to the segments and also after a reset.                  *)
THEOREM ReadersSafe == Spec => []ReaderSeesTheStream
<1>1. ConnectionInv => ReaderSeesTheStream
  <2> SUFFICES ASSUME ConnectionInv, NEW s \in Side
               PROVE  Inbound(s).buffer
                        = [i \in 1 .. BytesBuffered(Inbound(s)) |-> Inbound(s).total_poped + i]
    BY DEF ReaderSeesTheStream
  <2>1. Faithful(R(s).reassembler)
    BY SideFacts DEF Heard
  <2> QED BY <2>1 DEF Faithful, Bytes, Inbound, Output, BytesBuffered, R
<1> QED BY <1>1, ConnectionInvariant, PTL

(* What a sender believes to be acknowledged (SYN, bytes, FIN) is in the     *)
(* inbound stream of the other side, across both wrapped sequence spaces and *)
(* however old the acknowledgment is.                                        *)
THEOREM AckedSafe == Spec => []AckedIsDelivered
<1>1. ConnectionInv => AckedIsDelivered
  <2> SUFFICES ASSUME ConnectionInv, NEW s \in Side
               PROVE  S(s).ackno <= Count(R(Other(s)).SYN) + Inbound(Other(s)).total_pushed
                                      + Count(Inbound(Other(s)).closed)
    BY DEF AckedIsDelivered, S, R
  <2> DEFINE rcv == R(Other(s))
             out == Output(rcv)
  <2>1. Good(S(s)) /\ Heard(S(s), rcv) /\ S(s).ackno <= Acked(rcv)
    BY SideFacts
  <2>2. /\ S(s).ackno \in Nat /\ out.total_pushed \in Nat /\ out.closed \in BOOLEAN
        /\ rcv.SYN \in BOOLEAN /\ Count(out.closed) \in Nat
    <3> HIDE DEF rcv
    <3>1. S(s).ackno \in Nat /\ out.total_pushed \in Nat /\ out \in Stream /\ rcv.SYN \in BOOLEAN
      BY <2>1, GoodCounters, HeardCounters
    <3> QED BY <3>1 DEF Stream, Count
  <2>3. Acked(rcv) = IF rcv.SYN THEN out.total_pushed + 1 + Count(out.closed) ELSE 0
    BY DEF Acked, AbsoluteAckno
  <2>4. Inbound(Other(s)) = out
    BY DEF Inbound, R
  <2> HIDE DEF rcv, out
  <2>5. Count(rcv.SYN) = IF rcv.SYN THEN 1 ELSE 0
    BY DEF Count
  <2>6. S(s).ackno <= Count(rcv.SYN) + out.total_pushed + Count(out.closed)
    BY <2>1, <2>2, <2>3, <2>5
  <2> QED BY <2>4, <2>6 DEF rcv
<1> QED BY <1>1, ConnectionInvariant, PTL

(* A side that has ended without an error: its peer is no longer active.     *)
LEMMA CleanlyEnded ==
  ASSUME ConnectionInv, NEW s \in Side, Cleanly(s)
  PROVE  LET t == Other(s)
         IN  /\ Output(R(s)).closed /\ S(t).fin_sent
             /\ Output(R(s)).total_pushed = S(t).input.total_pushed
             /\ Output(R(t)).closed /\ Output(R(t)).total_pushed = S(s).input.total_pushed
             /\ S(s).flight = 0
<1> DEFINE t == Other(s)
           mine == R(s)
           theirs == R(t)
<1>1. /\ t \in Side /\ Good(S(s)) /\ Sending(s, S(s)) /\ Good(S(t))
      /\ Heard(S(s), theirs) /\ Heard(S(t), mine) /\ S(s).ackno <= Acked(theirs)
  <2>1. t \in Side
    BY SideFacts
  <2> QED BY <2>1, SideFacts
<1>2. /\ ~(S(s).flight > 0) /\ IsFinished(S(s).input) /\ Output(mine).closed
  BY DEF Cleanly, Active, OutboundFinished, InboundClosed, S, R
<1>3. /\ S(s).flight \in Nat /\ S(s).next_seqno \in Nat /\ S(s).ackno \in Nat
      /\ S(s).input.total_poped \in Nat
  BY <1>1, GoodCounters
<1>4. S(s).flight = 0 /\ S(s).ackno = S(s).next_seqno
  BY <1>1, <1>2, <1>3, NothingInFlight
<1>5. /\ S(t).fin_sent /\ Output(mine).total_pushed = S(t).input.total_pushed
  <2> HIDE DEF t, mine
  <2>1. S(t).fin_sent /\ Output(mine).total_pushed = S(t).input.total_poped
    BY <1>1, <1>2, HeardCounters
  <2> QED BY <1>1, <2>1, GoodCounters
<1>6. S(s).fin_sent
  BY <1>1, <1>2, <1>3, <1>4 DEF Sending, Finished, IsFinished
<1>7. /\ S(s).next_seqno = 2 + S(s).input.total_poped
      /\ S(s).input.total_pushed = S(s).input.total_poped
  BY <1>1, <1>6, GoodCounters
<1>8. Output(theirs).closed /\ Output(theirs).total_pushed = S(s).input.total_pushed
  <2> DEFINE out == Output(theirs)
             snd == S(s)
  <2>1. /\ out \in Stream /\ out.total_pushed \in 0 .. snd.input.total_poped
        /\ Acked(theirs) \in 0 .. snd.next_seqno
        /\ theirs.SYN \in BOOLEAN
        /\ out.closed => out.total_pushed = snd.input.total_poped
    <3> HIDE DEF theirs
    <3> QED BY <1>1, HeardCounters
  <2>2. out.closed \in BOOLEAN /\ out.total_pushed \in Nat
    BY <2>1 DEF Stream
  <2>3. Acked(theirs) = IF theirs.SYN THEN out.total_pushed + 1 + Count(out.closed) ELSE 0
    BY DEF Acked, AbsoluteAckno
  <2>4. Count(out.closed) = IF out.closed THEN 1 ELSE 0
    BY DEF Count
  <2> HIDE DEF out, theirs, snd
  <2>5. snd.ackno <= Acked(theirs) /\ snd.ackno = 2 + snd.input.total_poped
        /\ snd.input.total_poped \in Nat
    BY <1>1, <1>3, <1>4, <1>7 DEF snd
  <2>6. out.closed
    BY <2>1, <2>2, <2>3, <2>4, <2>5
  <2> QED BY <1>7, <2>1, <2>6 DEF out, snd
<1> QED BY <1>2, <1>4, <1>5, <1>8

(* A side that ends without an error leaves nothing undone: all that it      *)
(* wrote, and the end, is with the other side, and it has all that the other *)
(* one wrote.                                                                *)
THEOREM CleanCloseSafe == Spec => []CleanCloseIsComplete
<1>1. ConnectionInv => CleanCloseIsComplete
  BY CleanlyEnded DEF CleanCloseIsComplete, Inbound, Outbound, S, R
<1> QED BY <1>1, ConnectionInvariant, PTL

(* The side that leaves without lingering is not missed: the other side has  *)
(* had the acknowledgment of all that it sent.                               *)
THEOREM EarlyLeaverSafe == Spec => []EarlyLeaverIsNotMissed
<1>1. ConnectionInv => EarlyLeaverIsNotMissed
  <2> SUFFICES ASSUME ConnectionInv, NEW s \in Side, Cleanly(s),
                      ~peer[s].linger_after_streams_finish
               PROVE  S(Other(s)).fin_sent /\ S(Other(s)).flight = 0
    BY DEF EarlyLeaverIsNotMissed, S
  <2> DEFINE t == Other(s)
  <2>1. t \in Side /\ Good(S(t)) /\ Heard(S(s), R(t)) /\ Parting(s)
    <3>1. t \in Side
      BY SideFacts
    <3> QED BY <3>1, SideFacts
  <2>2. Output(R(t)).closed
    BY CleanlyEnded
  <2>3. R(t).reassembler.eof_received
    BY <2>1, <2>2 DEF Heard, Output
  <2>4. S(t).fin_sent /\ S(t).ackno = S(t).next_seqno
    BY <2>1, <2>3 DEF Parting
  <2>5. S(t).flight = 0
    BY <2>1, <2>4, NothingInFlight
  <2> QED BY <2>4, <2>5
<1> QED BY <1>1, ConnectionInvariant, PTL

(* One step, seen by the stream from the side s to the other one.            *)
LEMMA OneDirection ==
  ASSUME ConnectionInv, [Next]_vars, NEW s \in Side
  PROVE  LET from == S(s).input
             to   == Output(R(Other(s)))
             next == S(s)'.input
             more == Output(R(Other(s))')
         IN  \/ /\ ~from.closed /\ next.closed = from.closed
                /\ next.total_pushed > from.total_pushed
                /\ more.total_pushed = to.total_pushed /\ more.closed = to.closed
             \/ /\ next.closed /\ next.total_pushed = from.total_pushed
                /\ more.total_pushed = to.total_pushed /\ more.closed = to.closed
             \/ /\ ~to.closed /\ more.total_pushed \in to.total_pushed .. from.total_pushed
                /\ more.closed => from.closed /\ more.total_pushed = from.total_pushed
                /\ next.total_pushed = from.total_pushed /\ next.closed = from.closed
             \/ /\ next.total_pushed = from.total_pushed /\ next.closed = from.closed
                /\ more.total_pushed = to.total_pushed /\ more.closed = to.closed
<1> DEFINE t == Other(s)
           from == S(s).input
           to   == Output(R(t))
           next == S(s)'.input
           more == Output(R(t)')
<1>1. /\ t \in Side /\ Other(t) = s /\ ConnectionKept /\ StreamStep
  BY StepKeepsConnection, SideFacts
<1>2. /\ Good(S(s)) /\ Heard(S(s), R(t)) /\ Good(S(s)') /\ Heard(S(s)', R(t)')
      /\ Later(R(t), R(t)')
  <2>1. Good(S(s)) /\ Heard(S(s), R(t))
    BY SideFacts
  <2>2. Sending(s, S(s))' /\ Heard(S(s), R(t))'
    BY <1>1 DEF ConnectionKept, ConnectionInv
  <2>3. Good(S(s)')
    BY <2>2 DEF Sending
  <2>4. Heard(S(s)', R(t)')
    BY <2>2 DEF Heard
  <2>5. Later(R(t), R(t)')
    BY <1>1 DEF ConnectionKept
  <2> QED BY <2>1, <2>3, <2>4, <2>5
<1>3. ASSUME NEW u \in Side, Authored(u)
      PROVE  \/ /\ ~from.closed /\ next.closed = from.closed
                /\ next.total_pushed > from.total_pushed
                /\ more.total_pushed = to.total_pushed /\ more.closed = to.closed
             \/ /\ next.closed /\ next.total_pushed = from.total_pushed
                /\ more.total_pushed = to.total_pushed /\ more.closed = to.closed
             \/ /\ next.total_pushed = from.total_pushed /\ next.closed = from.closed
                /\ more.total_pushed = to.total_pushed /\ more.closed = to.closed
  <2>1. \A v \in Side : R(v)' = R(v)
    BY <1>3 DEF Authored, R
  <2>2. R(t)' = R(t)
    BY <1>1, <2>1
  <2>3. more = to
    BY <2>2
  <2>4. CASE u = s
    BY <1>3, <2>3, <2>4 DEF Authored
  <2>5. CASE u # s
    <3>1. S(s)' = S(s)
      BY <1>3, <2>5 DEF Authored, S
    <3> QED BY <2>3, <3>1
  <2> QED BY <2>4, <2>5
<1>4. ASSUME \A u \in Side : SameOwner(S(u), S(u)')
      PROVE  \/ /\ ~to.closed /\ more.total_pushed \in to.total_pushed .. from.total_pushed
                /\ more.closed => from.closed /\ more.total_pushed = from.total_pushed
                /\ next.total_pushed = from.total_pushed /\ next.closed = from.closed
             \/ /\ next.total_pushed = from.total_pushed /\ next.closed = from.closed
                /\ more.total_pushed = to.total_pushed /\ more.closed = to.closed
  <2>1. next.total_pushed = from.total_pushed /\ next.closed = from.closed
    BY <1>4 DEF SameOwner
  <2> DEFINE new == S(s)'
             old == S(s)
             rcv == R(t)
             got == R(t)'
  <2>2. /\ Good(old) /\ Heard(old, rcv) /\ Good(new) /\ Heard(new, got) /\ Later(rcv, got)
        /\ from = old.input /\ next = new.input /\ to = Output(rcv) /\ more = Output(got)
    BY <1>2
  <2> HIDE DEF new, old, rcv, got, from, next, to, more
  <2>3. /\ from.total_pushed \in Nat /\ new.input.total_poped \in Nat
        /\ new.input.total_poped <= next.total_pushed
        /\ to \in Stream /\ more \in Stream
        /\ more.total_pushed \in 0 .. new.input.total_poped
        /\ to.total_pushed \in 0 .. old.input.total_poped
        /\ more.closed => new.fin_sent /\ more.total_pushed = new.input.total_poped
        /\ to.closed => old.fin_sent /\ to.total_pushed = old.input.total_poped
        /\ new.fin_sent => next.closed /\ next.total_pushed = new.input.total_poped
        /\ old.fin_sent => from.total_pushed = old.input.total_poped
        /\ next.total_pushed \in Nat
    BY <2>2, GoodCounters, HeardCounters
  <2>4. /\ to.closed \in BOOLEAN /\ more.closed \in BOOLEAN
        /\ to.total_pushed \in Nat /\ more.total_pushed \in Nat
        /\ more.total_pushed >= to.total_pushed /\ (to.closed => more.closed)
    BY <2>2, <2>3 DEF Later, Stream
  <2>5. more.total_pushed \in to.total_pushed .. from.total_pushed
    BY <2>1, <2>3, <2>4
  <2>6. more.closed => from.closed /\ more.total_pushed = from.total_pushed
    BY <2>1, <2>3
  <2>7. CASE ~to.closed
    BY <2>1, <2>5, <2>6, <2>7
  <2>8. CASE to.closed
    <3>1. more.closed /\ more.total_pushed = from.total_pushed /\ to.total_pushed = from.total_pushed
      BY <2>3, <2>4, <2>6, <2>8
    <3> QED BY <2>1, <2>8, <3>1
  <2> QED BY <2>7, <2>8
<1> HIDE DEF from, to, next, more
<1>5. CASE \E u \in Side : Authored(u)
  BY <1>3, <1>5 DEF from, to, next, more
<1>6. CASE \A u \in Side : SameOwner(S(u), S(u)')
  BY <1>4, <1>6 DEF from, to, next, more
<1> QED BY <1>1, <1>5, <1>6 DEF StreamStep

(* The same step in the words of the streams.                                *)
LEMMA StreamsStep ==
  ASSUME ConnectionInv, [Next]_vars, NEW s \in Side, NEW t \in Side, t = Other(s)
  PROVE  \/ /\ ~Outbound(s).closed /\ Outbound(s)'.closed = Outbound(s).closed
            /\ Outbound(s)'.total_pushed > Outbound(s).total_pushed
            /\ Inbound(t)'.total_pushed = Inbound(t).total_pushed
            /\ Inbound(t)'.closed = Inbound(t).closed
         \/ /\ Outbound(s)'.closed
            /\ Outbound(s)'.total_pushed = Outbound(s).total_pushed
            /\ Inbound(t)'.total_pushed = Inbound(t).total_pushed
            /\ Inbound(t)'.closed = Inbound(t).closed
         \/ /\ ~Inbound(t).closed
            /\ Inbound(t)'.total_pushed \in Inbound(t).total_pushed .. Outbound(s).total_pushed
            /\ Inbound(t)'.closed \in BOOLEAN
            /\ Inbound(t)'.closed =>
                 Outbound(s).closed /\ Inbound(t)'.total_pushed = Outbound(s).total_pushed
            /\ Outbound(s)'.total_pushed = Outbound(s).total_pushed
            /\ Outbound(s)'.closed = Outbound(s).closed
         \/ /\ Outbound(s)'.total_pushed = Outbound(s).total_pushed
            /\ Outbound(s)'.closed = Outbound(s).closed
            /\ Inbound(t)'.total_pushed = Inbound(t).total_pushed
            /\ Inbound(t)'.closed = Inbound(t).closed
<1> DEFINE from == S(s).input
           to   == Output(R(Other(s)))
           next == S(s)'.input
           more == Output(R(Other(s))')
<1>1. Outbound(s) = from /\ Outbound(s)' = next
  BY DEF Outbound, S
<1>2. Inbound(t) = to /\ Inbound(t)' = more
  BY DEF Inbound, R, Output
<1>3. more.closed \in BOOLEAN
  <2>1. ConnectionKept
    BY StepKeepsConnection
  <2>2. Sending(s, S(s))' /\ Heard(S(s), R(Other(s)))'
    BY <2>1 DEF ConnectionKept, ConnectionInv
  <2>3. Good(S(s)') /\ Heard(S(s)', R(Other(s))')
    BY <2>2 DEF Sending, Heard
  <2> DEFINE new == S(s)'
             got == R(Other(s))'
  <2> HIDE DEF new, got
  <2>4. Output(got) \in Stream
    BY <2>3, HeardCounters DEF new, got
  <2> QED BY <2>4 DEF got, Stream
<1>4. \/ /\ ~from.closed /\ next.closed = from.closed
         /\ next.total_pushed > from.total_pushed
         /\ more.total_pushed = to.total_pushed /\ more.closed = to.closed
      \/ /\ next.closed /\ next.total_pushed = from.total_pushed
         /\ more.total_pushed = to.total_pushed /\ more.closed = to.closed
      \/ /\ ~to.closed /\ more.total_pushed \in to.total_pushed .. from.total_pushed
         /\ more.closed => from.closed /\ more.total_pushed = from.total_pushed
         /\ next.total_pushed = from.total_pushed /\ next.closed = from.closed
      \/ /\ next.total_pushed = from.total_pushed /\ next.closed = from.closed
         /\ more.total_pushed = to.total_pushed /\ more.closed = to.closed
  BY OneDirection
<1> HIDE DEF from, to, next, more
<1> QED BY <1>1, <1>2, <1>3, <1>4

(* Each direction of the connection implements a reliable stream: the reader *)
(* gets what was written, from the first byte on and without a gap, and is   *)
(* told of the end only when the writer has closed and nothing is missing.   *)
THEOREM StreamsKept == Spec => StreamsAreReliable
<1>1. ConnectionInv /\ [Next]_vars => [Stream1!Next]_(Stream1!vars)
  <2> SUFFICES ASSUME ConnectionInv, [Next]_vars PROVE [Stream1!Next]_(Stream1!vars)
    OBVIOUS
  <2>1. "client" \in Side /\ "server" \in Side /\ "server" = Other("client")
    BY DEF Side, Other
  <2> QED BY <2>1, StreamsStep
         DEF Stream1!Next, Stream1!vars, Stream1!Write, Stream1!CloseStream, Stream1!Arrive
<1>2. ConnectionInv /\ [Next]_vars => [Stream2!Next]_(Stream2!vars)
  <2> SUFFICES ASSUME ConnectionInv, [Next]_vars PROVE [Stream2!Next]_(Stream2!vars)
    OBVIOUS
  <2>1. "client" \in Side /\ "server" \in Side /\ "client" = Other("server")
    BY DEF Side, Other
  <2> QED BY <2>1, StreamsStep
         DEF Stream2!Next, Stream2!vars, Stream2!Write, Stream2!CloseStream, Stream2!Arrive
<1>3. Init => Stream1!Init /\ Stream2!Init
  <2> SUFFICES ASSUME Init PROVE Stream1!Init /\ Stream2!Init
    OBVIOUS
  <2>1. ASSUME NEW s \in Side
        PROVE  /\ Outbound(s).total_pushed = 0 /\ Outbound(s).closed = FALSE
               /\ Inbound(s).total_pushed = 0 /\ Inbound(s).closed = FALSE
    <3>1. peer[s] = NewPeer(SendCapacity, RecvCapacity, Isn(s))
      BY DEF Init
    <3>2. /\ peer[s].sender = NewSender(SendCapacity, Isn(s))
          /\ peer[s].receiver = NewReceiver(RecvCapacity)
      BY <3>1 DEF NewPeer
    <3>3. Outbound(s) = NewStream(SendCapacity)
      BY <3>2 DEF Outbound, NewSender
    <3>4. Inbound(s) = NewStream(RecvCapacity)
      BY <3>2 DEF Inbound, Output, NewReceiver, NewReassembler
    <3> QED BY <3>3, <3>4 DEF NewStream
  <2>2. "client" \in Side /\ "server" \in Side
    BY DEF Side
  <2> QED BY <2>1, <2>2 DEF Stream1!Init, Stream2!Init
<1> QED BY <1>1, <1>2, <1>3, ConnectionInvariant, PTL
     DEF Spec, StreamsAreReliable, Stream1!Spec, Stream2!Spec
-----------------------------------------------------------------------------
(* The adapters between the peers.                                          *)

(* The header holds the whole message, an absent ackno included, but for the *)
(* flag RST, of which there is one for both halves.                          *)
LEMMA HeaderHoldsMessage ==
  ASSUME NEW msg \in TCPMessage, NEW src_port, NEW dst_port
  PROVE  LET seg   == SerializeSegment(src_port, dst_port, msg)
             reset == msg.sender.RST \/ msg.receiver.RST
         IN  /\ Parses(seg)
             /\ ParseSegment(seg) = [sender   |-> [msg.sender EXCEPT !.RST = reset],
                                     receiver |-> [msg.receiver EXCEPT !.RST = reset]]
<1> DEFINE seg   == SerializeSegment(src_port, dst_port, msg)
           reset == msg.sender.RST \/ msg.receiver.RST
<1>1. msg.sender \in SenderMessage /\ msg.receiver \in ReceiverMessage
  BY DEF TCPMessage
<1>2. Parses(seg)
  BY AdapterAssumption DEF SerializeSegment, Parses
<1>3. ParseSegment(seg).sender = [msg.sender EXCEPT !.RST = reset]
  BY <1>1 DEF SenderMessage, ParseSegment, SerializeSegment
<1>4. ParseSegment(seg).receiver = [msg.receiver EXCEPT !.RST = reset]
  <2>1. (IF seg.ACK THEN seg.ackno ELSE NoAck) = msg.receiver.ackno
    BY DEF SerializeSegment
  <2>2. seg.window_size = msg.receiver.window_size /\ seg.RST = reset
    BY DEF SerializeSegment
  <2>3. ParseSegment(seg).receiver
          = [ackno |-> msg.receiver.ackno, window_size |-> msg.receiver.window_size, RST |-> reset]
    BY <2>1, <2>2 DEF ParseSegment
  <2> QED BY <1>1, <2>3 DEF ReceiverMessage
<1>5. ParseSegment(seg) = [sender |-> ParseSegment(seg).sender, receiver |-> ParseSegment(seg).receiver]
  BY DEF ParseSegment
<1> QED BY <1>2, <1>3, <1>4, <1>5

(* Between two adapters that name each other's addresses, every message is   *)
(* read, and neither adapter changes (wrap_tcp_in_ip, unwrap_tcp_in_ip).     *)
THEOREM AdaptersMatch ==
  ASSUME NEW msg \in TCPMessage, NEW a \in Adapter, NEW b \in Adapter,
         ~b.listening, b.source = a.destination, b.destination = a.source
  PROVE  ReadDatagram(b, WrapInIP(a, msg))
           = [adapter |-> b,
              message |-> ParseSegment(SerializeSegment(a.source.port, a.destination.port, msg))]
<1> DEFINE dgram == WrapInIP(a, msg)
           seg   == SerializeSegment(a.source.port, a.destination.port, msg)
<1>1. Parses(seg)
  BY HeaderHoldsMessage
<1>2. /\ dgram.dst = b.source.host /\ dgram.src = b.destination.host
      /\ dgram.proto = "TCP" /\ dgram.intact /\ dgram.segment = seg
  BY DEF WrapInIP
<1>3. seg.src_port = b.destination.port /\ seg.dst_port = b.source.port
  BY DEF SerializeSegment
<1>4. ForUs(b, dgram)
  BY <1>1, <1>2, <1>3 DEF ForUs
<1> QED BY <1>2, <1>4 DEF ReadDatagram, UnwrapFromIP

(* A listening adapter meets whoever sends a SYN to its port, and from then  *)
(* on the two adapters name each other's addresses: by the theorem above all *)
(* that follows is read too.                                                 *)
THEOREM ListenerMeetsCaller ==
  ASSUME NEW msg \in TCPMessage, NEW a \in Adapter, NEW b \in Adapter,
         b.listening, b.source.port = a.destination.port,
         msg.sender.SYN, ~msg.sender.RST, ~msg.receiver.RST
  PROVE  ReadDatagram(b, WrapInIP(a, msg))
           = [adapter |-> [source |-> a.destination, destination |-> a.source, listening |-> FALSE],
              message |-> msg]
<1> DEFINE dgram == WrapInIP(a, msg)
           seg   == SerializeSegment(a.source.port, a.destination.port, msg)
<1>1. Parses(seg)
  BY HeaderHoldsMessage
<1>2. /\ dgram.dst = a.destination.host /\ dgram.src = a.source.host
      /\ dgram.proto = "TCP" /\ dgram.intact /\ dgram.segment = seg
  BY DEF WrapInIP
<1>3. /\ seg.src_port = a.source.port /\ seg.dst_port = b.source.port
      /\ seg.SYN /\ ~seg.RST
  BY DEF SerializeSegment
<1>4. ForUs(b, dgram)
  BY <1>1, <1>2, <1>3 DEF ForUs
<1>5. Meets(b, dgram) = [source |-> a.destination, destination |-> a.source, listening |-> FALSE]
  <2>1. /\ a.source \in [host : Hosts \cup {AnyHost}, port : Ports]
        /\ a.destination \in [host : Hosts \cup {AnyHost}, port : Ports]
        /\ b.source \in [host : Hosts \cup {AnyHost}, port : Ports]
    BY DEF Adapter, Address
  <2>2. [b.source EXCEPT !.host = dgram.dst] = a.destination
    BY <1>2, <2>1
  <2>3. [host |-> dgram.src, port |-> dgram.segment.src_port] = a.source
    BY <1>2, <1>3, <2>1
  <2> QED BY <2>2, <2>3 DEF Meets
<1>6. ParseSegment(seg) = msg
  <2>1. /\ msg \in [sender : SenderMessage, receiver : ReceiverMessage]
        /\ msg.sender \in SenderMessage /\ msg.receiver \in ReceiverMessage
    BY DEF TCPMessage
  <2>2. [msg.sender EXCEPT !.RST = FALSE] = msg.sender
    BY <2>1 DEF SenderMessage
  <2>3. [msg.receiver EXCEPT !.RST = FALSE] = msg.receiver
    BY <2>1 DEF ReceiverMessage
  <2>4. (msg.sender.RST \/ msg.receiver.RST) = FALSE
    OBVIOUS
  <2>5. ParseSegment(seg) = [sender |-> msg.sender, receiver |-> msg.receiver]
    BY <2>2, <2>3, <2>4, HeaderHoldsMessage
  <2> QED BY <2>1, <2>5
<1> QED BY <1>2, <1>4, <1>5, <1>6 DEF ReadDatagram, UnwrapFromIP

(* What TCPPeer::send makes of a segment of its sender and its receiver's    *)
(* answer arrives at the peer of the matching adapter as OnWire says: there  *)
(* the connection may be studied without headers and addresses.              *)
THEOREM PeersAreJoined ==
  ASSUME NEW m \in SenderMessage, NEW rcv, Acknowledge(rcv) \in ReceiverMessage,
         NEW a \in Adapter, NEW b \in Adapter,
         ~b.listening, b.source = a.destination, b.destination = a.source
  PROVE  ReadDatagram(b, WrapInIP(a, [sender |-> m, receiver |-> Acknowledge(rcv)]))
           = [adapter |-> b, message |-> OnWire(m, rcv)]
<1> DEFINE msg == [sender |-> m, receiver |-> Acknowledge(rcv)]
           seg == SerializeSegment(a.source.port, a.destination.port, msg)
<1>1. msg \in TCPMessage
  BY DEF TCPMessage
<1>2. ParseSegment(seg) = [sender   |-> [m EXCEPT !.RST = m.RST \/ Acknowledge(rcv).RST],
                           receiver |-> [Acknowledge(rcv) EXCEPT !.RST = m.RST \/ Acknowledge(rcv).RST]]
  BY <1>1, HeaderHoldsMessage
<1>3. ParseSegment(seg) = OnWire(m, rcv)
  BY <1>2 DEF OnWire
<1>4. ReadDatagram(b, WrapInIP(a, msg)) = [adapter |-> b, message |-> ParseSegment(seg)]
  BY <1>1, AdaptersMatch
<1> QED BY <1>3, <1>4
=============================================================================
