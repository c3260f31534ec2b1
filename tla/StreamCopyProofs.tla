-------------------------- MODULE StreamCopyProofs ---------------------------
(* What bidirectional_stream_copy keeps, for every size of its buffers, of   *)
(* the kernel's and of what is copied.                                       *)
EXTENDS StreamCopy, SequenceTheorems, TLAPS

\* Somebody that the copy writes to has gone away.
Gone == sink.shut \/ world.over

Rule == {FromInput, ToSocket, FromSocket, ToOutput}

TypeOK ==
  /\ status \in {"copying", "returned", "thrown", "killed"}
  /\ copy \in Copy
  /\ loop.rules \subseteq Rule
  /\ source \in Channel /\ sink \in Channel /\ toPeer \in Channel /\ fromPeer \in Channel
  /\ world \in [input : {"pipe", "file"}, typed : Nat, shown : Nat, sent : Nat, received : Nat,
                over : BOOLEAN]

\* A stream holds what was pushed and not yet popped, within its capacity.
Proper(stream) ==
  /\ stream \in Stream /\ stream.capacity = buffer_size
  /\ Len(stream.buffer) = BytesBuffered(stream) /\ BytesBuffered(stream) <= buffer_size

\* What the callbacks note of the ends agrees with the streams.
Noted(c) ==
  /\ Proper(c.outbound) /\ Proper(c.inbound)
  /\ c.input_eof => c.outbound.closed
  /\ c.socket_eof => c.inbound.closed
  /\ c.outbound_shutdown => IsFinished(c.outbound)
  /\ c.inbound_shutdown => IsFinished(c.inbound)
  /\ c.output_closed <=> c.inbound_shutdown

\* As long as nobody has gone away, a stream is closed only after its source has
\* ended and has been read to the end, and a rule is dropped only when it has
\* nothing more to do.
Ended(c, rules) ==
  /\ ~c.outbound.error /\ ~c.inbound.error
  /\ c.outbound.closed => source.shut /\ source.data = <<>>
  /\ c.inbound.closed => fromPeer.shut /\ fromPeer.data = <<>>
  /\ toPeer.shut => c.outbound_shutdown
  /\ FromInput \notin rules => c.outbound.closed
  /\ ToSocket \notin rules => c.outbound_shutdown
  /\ FromSocket \notin rules => c.inbound.closed
  /\ ToOutput \notin rules => c.output_closed

\* What poll() has answered for a rule still holds when its callback is called.
StillTrue(rule, events, revents) ==
  /\ rule \in events => RuleInterest(copy, rule)
  /\ "IN" \in revents =>
       /\ rule \in events
       /\ \/ rule = FromInput /\ (source.data # <<>> \/ source.shut)
          \/ rule = FromSocket /\ (fromPeer.data # <<>> \/ fromPeer.shut)
  /\ "OUT" \in revents =>
       /\ rule \in events
       /\ \/ rule = ToSocket /\ RoomIn(toPeer) > 0
          \/ rule = ToOutput /\ RoomIn(sink) > 0
  /\ "HUP" \in revents =>
       \/ rule = FromInput /\ source.shut /\ (rule \in events => "IN" \in revents \/ source.data = <<>>)
       \/ rule = FromSocket /\ (rule \in events => "IN" \in revents)
       \/ rule = ToSocket /\ toPeer.shut
  /\ "ERR" \in revents => rule = ToOutput /\ sink.shut

AnswerHolds ==
  status = "copying" /\ loop.poll # NotPolled =>
    \A rule \in loop.rules : StillTrue(rule, loop.poll.events, loop.poll.revents[rule])

\* A channel that the copy has shut, or has shut for it, is known to be.
Told ==
  /\ copy.outbound_shutdown => toPeer.shut
  /\ status = "returned" /\ ~Gone => copy.outbound_shutdown /\ copy.output_closed

\* Nobody reads what was not written.
InOrder == world.received <= world.typed /\ world.shown <= world.sent

IInv ==
  /\ TypeOK /\ InOrder /\ CopyKeepsAll /\ Noted(copy) /\ Told
  /\ ~Gone => Ended(copy, loop.rules)
  /\ AnswerHolds /\ FailsOnlyOfOthers /\ status # "thrown"
-----------------------------------------------------------------------------
(* Sequences, and what lies in a chain of them.                              *)

\* A sequence is its first n elements and the others.
LEMMA SplitAt ==
  ASSUME NEW s \in Seq(Byte), NEW n \in 0 .. Len(s)
  PROVE  /\ SubSeq(s, 1, n) \in Seq(Byte) /\ Len(SubSeq(s, 1, n)) = n
         /\ SubSeq(s, n + 1, Len(s)) \in Seq(Byte) /\ Len(SubSeq(s, n + 1, Len(s))) = Len(s) - n
         /\ SubSeq(s, 1, n) \o SubSeq(s, n + 1, Len(s)) = s
<1>1. Len(s) \in Nat /\ n \in Int /\ \A i \in 1 .. Len(s) : s[i] \in Byte
  BY ElementOfSeq, LenProperties
<1>2. SubSeq(s, 1, n) \in Seq(Byte) /\ Len(SubSeq(s, 1, n)) = n
  BY <1>1, SubSeqProperties
<1>3. SubSeq(s, n + 1, Len(s)) \in Seq(Byte) /\ Len(SubSeq(s, n + 1, Len(s))) = Len(s) - n
  <2>1. \A i \in n + 1 .. Len(s) : s[i] \in Byte
    BY <1>1
  <2>2. n + 1 \in Int /\ Len(s) \in Int
    BY <1>1
  <2> QED BY <1>1, <2>1, <2>2, SubSeqProperties
<1>4. SubSeq(s, 1, n) \o SubSeq(s, n + 1, Len(s)) = SubSeq(s, 1, Len(s))
  <2>1. /\ 1 \in 1 .. Len(s) + 1 /\ n \in 1 - 1 .. Len(s) /\ Len(s) \in n .. Len(s)
    BY <1>1
  <2> QED BY <2>1, ConcatAdjacentSubSeq
<1> QED BY <1>2, <1>3, <1>4, SubSeqFull

LEMMA Regroup ==
  ASSUME NEW s \in Seq(Byte), NEW t \in Seq(Byte), NEW u \in Seq(Byte)
  PROVE  s \o (t \o u) = (s \o t) \o u
BY ConcatAssociative

\* Bytes move from one sequence of a chain to the one before it.
LEMMA MoveForward ==
  ASSUME NEW s \in Seq(Byte), NEW t \in Seq(Byte), NEW n \in 0 .. Len(t)
  PROVE  (s \o SubSeq(t, 1, n)) \o SubSeq(t, n + 1, Len(t)) = s \o t
<1> DEFINE p == SubSeq(t, 1, n)
           q == SubSeq(t, n + 1, Len(t))
<1>1. p \in Seq(Byte) /\ q \in Seq(Byte)
  BY SplitAt
<1>2. p \o q = t
  BY SplitAt
<1> HIDE DEF p, q
<1>3. (s \o p) \o q = s \o t
  <2>1. (s \o p) \o q = s \o (p \o q)
    BY <1>1, ConcatAssociative
  <2> QED BY <1>2, <2>1
<1> QED BY <1>3 DEF p, q

\* The numbers that follow others continue them.
LEMMA NumberedType ==
  ASSUME NEW first \in Nat, NEW n \in Nat
  PROVE  /\ Numbered(first, n) \in Seq(Nat) /\ Len(Numbered(first, n)) = n
         /\ \A i \in 1 .. n : Numbered(first, n)[i] = first + i
BY DEF Numbered

LEMMA NumberedContinue ==
  ASSUME NEW first \in Nat, NEW n \in Nat, NEW m \in Nat
  PROVE  Numbered(first, n) \o Numbered(first + n, m) = Numbered(first, n + m)
<1> DEFINE p == Numbered(first, n)
           q == Numbered(first + n, m)
           w == Numbered(first, n + m)
<1>1. /\ p \in Seq(Nat) /\ Len(p) = n /\ \A i \in 1 .. n : p[i] = first + i
      /\ q \in Seq(Nat) /\ Len(q) = m /\ \A i \in 1 .. m : q[i] = (first + n) + i
      /\ w \in Seq(Nat) /\ Len(w) = n + m /\ \A i \in 1 .. n + m : w[i] = first + i
  <2>1. first + n \in Nat /\ n + m \in Nat
    OBVIOUS
  <2> QED BY <2>1, NumberedType
<1> HIDE DEF p, q, w
<1>2. /\ p \o q \in Seq(Nat) /\ Len(p \o q) = n + m
      /\ \A i \in 1 .. n + m : (p \o q)[i] = IF i <= n THEN p[i] ELSE q[i - n]
  BY <1>1, ConcatProperties
<1>3. ASSUME NEW i \in 1 .. n + m PROVE (p \o q)[i] = w[i]
  <2>1. CASE i <= n
    BY <1>1, <1>2, <2>1
  <2>2. CASE ~(i <= n)
    <3>1. i - n \in 1 .. m /\ (first + n) + (i - n) = first + i
      BY <2>2
    <3> QED BY <1>1, <1>2, <2>2, <3>1
  <2> QED BY <2>1, <2>2
<1>4. p \o q = w
  BY <1>1, <1>2, <1>3, SeqEqual
<1> QED BY <1>4 DEF p, q, w

LEMMA NumberedTail ==
  ASSUME NEW first \in Nat, NEW n \in Nat, n > 0
  PROVE  Tail(Numbered(first, n)) = Numbered(first + 1, n - 1)
<1> DEFINE p == Numbered(first, n)
           w == Numbered(first + 1, n - 1)
<1>1. /\ p \in Seq(Nat) /\ Len(p) = n /\ \A i \in 1 .. n : p[i] = first + i
      /\ w \in Seq(Nat) /\ Len(w) = n - 1 /\ \A i \in 1 .. n - 1 : w[i] = (first + 1) + i
  <2>1. first + 1 \in Nat /\ n - 1 \in Nat
    OBVIOUS
  <2> QED BY <2>1, NumberedType
<1> HIDE DEF p, w
<1>2. p # <<>>
  BY <1>1
<1>3. /\ Tail(p) \in Seq(Nat) /\ Len(Tail(p)) = n - 1
      /\ \A i \in 1 .. n - 1 : Tail(p)[i] = p[i + 1]
  BY <1>1, <1>2, HeadTailProperties
<1>4. ASSUME NEW i \in 1 .. n - 1 PROVE Tail(p)[i] = w[i]
  <2>1. i + 1 \in 1 .. n /\ first + (i + 1) = (first + 1) + i
    OBVIOUS
  <2> QED BY <1>1, <1>3, <2>1
<1>5. Tail(p) = w
  BY <1>1, <1>3, <1>4, SeqEqual
<1> QED BY <1>5 DEF p, w

\* The head of a chain is that of its first sequence.
LEMMA TailOfChain ==
  ASSUME NEW S, NEW s \in Seq(S), NEW t \in Seq(S), s # <<>>
  PROVE  Tail(s) \o t = Tail(s \o t)
<1>1. /\ Tail(s) \in Seq(S) /\ Len(Tail(s)) = Len(s) - 1 /\ Len(s) \in Nat /\ Len(s) > 0
      /\ \A i \in 1 .. Len(s) - 1 : Tail(s)[i] = s[i + 1]
  BY HeadTailProperties, EmptySeq
<1>2. /\ s \o t \in Seq(S) /\ Len(s \o t) = Len(s) + Len(t) /\ Len(t) \in Nat
      /\ \A i \in 1 .. Len(s) + Len(t) : (s \o t)[i] = IF i <= Len(s) THEN s[i] ELSE t[i - Len(s)]
  BY ConcatProperties
<1>3. s \o t # <<>>
  BY <1>1, <1>2
<1> DEFINE u == s \o t
<1> HIDE DEF u
<1>4. /\ Tail(u) \in Seq(S) /\ Len(Tail(u)) = Len(u) - 1
      /\ \A i \in 1 .. Len(u) - 1 : Tail(u)[i] = u[i + 1]
  BY <1>2, <1>3, HeadTailProperties DEF u
<1>5. /\ Tail(s) \o t \in Seq(S) /\ Len(Tail(s) \o t) = (Len(s) - 1) + Len(t)
      /\ \A i \in 1 .. (Len(s) - 1) + Len(t) :
           (Tail(s) \o t)[i] = IF i <= Len(s) - 1 THEN Tail(s)[i] ELSE t[i - (Len(s) - 1)]
  BY <1>1, ConcatProperties
<1>6. Len(Tail(s) \o t) = Len(Tail(u))
  BY <1>1, <1>2, <1>4, <1>5 DEF u
<1>7. ASSUME NEW i \in 1 .. Len(Tail(s) \o t) PROVE (Tail(s) \o t)[i] = Tail(u)[i]
  <2>1. i \in 1 .. (Len(s) - 1) + Len(t) /\ i \in 1 .. Len(u) - 1 /\ i + 1 \in 1 .. Len(s) + Len(t)
    BY <1>1, <1>2, <1>5 DEF u
  <2>2. Tail(u)[i] = IF i + 1 <= Len(s) THEN s[i + 1] ELSE t[(i + 1) - Len(s)]
    BY <1>2, <1>4, <2>1 DEF u
  <2>3. CASE i <= Len(s) - 1
    BY <1>1, <1>5, <2>1, <2>2, <2>3
  <2>4. CASE ~(i <= Len(s) - 1)
    <3>1. i - (Len(s) - 1) = (i + 1) - Len(s) /\ ~(i + 1 <= Len(s))
      BY <1>1, <2>4
    <3> QED BY <1>5, <2>1, <2>2, <2>4, <3>1
  <2> QED BY <2>3, <2>4
<1>8. Tail(s) \o t = Tail(u)
  BY <1>4, <1>5, <1>6, <1>7, SeqEqual
<1> QED BY <1>8 DEF u
-----------------------------------------------------------------------------
(* The callbacks.                                                            *)

\* Neither end of a stream changes what a stream is.
LEMMA StreamParts ==
  ASSUME NEW stream \in Stream
  PROVE  /\ Close(stream) \in Stream /\ SetError(stream) \in Stream
         /\ Close(stream).capacity = stream.capacity /\ SetError(stream).capacity = stream.capacity
         /\ Close(stream).buffer = stream.buffer /\ SetError(stream).buffer = stream.buffer
         /\ Close(stream).total_pushed = stream.total_pushed
         /\ SetError(stream).total_pushed = stream.total_pushed
         /\ Close(stream).total_poped = stream.total_poped
         /\ SetError(stream).total_poped = stream.total_poped
         /\ Close(stream).closed /\ SetError(stream).closed = stream.closed
         /\ Close(stream).error = stream.error /\ SetError(stream).error
         /\ stream.closed => Close(stream) = stream
BY DEF Stream, Close, SetError

LEMMA CloseProper ==
  ASSUME NEW stream, Proper(stream)
  PROVE  /\ Proper(Close(stream)) /\ Proper(SetError(stream))
         /\ IsFinished(stream) => IsFinished(Close(stream)) /\ IsFinished(SetError(stream))
BY StreamParts DEF Proper, BytesBuffered, IsFinished

\* A rule that reads moves bytes from a channel to a stream that has room.
LEMMA FilledFacts ==
  ASSUME NEW stream, Proper(stream), NEW ch \in Channel, AvailableCapacity(stream) > 0
  PROVE  LET read == ReadFrom(ch, AvailableCapacity(stream))
             new  == Filled(stream, read)
         IN  /\ Proper(new) /\ new.error = stream.error
             /\ new.buffer \o read.channel.data = stream.buffer \o ch.data
             /\ new.closed <=> stream.closed \/ read.eof
             /\ read.channel \in Channel /\ read.channel.shut = ch.shut
             /\ read.eof <=> ch.data = <<>> /\ ch.shut
             /\ read.eof \in BOOLEAN
             /\ read.eof => read.channel.data = <<>>
             /\ read.registered <=> ch.data # <<>> \/ ch.shut
<1> DEFINE room == AvailableCapacity(stream)
           n    == Least(ReadSize(room), Len(ch.data))
           read == ReadFrom(ch, room)
           pushed == PushBytes(stream, read.data)
<1>1. /\ stream \in Stream /\ stream.buffer \in Seq(Byte) /\ stream.total_pushed \in Nat
      /\ stream.total_poped \in Nat /\ stream.closed \in BOOLEAN /\ stream.error \in BOOLEAN
      /\ stream.capacity = buffer_size /\ Len(stream.buffer) = stream.total_pushed - stream.total_poped
      /\ room = buffer_size - Len(stream.buffer) /\ Len(stream.buffer) \in Nat
      /\ buffer_size \in Nat
  BY CopyAssumption DEF Proper, Stream, BytesBuffered, AvailableCapacity
<1>2. ch.data \in Seq(Byte) /\ ch.shut \in BOOLEAN /\ Len(ch.data) \in Nat
  BY DEF Channel
<1>3. /\ n \in 0 .. Len(ch.data) /\ n <= room
      /\ n = 0 <=> ch.data = <<>>
  <2>1. ReadSize(room) = room /\ room \in Nat
    BY <1>1 DEF ReadSize
  <2>2. ch.data = <<>> <=> Len(ch.data) = 0
    BY <1>2, EmptySeq
  <2> QED BY <1>2, <2>1, <2>2 DEF Least
<1> HIDE DEF n
<1>4. /\ read.channel = [ch EXCEPT !.data = SubSeq(@, n + 1, Len(@))]
      /\ read.data = SubSeq(ch.data, 1, n)
      /\ read.eof <=> n = 0 /\ ch.shut
      /\ read.registered <=> n > 0 \/ ch.shut
      /\ read.eof \in BOOLEAN
  BY DEF ReadFrom, n
<1>5. /\ SubSeq(ch.data, 1, n) \in Seq(Byte) /\ Len(SubSeq(ch.data, 1, n)) = n
      /\ SubSeq(ch.data, n + 1, Len(ch.data)) \in Seq(Byte)
      /\ Len(SubSeq(ch.data, n + 1, Len(ch.data))) = Len(ch.data) - n
      /\ (stream.buffer \o SubSeq(ch.data, 1, n)) \o SubSeq(ch.data, n + 1, Len(ch.data))
           = stream.buffer \o ch.data
  BY <1>1, <1>2, <1>3, SplitAt, MoveForward
<1>6. /\ read.channel \in Channel /\ read.channel.shut = ch.shut
      /\ read.channel.data = SubSeq(ch.data, n + 1, Len(ch.data))
  BY <1>4, <1>5 DEF Channel
<1> HIDE DEF read
<1>7. pushed = [stream EXCEPT !.buffer = @ \o read.data, !.total_pushed = @ + n]
  BY <1>3, <1>4, <1>5 DEF PushBytes
<1> DEFINE b == stream.buffer \o read.data
<1>8. b \in Seq(Byte) /\ Len(b) = Len(stream.buffer) + n
  BY <1>1, <1>4, <1>5, ConcatProperties
<1> HIDE DEF b
<1>9. /\ pushed \in Stream /\ pushed.capacity = stream.capacity /\ pushed.buffer = b
      /\ pushed.total_pushed = stream.total_pushed + n /\ pushed.total_poped = stream.total_poped
      /\ pushed.closed = stream.closed /\ pushed.error = stream.error
  <2>1. pushed = [stream EXCEPT !.buffer = b, !.total_pushed = stream.total_pushed + n]
    BY <1>1, <1>7 DEF b
  <2>2. stream.total_pushed + n \in Nat
    BY <1>1, <1>2, <1>3
  <2> QED BY <1>1, <1>8, <2>1, <2>2 DEF Stream
<1> HIDE DEF pushed
<1>10. Proper(pushed)
  BY <1>1, <1>2, <1>3, <1>8, <1>9 DEF Proper, BytesBuffered
<1>11. Filled(stream, read) = IF read.eof THEN Close(pushed) ELSE pushed
  BY DEF Filled, pushed
<1>12. /\ Proper(Filled(stream, read)) /\ Filled(stream, read).error = stream.error
       /\ Filled(stream, read).buffer = b
       /\ Filled(stream, read).closed <=> stream.closed \/ read.eof
  BY <1>1, <1>9, <1>10, <1>11, CloseProper, StreamParts
<1>13. read.eof => SubSeq(ch.data, n + 1, Len(ch.data)) = <<>>
  <2> SUFFICES ASSUME read.eof PROVE SubSeq(ch.data, n + 1, Len(ch.data)) = <<>>
    OBVIOUS
  <2>1. n = 0 /\ ch.data = <<>> /\ n \in Int
    BY <1>3, <1>4
  <2>2. ch.data = <<>>
    BY <2>1
  <2>3. SubSeq(<<>>, 1, 0) = <<>>
    OBVIOUS
  <2> QED BY <2>1, <2>2, <2>3
<1>14. read.registered <=> ch.data # <<>> \/ ch.shut
  <2>1. n > 0 <=> ~(n = 0)
    BY <1>2, <1>3
  <2>2. read.registered <=> n > 0 \/ ch.shut
    BY <1>4
  <2> QED BY <1>3, <2>1, <2>2
<1> HIDE DEF room
<1>15. b \o read.channel.data = stream.buffer \o ch.data
  BY <1>4, <1>5, <1>6 DEF b
<1> QED BY <1>2, <1>3, <1>4, <1>6, <1>12, <1>13, <1>14, <1>15 DEF read, room

\* A rule that writes moves bytes from a stream to a channel.
LEMMA DrainedFacts ==
  ASSUME NEW stream, Proper(stream), NEW ch \in Channel, NEW n \in 0 .. Len(stream.buffer)
  PROVE  LET new     == Drained(stream, n)
             written == WriteTo(ch, stream.buffer, n)
         IN  /\ Proper(new) /\ new.closed = stream.closed /\ new.error = stream.error
             /\ written.data \o new.buffer = ch.data \o stream.buffer
             /\ written \in Channel /\ written.shut = ch.shut
             /\ IsFinished(new) => new.closed /\ new.buffer = <<>>
             /\ n = 0 => BytesBuffered(new) = BytesBuffered(stream)
<1> DEFINE p == SubSeq(stream.buffer, 1, n)
           q == SubSeq(stream.buffer, n + 1, Len(stream.buffer))
           new == Drained(stream, n)
<1>1. /\ stream \in Stream /\ stream.buffer \in Seq(Byte) /\ stream.total_pushed \in Nat
      /\ stream.total_poped \in Nat /\ stream.closed \in BOOLEAN /\ stream.error \in BOOLEAN
      /\ stream.capacity = buffer_size /\ Len(stream.buffer) = stream.total_pushed - stream.total_poped
      /\ Len(stream.buffer) \in Nat /\ Len(stream.buffer) <= buffer_size /\ buffer_size \in Nat
  BY CopyAssumption DEF Proper, Stream, BytesBuffered
<1>2. ch.data \in Seq(Byte) /\ ch.shut \in BOOLEAN
  BY DEF Channel
<1>3. /\ p \in Seq(Byte) /\ q \in Seq(Byte) /\ Len(q) = Len(stream.buffer) - n
      /\ (ch.data \o p) \o q = ch.data \o stream.buffer
  BY <1>1, <1>2, SplitAt, MoveForward
<1>4. new = [stream EXCEPT !.buffer = q, !.total_poped = stream.total_poped + n]
  BY <1>1 DEF Drained, PopBytes
<1>5. WriteTo(ch, stream.buffer, n) = [ch EXCEPT !.data = @ \o p]
  BY DEF WriteTo
<1> HIDE DEF p, q, new
<1>6. /\ new \in Stream /\ new.capacity = stream.capacity /\ new.buffer = q
      /\ new.total_pushed = stream.total_pushed /\ new.total_poped = stream.total_poped + n
      /\ new.closed = stream.closed /\ new.error = stream.error
  <2>1. stream.total_poped + n \in Nat
    BY <1>1
  <2> QED BY <1>1, <1>3, <1>4, <2>1 DEF Stream
<1>7. Proper(new)
  BY SMTT(60), <1>1, <1>3, <1>6 DEF Proper, BytesBuffered
<1>8. /\ WriteTo(ch, stream.buffer, n) \in Channel
      /\ WriteTo(ch, stream.buffer, n).shut = ch.shut
      /\ WriteTo(ch, stream.buffer, n).data = ch.data \o p
  <2> DEFINE d == ch.data \o p
  <2>1. d \in Seq(Byte)
    BY <1>2, <1>3, ConcatProperties
  <2>2. WriteTo(ch, stream.buffer, n) = [ch EXCEPT !.data = d]
    BY <1>5 DEF Channel
  <2> HIDE DEF d
  <2>3. /\ WriteTo(ch, stream.buffer, n) \in Channel /\ WriteTo(ch, stream.buffer, n).shut = ch.shut
        /\ WriteTo(ch, stream.buffer, n).data = d
    BY <2>1, <2>2 DEF Channel
  <2> QED BY <2>3 DEF d
<1>9. IsFinished(new) => new.closed /\ new.buffer = <<>>
  BY <1>1, <1>3, <1>6, EmptySeq DEF IsFinished
<1>10. n = 0 => BytesBuffered(new) = BytesBuffered(stream)
  BY <1>1, <1>6 DEF BytesBuffered
<1> QED BY <1>3, <1>6, <1>7, <1>8, <1>9, <1>10 DEF new, p, q
-----------------------------------------------------------------------------
(* wait_next_event up to poll().                                             *)

LEMMA CopyParts ==
  ASSUME NEW c \in Copy
  PROVE  /\ c.outbound \in Stream /\ c.inbound \in Stream
         /\ c.outbound_shutdown \in BOOLEAN /\ c.inbound_shutdown \in BOOLEAN
         /\ c.input_eof \in BOOLEAN /\ c.socket_eof \in BOOLEAN /\ c.output_closed \in BOOLEAN
BY DEF Copy

\* The cancel callbacks of rules whose descriptor is done change nothing: what
\* they close has been closed.
LEMMA CancelDone ==
  ASSUME NEW c \in Copy, Noted(c), NEW rule \in Rule, Loop!Done(c, rule)
  PROVE  RuleOnCancel(c, rule) = c
<1>1. /\ c.outbound \in Stream /\ c.inbound \in Stream
  BY CopyParts
<1>2. CASE rule = FromInput
  <2>1. c.outbound.closed
    BY <1>2 DEF Noted, Loop!Done, RuleAtEof, RuleIsClosed, RuleDirection, FromInput, ToOutput, FromSocket
  <2>2. Close(c.outbound) = c.outbound
    BY <1>1, <2>1, StreamParts
  <2> QED BY <1>2, <2>2 DEF RuleOnCancel, Copy
<1>3. CASE rule = FromSocket
  <2>1. c.inbound.closed
    BY <1>3 DEF Noted, Loop!Done, RuleAtEof, RuleIsClosed, RuleDirection, FromInput, ToOutput, FromSocket
  <2>2. Close(c.inbound) = c.inbound
    BY <1>1, <2>1, StreamParts
  <2> QED BY <1>3, <2>2 DEF RuleOnCancel, Copy, FromInput, ToSocket, FromSocket
<1>4. CASE rule = ToOutput
  <2>1. c.inbound.closed
    BY <1>4 DEF Noted, Loop!Done, RuleAtEof, RuleIsClosed, RuleDirection, FromInput, ToOutput, FromSocket,
                IsFinished
  <2>2. Close(c.inbound) = c.inbound
    BY <1>1, <2>1, StreamParts
  <2> QED BY <1>4, <2>2 DEF RuleOnCancel, Copy, FromInput, ToSocket, ToOutput
<1>5. rule # ToSocket
  BY DEF Loop!Done, RuleIsClosed, RuleDirection, FromInput, ToSocket, FromSocket, ToOutput
<1> QED BY <1>2, <1>3, <1>4, <1>5 DEF Rule

LEMMA SetUpRuleFacts ==
  ASSUME NEW c \in Copy, Noted(c), NEW rules \in SUBSET Rule, NEW events, NEW rule \in Rule
  PROVE  Loop!SetUpRule([state |-> c, rules |-> rules, events |-> events], rule)
           = [state  |-> c, rules |-> {r \in rules : r # rule \/ ~Loop!Done(c, r)},
              events |-> events \cup {r \in rules : r = rule /\ ~Loop!Done(c, r) /\ RuleInterest(c, r)}]
<1> DEFINE at == [state |-> c, rules |-> rules, events |-> events]
           left == {r \in rules : r # rule \/ ~Loop!Done(c, r)}
           asked == {r \in rules : r = rule /\ ~Loop!Done(c, r) /\ RuleInterest(c, r)}
<1>1. CASE rule \notin rules
  <2>1. left = rules /\ asked = {}
    BY <1>1
  <2> QED BY <1>1, <2>1 DEF Loop!SetUpRule
<1>2. CASE rule \in rules /\ Loop!Done(c, rule)
  <2>1. left = rules \ {rule} /\ asked = {}
    BY <1>2
  <2>2. RuleOnCancel(c, rule) = c
    BY <1>2, CancelDone
  <2> HIDE DEF left, asked
  <2>3. Loop!SetUpRule(at, rule) = [state |-> c, rules |-> rules \ {rule}, events |-> events]
    BY <1>2, <2>2 DEF Loop!SetUpRule
  <2> QED BY <2>1, <2>3 DEF left, asked
<1>3. CASE rule \in rules /\ ~Loop!Done(c, rule)
  <2>1. left = rules
    BY <1>3
  <2>2. asked = IF RuleInterest(c, rule) THEN {rule} ELSE {}
    BY <1>3
  <2> HIDE DEF left, asked
  <2>3. Loop!SetUpRule(at, rule)
          = [state |-> c, rules |-> rules,
             events |-> IF RuleInterest(c, rule) THEN events \cup {rule} ELSE events]
    BY <1>3 DEF Loop!SetUpRule
  <2>4. (IF RuleInterest(c, rule) THEN events \cup {rule} ELSE events) = events \cup asked
    BY <2>2
  <2> QED BY <2>1, <2>3, <2>4 DEF left, asked
<1> QED BY <1>1, <1>2, <1>3

LEMMA SetUpFacts ==
  ASSUME NEW c \in Copy, Noted(c), NEW rules \in SUBSET Rule
  PROVE  LET setup == Loop!SetUp(c, rules)
         IN  /\ setup.state = c
             /\ setup.rules = {r \in rules : ~Loop!Done(c, r)}
             /\ setup.events = {r \in setup.rules : RuleInterest(c, r)}
<1> DEFINE Left(n)  == {r \in rules : r > n \/ ~Loop!Done(c, r)}
           Asked(n) == {r \in rules : r <= n /\ ~Loop!Done(c, r) /\ RuleInterest(c, r)}
           At(n)    == [state |-> c, rules |-> Left(n), events |-> Asked(n)]
<1>1. Rule = 1 .. 4 /\ rules \subseteq 1 .. 4
  BY DEF Rule, FromInput, ToSocket, FromSocket, ToOutput
<1>2. At(0) = [state |-> c, rules |-> rules, events |-> {}]
  BY <1>1
<1>3. ASSUME NEW n \in 0 .. 3 PROVE Loop!SetUpRule(At(n), n + 1) = At(n + 1)
  <2>0. Left(n) \in SUBSET Rule
    OBVIOUS
  <2>1. /\ n + 1 \in Rule
        /\ \A r \in rules : (r > n <=> r > n + 1 \/ r = n + 1) /\ (r <= n + 1 <=> r <= n \/ r = n + 1)
        /\ ~(n + 1 > n + 1) /\ n + 1 > n
    BY <1>1
  <2>2. Left(n + 1) = {r \in Left(n) : r # n + 1 \/ ~Loop!Done(c, r)}
    BY <2>1, Zenon
  <2>3. Asked(n + 1) = Asked(n) \cup {r \in Left(n) : r = n + 1 /\ ~Loop!Done(c, r) /\ RuleInterest(c, r)}
    BY <2>1, Zenon
  <2> DEFINE left == {r \in Left(n) : r # n + 1 \/ ~Loop!Done(c, r)}
             more == {r \in Left(n) : r = n + 1 /\ ~Loop!Done(c, r) /\ RuleInterest(c, r)}
  <2>4. Loop!SetUpRule([state |-> c, rules |-> Left(n), events |-> Asked(n)], n + 1)
          = [state |-> c, rules |-> left, events |-> Asked(n) \cup more]
    <3> HIDE DEF Left, Asked
    <3> QED BY <2>0, <2>1, SetUpRuleFacts
  <2>5. left = Left(n + 1) /\ Asked(n) \cup more = Asked(n + 1)
    BY <2>2, <2>3
  <2> HIDE DEF Left, Asked, left, more
  <2> QED BY <2>4, <2>5
<1>4. Loop!SetUp(c, rules) = At(4)
  <2>1. /\ Loop!SetUpRule(At(0), 1) = At(1) /\ Loop!SetUpRule(At(1), 2) = At(2)
        /\ Loop!SetUpRule(At(2), 3) = At(3) /\ Loop!SetUpRule(At(3), 4) = At(4)
    <3> HIDE DEF At
    <3>1. /\ Loop!SetUpRule(At(0), 0 + 1) = At(0 + 1) /\ Loop!SetUpRule(At(1), 1 + 1) = At(1 + 1)
          /\ Loop!SetUpRule(At(2), 2 + 1) = At(2 + 1) /\ Loop!SetUpRule(At(3), 3 + 1) = At(3 + 1)
      BY <1>3
    <3>2. 0 + 1 = 1 /\ 1 + 1 = 2 /\ 2 + 1 = 3 /\ 3 + 1 = 4
      OBVIOUS
    <3> QED BY <3>1, <3>2
  <2> DEFINE start == [state |-> c, rules |-> rules, events |-> {}]
  <2>2. Loop!SetUp(c, rules)
          = Loop!SetUpRule(Loop!SetUpRule(Loop!SetUpRule(Loop!SetUpRule(start, 1), 2), 3), 4)
    BY DEF Loop!SetUp, Loop!MaxRules
  <2>3. start = At(0)
    BY <1>2
  <2> HIDE DEF At, start
  <2> QED BY <2>1, <2>2, <2>3
<1>5. Left(4) = {r \in rules : ~Loop!Done(c, r)}
  <2>1. \A r \in rules : ~(r > 4)
    BY <1>1
  <2> QED BY <2>1, Zenon
<1>6. Asked(4) = {r \in Left(4) : RuleInterest(c, r)}
  <2>1. \A r \in rules : ~(r > 4) /\ r <= 4
    BY <1>1
  <2> QED BY <2>1, Zenon
<1> HIDE DEF Left, Asked
<1>7. At(4).state = c /\ At(4).rules = Left(4) /\ At(4).events = Asked(4)
  OBVIOUS
<1> HIDE DEF At
<1> QED BY <1>4, <1>5, <1>6, <1>7
-----------------------------------------------------------------------------
(* wait_next_event after poll().                                             *)

\* The cancel and error callbacks only close streams and put errors on them.
SameButClosed(c, d) ==
  /\ c.outbound.buffer = d.outbound.buffer /\ c.inbound.buffer = d.inbound.buffer
  /\ IsFinished(d.outbound) => IsFinished(c.outbound)
  /\ IsFinished(d.inbound) => IsFinished(c.inbound)
  /\ c.outbound_shutdown <=> d.outbound_shutdown
  /\ c.inbound_shutdown <=> d.inbound_shutdown
  /\ c.output_closed <=> d.output_closed

LEMMA CancelFacts ==
  ASSUME NEW c \in Copy, Noted(c), NEW rule \in Rule
  PROVE  LET d == RuleOnCancel(c, rule)
         IN  d \in Copy /\ Noted(d) /\ SameButClosed(d, c)
<1>1. /\ c.outbound \in Stream /\ c.inbound \in Stream
      /\ Proper(c.outbound) /\ Proper(c.inbound)
  BY CopyParts DEF Noted
<1>2. ASSUME NEW stream \in Stream, Proper(stream)
      PROVE  /\ Close(stream) \in Stream /\ Proper(Close(stream)) /\ Close(stream).closed
             /\ Close(stream).buffer = stream.buffer
             /\ IsFinished(stream) => IsFinished(Close(stream))
  BY <1>2, StreamParts, CloseProper
<1>3. CASE rule \in {FromInput, ToSocket}
  <2> DEFINE o == Close(c.outbound)
  <2>1. /\ o \in Stream /\ Proper(o) /\ o.closed /\ o.buffer = c.outbound.buffer
        /\ IsFinished(c.outbound) => IsFinished(o)
    BY <1>1, <1>2
  <2>2. RuleOnCancel(c, rule) = [c EXCEPT !.outbound = o]
    BY <1>3 DEF RuleOnCancel, Copy
  <2> HIDE DEF o
  <2> QED BY <1>1, <2>1, <2>2 DEF Copy, Noted, SameButClosed
<1>4. CASE ~(rule \in {FromInput, ToSocket})
  <2> DEFINE i == Close(c.inbound)
  <2>1. /\ i \in Stream /\ Proper(i) /\ i.closed /\ i.buffer = c.inbound.buffer
        /\ IsFinished(c.inbound) => IsFinished(i)
    BY <1>1, <1>2
  <2>2. RuleOnCancel(c, rule) = [c EXCEPT !.inbound = i]
    BY <1>4 DEF RuleOnCancel, Copy
  <2> HIDE DEF i
  <2> QED BY <1>1, <2>1, <2>2 DEF Copy, Noted, SameButClosed
<1> QED BY <1>3, <1>4

LEMMA ErrorFacts ==
  ASSUME NEW c \in Copy, Noted(c), NEW rule
  PROVE  LET d == RuleOnError(c, rule)
         IN  d \in Copy /\ Noted(d) /\ SameButClosed(d, c)
<1> DEFINE o == SetError(c.outbound)
           i == SetError(c.inbound)
<1>1. /\ c.outbound \in Stream /\ c.inbound \in Stream
      /\ Proper(c.outbound) /\ Proper(c.inbound)
  BY CopyParts DEF Noted
<1>2. /\ o \in Stream /\ Proper(o) /\ o.buffer = c.outbound.buffer /\ o.closed = c.outbound.closed
      /\ IsFinished(c.outbound) => IsFinished(o)
      /\ i \in Stream /\ Proper(i) /\ i.buffer = c.inbound.buffer /\ i.closed = c.inbound.closed
      /\ IsFinished(c.inbound) => IsFinished(i)
  BY <1>1, StreamParts, CloseProper
<1>3. RuleOnError(c, rule) = [c EXCEPT !.outbound = o, !.inbound = i]
  BY DEF RuleOnError, Copy
<1> HIDE DEF o, i
<1> QED BY <1>1, <1>2, <1>3 DEF Copy, Noted, SameButClosed

\* While the answer of poll() is gone through.
Passing(at) ==
  /\ at \in [state : Copy, rules : SUBSET loop.rules, served : Nat]
  /\ Noted(at.state) /\ SameButClosed(at.state, copy)
  /\ ~Gone => Ended(at.state, at.rules)
  /\ at.served # Loop!None =>
       at.served \in at.rules /\ Loop!Ready(loop.poll.revents[at.served])

LEMMA AtGivenUp ==
  ASSUME NEW rules, NEW at \in [state : Copy, rules : SUBSET rules, served : Nat], NEW d \in Copy,
         NEW rule
  PROVE  LET new == [at EXCEPT !.state = d, !.rules = @ \ {rule}]
         IN  /\ new \in [state : Copy, rules : SUBSET rules, served : Nat]
             /\ new.state = d /\ new.rules = at.rules \ {rule} /\ new.served = at.served
<1> DEFINE left == at.rules \ {rule}
<1>1. left \in SUBSET rules
  OBVIOUS
<1>2. [at EXCEPT !.state = d, !.rules = @ \ {rule}] = [at EXCEPT !.state = d, !.rules = left]
  OBVIOUS
<1> HIDE DEF left
<1>3. LET new == [at EXCEPT !.state = d, !.rules = left]
      IN  /\ new \in [state : Copy, rules : SUBSET rules, served : Nat]
          /\ new.state = d /\ new.rules = left /\ new.served = at.served
  BY <1>1
<1> QED BY <1>2, <1>3 DEF left

LEMMA AtServed ==
  ASSUME NEW rules, NEW at \in [state : Copy, rules : SUBSET rules, served : Nat], NEW served \in Nat
  PROVE  LET new == [at EXCEPT !.served = served]
         IN  /\ new \in [state : Copy, rules : SUBSET rules, served : Nat]
             /\ new.state = at.state /\ new.rules = at.rules /\ new.served = served
OBVIOUS

\* A rule is given up only when it has nothing more to do, or when somebody has
\* gone away.
LEMMA GivenUp ==
  ASSUME NEW at, Passing(at), at.served = Loop!None, NEW rule,
         NEW d \in Copy, Noted(d), SameButClosed(d, at.state),
         ~Gone => Ended(d, at.rules \ {rule})
  PROVE  Passing([at EXCEPT !.state = d, !.rules = @ \ {rule}])
<1> DEFINE new == [at EXCEPT !.state = d, !.rules = @ \ {rule}]
<1>1. at \in [state : Copy, rules : SUBSET loop.rules, served : Nat] /\ SameButClosed(at.state, copy)
  BY DEF Passing
<1>2. /\ new \in [state : Copy, rules : SUBSET loop.rules, served : Nat]
      /\ new.state = d /\ new.rules = at.rules \ {rule} /\ new.served = Loop!None
  BY <1>1, AtGivenUp
<1>3. SameButClosed(d, copy)
  BY <1>1 DEF SameButClosed
<1> HIDE DEF new
<1>4. Passing(new)
  BY <1>2, <1>3 DEF Passing
<1> QED BY <1>4 DEF new

LEMMA Served ==
  ASSUME NEW at, Passing(at), NEW rule \in at.rules, Loop!Ready(loop.poll.revents[rule]),
         loop.rules \subseteq Rule
  PROVE  Passing([at EXCEPT !.served = rule])
<1> DEFINE new == [at EXCEPT !.served = rule]
<1>1. at \in [state : Copy, rules : SUBSET loop.rules, served : Nat]
  BY DEF Passing
<1>2. rule \in Nat
  BY <1>1 DEF Rule, FromInput, ToSocket, FromSocket, ToOutput
<1>3. /\ new \in [state : Copy, rules : SUBSET loop.rules, served : Nat]
      /\ new.state = at.state /\ new.rules = at.rules /\ new.served = rule
  BY <1>1, <1>2, AtServed
<1> HIDE DEF new
<1>4. Passing(new)
  BY <1>3 DEF Passing
<1> QED BY <1>4 DEF new

\* A writer without a reader knows it, and so does a reader without a writer.
LEMMA HangupFacts ==
  ASSUME NEW c \in Copy, Noted(c), NEW rules, Ended(c, rules), NEW rule,
         \/ rule = FromInput /\ source.shut /\ source.data = <<>>
         \/ rule = ToSocket /\ toPeer.shut
  PROVE  Ended(RuleOnCancel(c, rule), rules \ {rule})
<1> DEFINE o == Close(c.outbound)
           d == RuleOnCancel(c, rule)
<1>1. c.outbound \in Stream
  BY CopyParts
<1>2. d = [c EXCEPT !.outbound = o]
  BY DEF RuleOnCancel, Copy
<1>3. o.error = c.outbound.error /\ o.closed
  BY <1>1, StreamParts
<1> HIDE DEF o, d
<1>4. /\ d.outbound = o /\ d.inbound = c.inbound
      /\ d.outbound_shutdown = c.outbound_shutdown /\ d.output_closed = c.output_closed
  BY <1>2 DEF Copy
<1>5. c.outbound_shutdown => c.outbound.closed
  BY DEF Noted, IsFinished
<1>6. source.shut /\ source.data = <<>>
  BY <1>5 DEF Ended
<1>7. \/ rule = FromInput
      \/ rule = ToSocket /\ d.outbound_shutdown
  BY <1>4 DEF Ended
<1>8. Ended(d, rules \ {rule})
  BY <1>3, <1>4, <1>6, <1>7 DEF Ended, FromInput, ToSocket, FromSocket, ToOutput
<1> QED BY <1>8 DEF d

LEMMA PassRuleKeeps ==
  ASSUME TypeOK, NEW at, Passing(at), NEW rule \in Rule,
         \A r \in loop.rules : StillTrue(r, loop.poll.events, loop.poll.revents[r])
  PROVE  Passing(Loop!PassRule(at, rule, loop.poll.events, loop.poll.revents))
<1> DEFINE next == Loop!PassRule(at, rule, loop.poll.events, loop.poll.revents)
           polled == loop.poll.revents[rule]
<1> HIDE DEF next
<1>1. /\ at.state \in Copy /\ at.rules \subseteq loop.rules /\ loop.rules \subseteq Rule
      /\ Noted(at.state) /\ (~Gone => Ended(at.state, at.rules))
  BY DEF Passing, TypeOK
<1>2. CASE rule \notin at.rules \/ at.served # Loop!None
  BY <1>2 DEF Loop!PassRule, next
<1>3. CASE rule \in at.rules /\ at.served = Loop!None
  <2>1. StillTrue(rule, loop.poll.events, polled)
    BY <1>1, <1>3
  <2>2. CASE "ERR" \in polled
    <3> DEFINE e == RuleOnError(at.state, rule)
               d == RuleOnCancel(e, rule)
    <3>1. e \in Copy /\ Noted(e) /\ SameButClosed(e, at.state)
      BY <1>1, ErrorFacts
    <3>2. next = [at EXCEPT !.state = d, !.rules = @ \ {rule}]
      BY <1>3, <2>2 DEF Loop!PassRule, next
    <3> HIDE DEF e
    <3>3. d \in Copy /\ Noted(d) /\ SameButClosed(d, e)
      BY <3>1, CancelFacts
    <3>4. SameButClosed(d, at.state)
      <4> HIDE DEF d
      <4> QED BY <3>1, <3>3 DEF SameButClosed
    <3>5. Gone
      BY <2>1, <2>2 DEF StillTrue, Gone
    <3> HIDE DEF d
    <3>6. Passing([at EXCEPT !.state = d, !.rules = @ \ {rule}])
      BY <1>3, <3>3, <3>4, <3>5, GivenUp
    <3> QED BY <3>2, <3>6 DEF next
  <2>3. CASE "ERR" \notin polled /\ Loop!Defunct(rule, loop.poll.events, polled)
    <3> DEFINE d == RuleOnCancel(at.state, rule)
    <3>1. next = [at EXCEPT !.state = d, !.rules = @ \ {rule}]
      BY <1>3, <2>3 DEF Loop!PassRule, next
    <3>2. d \in Copy /\ Noted(d) /\ SameButClosed(d, at.state)
      BY <1>1, CancelFacts
    <3>3. \/ rule = FromInput /\ source.shut /\ source.data = <<>>
          \/ rule = ToSocket /\ toPeer.shut
      BY <2>1, <2>3 DEF StillTrue, Loop!Defunct, Loop!Ready, RuleDirection,
                        FromInput, ToSocket, FromSocket, ToOutput
    <3>4. ~Gone => Ended(d, at.rules \ {rule})
      BY <1>1, <3>3, HangupFacts
    <3> HIDE DEF d
    <3>5. Passing([at EXCEPT !.state = d, !.rules = @ \ {rule}])
      BY <1>3, <3>2, <3>4, GivenUp
    <3> QED BY <3>1, <3>5 DEF next
  <2>4. CASE "ERR" \notin polled /\ ~Loop!Defunct(rule, loop.poll.events, polled)
    <3>1. next = [at EXCEPT !.served = IF Loop!Ready(polled) THEN rule ELSE Loop!None]
      BY <1>3, <2>4 DEF Loop!PassRule, next
    <3>2. CASE Loop!Ready(polled)
      <4>1. next = [at EXCEPT !.served = rule]
        BY <3>1, <3>2
      <4>2. Passing([at EXCEPT !.served = rule])
        BY <1>1, <1>3, <3>2, Served
      <4> QED BY <4>1, <4>2 DEF next
    <3>3. CASE ~Loop!Ready(polled)
      <4>1. next = [at EXCEPT !.served = Loop!None]
        BY <3>1, <3>3
      <4>2. [at EXCEPT !.served = Loop!None] = at
        BY <1>3 DEF Passing
      <4> QED BY <4>1, <4>2 DEF next
    <3> QED BY <3>2, <3>3
  <2> QED BY <2>2, <2>3, <2>4
<1> QED BY <1>2, <1>3

LEMMA PassKeeps ==
  ASSUME IInv, status = "copying", loop.poll # NotPolled
  PROVE  Passing(Pass)
<1> DEFINE start == [state |-> copy, rules |-> loop.rules, served |-> Loop!None]
           P(at, rule) == Loop!PassRule(at, rule, loop.poll.events, loop.poll.revents)
<1>1. /\ TypeOK /\ copy \in Copy /\ Noted(copy) /\ (~Gone => Ended(copy, loop.rules))
      /\ \A r \in loop.rules : StillTrue(r, loop.poll.events, loop.poll.revents[r])
  BY DEF IInv, TypeOK, AnswerHolds
<1>2. Passing(start)
  <2>1. SameButClosed(copy, copy)
    BY DEF SameButClosed
  <2> QED BY <1>1, <2>1 DEF Passing, Loop!None
<1>3. ASSUME NEW at, Passing(at), NEW rule \in Rule PROVE Passing(P(at, rule))
  BY <1>1, <1>3, PassRuleKeeps
<1>4. 1 \in Rule /\ 2 \in Rule /\ 3 \in Rule /\ 4 \in Rule
  BY DEF Rule, FromInput, ToSocket, FromSocket, ToOutput
<1>5. Pass = P(P(P(P(start, 1), 2), 3), 4)
  BY DEF Pass, Loop!PollPass, Loop!MaxRules
<1> HIDE DEF start, P
<1> QED BY <1>2, <1>3, <1>4, <1>5
-----------------------------------------------------------------------------
(* The others.                                                               *)

\* What was written first, up to last, and not yet read.
Chain(a, b, c, first, last) ==
  /\ a \in Seq(Byte) /\ b \in Seq(Byte) /\ c \in Seq(Byte)
  /\ first \in Nat /\ last \in Nat /\ first <= last
  /\ a \o b \o c = Numbered(first, last - first)

\* More is put into the last sequence of a chain.
LEMMA ChainGrows ==
  ASSUME NEW a, NEW b, NEW c, NEW first, NEW last, Chain(a, b, c, first, last), NEW n \in Nat
  PROVE  LET new == c \o SubSeq(Numbered(last, n), 1, n)
         IN  Len(new) = Len(c) + n /\ Chain(a, b, new, first, last + n)
<1> USE DEF Chain
<1> DEFINE m == Numbered(last, n)
           ab == a \o b
<1>0. last - first \in Nat /\ first + (last - first) = last /\ (last - first) + n = (last + n) - first
  OBVIOUS
<1>1. /\ m \in Seq(Byte) /\ Len(m) = n /\ last - first \in Nat
      /\ first + (last - first) = last /\ (last - first) + n = (last + n) - first
  BY <1>0, NumberedType DEF Byte
<1>2. SubSeq(m, 1, n) = m
  BY <1>1, SubSeqFull
<1>3. ab \in Seq(Byte) /\ c \o m \in Seq(Byte) /\ Len(c \o m) = Len(c) + n
  BY <1>1, ConcatProperties
<1>4. Numbered(first, last - first) \o Numbered(first + (last - first), n)
        = Numbered(first, (last - first) + n)
  BY <1>1, NumberedContinue
<1>5. ab \o (c \o m) = (ab \o c) \o m
  <2>1. ab \in Seq(Byte) /\ c \in Seq(Byte) /\ m \in Seq(Byte)
    BY <1>1, <1>3
  <2> HIDE DEF ab, m
  <2> QED BY <2>1, Regroup, ZenonT(60)
<1>6. ab \o (c \o m) = Numbered(first, (last + n) - first)
  <2>1. ab \o c = Numbered(first, last - first) /\ m = Numbered(first + (last - first), n)
    BY <1>1
  <2> HIDE DEF ab, m
  <2> QED BY <1>1, <1>4, <1>5, <2>1
<1>7. last + n \in Nat /\ first <= last + n
  OBVIOUS
<1> HIDE DEF m
<1>8. c \o m \in Seq(Byte) /\ a \o b \o (c \o m) = Numbered(first, (last + n) - first)
  BY <1>3, <1>6, Zenon
<1>9. Chain(a, b, c \o m, first, last + n)
  BY <1>7, <1>8, Zenon DEF Chain
<1>10. Len(c \o m) = Len(c) + n
  BY <1>3
<1> HIDE DEF Chain
<1> QED BY <1>2, <1>9, <1>10 DEF m

\* The first of them is taken out of it.
LEMMA ChainShrinks ==
  ASSUME NEW a, NEW b, NEW c, NEW first, NEW last, Chain(a, b, c, first, last), a # <<>>
  PROVE  Len(Tail(a)) = Len(a) - 1 /\ Chain(Tail(a), b, c, first + 1, last)
<1> USE DEF Chain
<1> DEFINE ab == a \o b
<1>1. /\ Tail(a) \in Seq(Byte) /\ Len(Tail(a)) = Len(a) - 1 /\ Len(a) > 0
      /\ Len(a) \in Nat /\ Len(b) \in Nat /\ Len(c) \in Nat
  BY HeadTailProperties, EmptySeq
<1>2. ab \in Seq(Byte) /\ Len(ab) = Len(a) + Len(b)
  BY ConcatProperties
<1>3. Tail(a) \o b = Tail(ab)
  BY TailOfChain
<1> HIDE DEF ab
<1>4. ab # <<>>
  BY <1>1, <1>2
<1>5. Tail(ab) \o c = Tail(ab \o c) /\ Len(ab \o c) = Len(ab) + Len(c)
  BY <1>2, <1>4, TailOfChain, ConcatProperties
<1>6. ab \o c = Numbered(first, last - first)
  BY DEF ab
<1>7. Len(Numbered(first, last - first)) = last - first /\ last - first \in Nat
  <2>1. last - first \in Nat
    OBVIOUS
  <2> QED BY <2>1, NumberedType
<1>8. last - first > 0
  BY <1>1, <1>2, <1>5, <1>6, <1>7
<1>9. Tail(ab \o c) = Numbered(first + 1, (last - first) - 1)
  BY <1>6, <1>7, <1>8, NumberedTail
<1>10. (last - first) - 1 = last - (first + 1) /\ first + 1 <= last
  BY <1>8
<1>11. Tail(a) \o b \o c = Numbered(first + 1, last - (first + 1))
  BY <1>3, <1>5, <1>9, <1>10, Zenon
<1>12. first + 1 \in Nat
  OBVIOUS
<1> QED BY <1>1, <1>10, <1>11, <1>12, Zenon

LEMMA AnswerStays ==
  ASSUME AnswerHolds, UNCHANGED <<status, copy, loop>>,
         source.data # <<>> \/ source.shut => source'.data # <<>> \/ source'.shut,
         source.shut => source'.shut /\ source'.data = source.data,
         fromPeer.data # <<>> \/ fromPeer.shut => fromPeer'.data # <<>> \/ fromPeer'.shut,
         RoomIn(toPeer) > 0 => RoomIn(toPeer') > 0, toPeer.shut => toPeer'.shut,
         RoomIn(sink) > 0 => RoomIn(sink') > 0, sink.shut => sink'.shut
  PROVE  AnswerHolds'
<1> SUFFICES ASSUME status = "copying", loop.poll # NotPolled, NEW rule \in loop.rules
             PROVE  StillTrue(rule, loop.poll.events, loop.poll.revents[rule])'
  BY DEF AnswerHolds, NotPolled
<1>1. StillTrue(rule, loop.poll.events, loop.poll.revents[rule])
  BY DEF AnswerHolds
<1> QED BY <1>1 DEF StillTrue

\* What the others may do to the ends of the copy.
OthersStep ==
  /\ UNCHANGED <<status, copy, loop>>
  /\ Gone => Gone'
  /\ source.data # <<>> \/ source.shut => source'.data # <<>> \/ source'.shut
  /\ source.shut => source'.shut /\ source'.data = source.data
  /\ fromPeer.data # <<>> \/ fromPeer.shut => fromPeer'.data # <<>> \/ fromPeer'.shut
  /\ fromPeer.shut => fromPeer'.shut /\ fromPeer'.data = fromPeer.data
  /\ RoomIn(toPeer) > 0 => RoomIn(toPeer') > 0
  /\ toPeer.shut => toPeer'.shut
  /\ Gone' \/ (toPeer'.shut <=> toPeer.shut)
  /\ RoomIn(sink) > 0 => RoomIn(sink') > 0
  /\ sink.shut => sink'.shut

LEMMA OthersKeep ==
  ASSUME IInv, OthersStep, TypeOK', InOrder', CopyKeepsAll'
  PROVE  IInv'
<1>1. AnswerHolds'
  BY AnswerStays DEF IInv, OthersStep
<1>2. Noted(copy)' /\ Told' /\ FailsOnlyOfOthers'
  <2>1. copy' = copy /\ status' = status
    BY DEF OthersStep
  <2>2. Noted(copy)'
    BY <2>1 DEF IInv, Noted
  <2>3. Told'
    BY <2>1 DEF IInv, OthersStep, Told, Gone
  <2>4. FailsOnlyOfOthers'
    BY <2>1 DEF IInv, OthersStep, FailsOnlyOfOthers, Gone
  <2> QED BY <2>2, <2>3, <2>4
<1>3. ASSUME ~Gone' PROVE Ended(copy, loop.rules)'
  <2>1. Ended(copy, loop.rules)
    BY <1>3 DEF IInv, OthersStep
  <2> QED BY <1>3, <2>1 DEF OthersStep, Ended
<1> QED BY <1>1, <1>2, <1>3 DEF IInv, OthersStep
LEMMA Parts ==
  ASSUME IInv
  PROVE  /\ source.data \in Seq(Byte) /\ sink.data \in Seq(Byte)
         /\ toPeer.data \in Seq(Byte) /\ fromPeer.data \in Seq(Byte)
         /\ copy.outbound.buffer \in Seq(Byte) /\ copy.inbound.buffer \in Seq(Byte)
         /\ world.typed \in Nat /\ world.received \in Nat /\ world.received <= world.typed
         /\ world.sent \in Nat /\ world.shown \in Nat /\ world.shown <= world.sent
         /\ source \in Channel /\ sink \in Channel /\ toPeer \in Channel /\ fromPeer \in Channel
BY DEF IInv, TypeOK, InOrder, Channel, Copy, Stream

LEMMA Chains ==
  ASSUME IInv
  PROVE  /\ Chain(toPeer.data, copy.outbound.buffer, source.data, world.received, world.typed)
         /\ Chain(sink.data, copy.inbound.buffer, fromPeer.data, world.shown, world.sent)
BY Parts DEF IInv, CopyKeepsAll, Chain

LEMMA SourceWritesKeeps == IInv /\ SourceWrites => IInv'
<1> SUFFICES ASSUME IInv, SourceWrites PROVE IInv'
  OBVIOUS
<1>1. PICK n \in 1 .. Least(RoomIn(source), SourceBytes - world.typed) :
        /\ source' = WriteTo(source, Numbered(world.typed, n), n)
        /\ world' = [world EXCEPT !.typed = @ + n]
  BY DEF SourceWrites
<1> DEFINE new == source.data \o SubSeq(Numbered(world.typed, n), 1, n)
<1>2. n \in Nat /\ n > 0
  BY DEF SourceWrites
<1>3. /\ Len(new) = Len(source.data) + n /\ new \in Seq(Byte)
      /\ world.received <= world.typed + n
      /\ toPeer.data \o copy.outbound.buffer \o new = Numbered(world.received, (world.typed + n) - world.received)
  <2>1. Len(new) = Len(source.data) + n /\ Chain(toPeer.data, copy.outbound.buffer, new, world.received, world.typed + n)
    BY <1>2, Chains, ChainGrows
  <2> HIDE DEF new
  <2> QED BY <2>1 DEF Chain
<1>4. source' = [source EXCEPT !.data = new]
  BY <1>1 DEF WriteTo
<1> HIDE DEF new
<1>5. /\ source' \in Channel /\ source'.data = new /\ source'.shut = source.shut /\ new # <<>>
      /\ ~source.shut
  <2>1. Len(source.data) \in Nat
    BY Parts
  <2>2. new # <<>>
    BY <1>2, <1>3, <2>1
  <2>3. ~source.shut
    BY DEF SourceWrites
  <2> QED BY <1>3, <1>4, <2>2, <2>3, Parts DEF Channel
<1>6. /\ world'.typed = world.typed + n /\ world'.received = world.received
      /\ world'.shown = world.shown /\ world'.sent = world.sent /\ world'.over = world.over
      /\ world' \in [input : {"pipe", "file"}, typed : Nat, shown : Nat, sent : Nat, received : Nat,
                     over : BOOLEAN]
  BY <1>1, <1>2 DEF IInv, TypeOK
<1>7. UNCHANGED <<status, copy, loop, sink, toPeer, fromPeer>>
  BY DEF SourceWrites
<1>8. TypeOK' /\ InOrder' /\ CopyKeepsAll'
  <2>1. TypeOK'
    BY <1>5, <1>6, <1>7 DEF IInv, TypeOK
  <2>2. InOrder'
    BY <1>2, <1>6, Parts DEF InOrder
  <2>3. CopyKeepsAll'
    BY <1>3, <1>5, <1>6, <1>7 DEF IInv, CopyKeepsAll
  <2> QED BY <2>1, <2>2, <2>3
<1>9. OthersStep
  BY <1>5, <1>6, <1>7 DEF OthersStep, Gone
<1> QED BY <1>8, <1>9, OthersKeep

LEMMA SourceEndsKeeps == IInv /\ SourceEnds => IInv'
<1> SUFFICES ASSUME IInv, SourceEnds PROVE IInv'
  OBVIOUS
<1>1. source' \in Channel /\ source'.data = source.data /\ source'.shut /\ ~source.shut
  BY Parts DEF SourceEnds, Shut, Channel
<1>2. UNCHANGED <<status, copy, loop, sink, toPeer, fromPeer, world>>
  BY DEF SourceEnds
<1>3. TypeOK' /\ InOrder' /\ CopyKeepsAll'
  BY <1>1, <1>2 DEF IInv, TypeOK, InOrder, CopyKeepsAll
<1>4. OthersStep
  BY <1>1, <1>2 DEF OthersStep, Gone
<1> QED BY <1>3, <1>4, OthersKeep

LEMMA SinkReadsKeeps == IInv /\ SinkReads => IInv'
<1> SUFFICES ASSUME IInv, SinkReads PROVE IInv'
  OBVIOUS
<1> DEFINE new == Tail(sink.data)
<1>1. /\ Len(new) = Len(sink.data) - 1 /\ new \in Seq(Byte)
      /\ world.shown + 1 <= world.sent
      /\ new \o copy.inbound.buffer \o fromPeer.data = Numbered(world.shown + 1, world.sent - (world.shown + 1))
  <2>1. Len(new) = Len(sink.data) - 1 /\ Chain(new, copy.inbound.buffer, fromPeer.data, world.shown + 1, world.sent)
    BY Chains, ChainShrinks DEF SinkReads
  <2> HIDE DEF new
  <2> QED BY <2>1 DEF Chain
<1>2. sink' = [sink EXCEPT !.data = new] /\ world' = [world EXCEPT !.shown = @ + 1]
  BY DEF SinkReads
<1> HIDE DEF new
<1>3. sink' \in Channel /\ sink'.data = new /\ sink'.shut = sink.shut
  BY <1>1, <1>2, Parts DEF Channel
<1>4. /\ world'.shown = world.shown + 1 /\ world'.received = world.received
      /\ world'.typed = world.typed /\ world'.sent = world.sent /\ world'.over = world.over
      /\ world' \in [input : {"pipe", "file"}, typed : Nat, shown : Nat, sent : Nat, received : Nat,
                     over : BOOLEAN]
  BY <1>2 DEF IInv, TypeOK
<1>5. UNCHANGED <<status, copy, loop, source, toPeer, fromPeer>>
  BY DEF SinkReads
<1>6. TypeOK' /\ InOrder' /\ CopyKeepsAll'
  <2>1. TypeOK'
    BY <1>3, <1>4, <1>5 DEF IInv, TypeOK
  <2>2. InOrder'
    BY <1>1, <1>4, Parts DEF InOrder
  <2>3. CopyKeepsAll'
    BY <1>1, <1>3, <1>4, <1>5 DEF IInv, CopyKeepsAll
  <2> QED BY <2>1, <2>2, <2>3
<1>7. RoomIn(sink) > 0 => RoomIn(sink') > 0
  BY <1>1, <1>3, Parts, DescriptorAssumption DEF RoomIn
<1>8. OthersStep
  BY <1>3, <1>4, <1>5, <1>7 DEF OthersStep, Gone
<1> QED BY <1>6, <1>8, OthersKeep

LEMMA SinkLeavesKeeps == IInv /\ SinkLeaves => IInv'
<1> SUFFICES ASSUME IInv, SinkLeaves PROVE IInv'
  OBVIOUS
<1>1. sink' \in Channel /\ sink'.data = sink.data /\ sink'.shut
  BY Parts DEF SinkLeaves, Shut, Channel
<1>2. UNCHANGED <<status, copy, loop, source, toPeer, fromPeer, world>>
  BY DEF SinkLeaves
<1>3. TypeOK' /\ InOrder' /\ CopyKeepsAll'
  BY <1>1, <1>2 DEF IInv, TypeOK, InOrder, CopyKeepsAll
<1>4. OthersStep
  BY <1>1, <1>2 DEF OthersStep, Gone, RoomIn
<1> QED BY <1>3, <1>4, OthersKeep

LEMMA PeerWritesKeeps == IInv /\ PeerWrites => IInv'
<1> SUFFICES ASSUME IInv, PeerWrites PROVE IInv'
  OBVIOUS
<1>1. PICK n \in 1 .. Least(RoomIn(fromPeer), PeerBytes - world.sent) :
        /\ fromPeer' = WriteTo(fromPeer, Numbered(world.sent, n), n)
        /\ world' = [world EXCEPT !.sent = @ + n]
  BY DEF PeerWrites
<1> DEFINE new == fromPeer.data \o SubSeq(Numbered(world.sent, n), 1, n)
<1>2. n \in Nat /\ n > 0
  BY DEF PeerWrites
<1>3. /\ Len(new) = Len(fromPeer.data) + n /\ new \in Seq(Byte)
      /\ world.shown <= world.sent + n
      /\ sink.data \o copy.inbound.buffer \o new = Numbered(world.shown, (world.sent + n) - world.shown)
  <2>1. Len(new) = Len(fromPeer.data) + n /\ Chain(sink.data, copy.inbound.buffer, new, world.shown, world.sent + n)
    BY <1>2, Chains, ChainGrows
  <2> HIDE DEF new
  <2> QED BY <2>1 DEF Chain
<1>4. fromPeer' = [fromPeer EXCEPT !.data = new]
  BY <1>1 DEF WriteTo
<1> HIDE DEF new
<1>5. /\ fromPeer' \in Channel /\ fromPeer'.data = new /\ fromPeer'.shut = fromPeer.shut /\ new # <<>>
      /\ ~fromPeer.shut
  <2>1. Len(fromPeer.data) \in Nat
    BY Parts
  <2>2. new # <<>>
    BY <1>2, <1>3, <2>1
  <2>3. ~fromPeer.shut
    BY DEF PeerWrites, WriteFails
  <2> QED BY <1>3, <1>4, <2>2, <2>3, Parts DEF Channel
<1>6. /\ world'.typed = world.typed /\ world'.received = world.received
      /\ world'.shown = world.shown /\ world'.sent = world.sent + n /\ world'.over = world.over
      /\ world' \in [input : {"pipe", "file"}, typed : Nat, shown : Nat, sent : Nat, received : Nat,
                     over : BOOLEAN]
  BY <1>1, <1>2 DEF IInv, TypeOK
<1>7. UNCHANGED <<status, copy, loop, source, sink, toPeer>>
  BY DEF PeerWrites
<1>8. TypeOK' /\ InOrder' /\ CopyKeepsAll'
  <2>1. TypeOK'
    BY <1>5, <1>6, <1>7 DEF IInv, TypeOK
  <2>2. InOrder'
    BY <1>2, <1>6, Parts DEF InOrder
  <2>3. CopyKeepsAll'
    BY <1>3, <1>5, <1>6, <1>7 DEF IInv, CopyKeepsAll
  <2> QED BY <2>1, <2>2, <2>3
<1>9. OthersStep
  BY <1>5, <1>6, <1>7 DEF OthersStep, Gone
<1> QED BY <1>8, <1>9, OthersKeep

LEMMA PeerEndsKeeps == IInv /\ PeerEnds => IInv'
<1> SUFFICES ASSUME IInv, PeerEnds PROVE IInv'
  OBVIOUS
<1>1. fromPeer' \in Channel /\ fromPeer'.data = fromPeer.data /\ fromPeer'.shut /\ ~fromPeer.shut
  BY Parts DEF PeerEnds, Shut, Channel
<1>2. UNCHANGED <<status, copy, loop, source, sink, toPeer, world>>
  BY DEF PeerEnds
<1>3. TypeOK' /\ InOrder' /\ CopyKeepsAll'
  BY <1>1, <1>2 DEF IInv, TypeOK, InOrder, CopyKeepsAll
<1>4. OthersStep
  BY <1>1, <1>2 DEF OthersStep, Gone
<1> QED BY <1>3, <1>4, OthersKeep

LEMMA PeerReadsKeeps == IInv /\ PeerReads => IInv'
<1> SUFFICES ASSUME IInv, PeerReads PROVE IInv'
  OBVIOUS
<1> DEFINE new == Tail(toPeer.data)
<1>1. /\ Len(new) = Len(toPeer.data) - 1 /\ new \in Seq(Byte)
      /\ world.received + 1 <= world.typed
      /\ new \o copy.outbound.buffer \o source.data = Numbered(world.received + 1, world.typed - (world.received + 1))
  <2>1. Len(new) = Len(toPeer.data) - 1 /\ Chain(new, copy.outbound.buffer, source.data, world.received + 1, world.typed)
    BY Chains, ChainShrinks DEF PeerReads
  <2> HIDE DEF new
  <2> QED BY <2>1 DEF Chain
<1>2. toPeer' = [toPeer EXCEPT !.data = new] /\ world' = [world EXCEPT !.received = @ + 1]
  BY DEF PeerReads
<1> HIDE DEF new
<1>3. toPeer' \in Channel /\ toPeer'.data = new /\ toPeer'.shut = toPeer.shut
  BY <1>1, <1>2, Parts DEF Channel
<1>4. /\ world'.received = world.received + 1 /\ world'.shown = world.shown
      /\ world'.typed = world.typed /\ world'.sent = world.sent /\ world'.over = world.over
      /\ world' \in [input : {"pipe", "file"}, typed : Nat, shown : Nat, sent : Nat, received : Nat,
                     over : BOOLEAN]
  BY <1>2 DEF IInv, TypeOK
<1>5. UNCHANGED <<status, copy, loop, source, sink, fromPeer>>
  BY DEF PeerReads
<1>6. TypeOK' /\ InOrder' /\ CopyKeepsAll'
  <2>1. TypeOK'
    BY <1>3, <1>4, <1>5 DEF IInv, TypeOK
  <2>2. InOrder'
    BY <1>1, <1>4, Parts DEF InOrder
  <2>3. CopyKeepsAll'
    BY <1>1, <1>3, <1>4, <1>5 DEF IInv, CopyKeepsAll
  <2> QED BY <2>1, <2>2, <2>3
<1>7. RoomIn(toPeer) > 0 => RoomIn(toPeer') > 0
  BY <1>1, <1>3, Parts, DescriptorAssumption DEF RoomIn
<1>8. OthersStep
  BY <1>3, <1>4, <1>5, <1>7 DEF OthersStep, Gone
<1> QED BY <1>6, <1>8, OthersKeep

LEMMA ConnectionEndsKeeps == IInv /\ ConnectionEnds => IInv'
<1> SUFFICES ASSUME IInv, ConnectionEnds PROVE IInv'
  OBVIOUS
<1>1. /\ fromPeer' \in Channel /\ fromPeer'.data = fromPeer.data /\ fromPeer'.shut
      /\ toPeer' \in Channel /\ toPeer'.data = toPeer.data /\ toPeer'.shut
  BY Parts DEF ConnectionEnds, Shut, Channel
<1>2. /\ world'.received = world.received /\ world'.shown = world.shown
      /\ world'.typed = world.typed /\ world'.sent = world.sent /\ world'.over
      /\ world' \in [input : {"pipe", "file"}, typed : Nat, shown : Nat, sent : Nat, received : Nat,
                     over : BOOLEAN]
  BY DEF ConnectionEnds, IInv, TypeOK
<1>3. UNCHANGED <<status, copy, loop, source, sink>>
  BY DEF ConnectionEnds
<1>4. TypeOK' /\ InOrder' /\ CopyKeepsAll'
  BY <1>1, <1>2, <1>3 DEF IInv, TypeOK, InOrder, CopyKeepsAll
<1>5. OthersStep
  BY <1>1, <1>2, <1>3 DEF OthersStep, Gone, RoomIn
<1> QED BY <1>4, <1>5, OthersKeep
-----------------------------------------------------------------------------
(* The steps of the copy.                                                    *)

\* Bytes move from the channel that is read to the stream, or from the stream
\* to the channel that is written.
LEMMA ChainRead ==
  ASSUME NEW a, NEW b, NEW c, NEW first, NEW last, Chain(a, b, c, first, last),
         NEW b1 \in Seq(Byte), NEW c1 \in Seq(Byte), b1 \o c1 = b \o c
  PROVE  Chain(a, b1, c1, first, last)
<1>1. a \in Seq(Byte) /\ b \in Seq(Byte) /\ c \in Seq(Byte)
  BY DEF Chain
<1>2. a \o (b1 \o c1) = (a \o b1) \o c1 /\ a \o (b \o c) = (a \o b) \o c
  BY <1>1, Regroup, ZenonT(60)
<1>3. (a \o b1) \o c1 = (a \o b) \o c
  BY <1>2, Zenon
<1> QED BY <1>3, Zenon DEF Chain

LEMMA ChainWritten ==
  ASSUME NEW a, NEW b, NEW c, NEW first, NEW last, Chain(a, b, c, first, last),
         NEW a1 \in Seq(Byte), NEW b1 \in Seq(Byte), a1 \o b1 = a \o b
  PROVE  Chain(a1, b1, c, first, last)
BY Zenon DEF Chain

\* The invariant once the loop waits to poll again, or the copy is over.
LEMMA LoopKeeps ==
  ASSUME TypeOK', Noted(copy)', Told', (~Gone => Ended(copy, loop.rules))', FailsOnlyOfOthers',
         status' # "copying" \/ loop'.poll = NotPolled, status' # "thrown",
         Chain(toPeer.data, copy.outbound.buffer, source.data, world.received, world.typed)',
         Chain(sink.data, copy.inbound.buffer, fromPeer.data, world.shown, world.sent)'
  PROVE  IInv'
<1>1. InOrder' /\ CopyKeepsAll'
  BY Zenon DEF Chain, InOrder, CopyKeepsAll
<1>2. AnswerHolds'
  BY DEF AnswerHolds, NotPolled
<1> QED BY <1>1, <1>2 DEF IInv

LEMMA ServedFacts ==
  ASSUME IInv, NEW rule \in Rule, Serves(rule)
  PROVE  LET c == Pass.state
         IN  /\ c \in Copy /\ Noted(c) /\ SameButClosed(c, copy) /\ Pass.rules \subseteq Rule
             /\ ~Gone => Ended(c, Pass.rules)
             /\ rule \in Pass.rules /\ RuleInterest(copy, rule)
             /\ rule = FromInput => source.data # <<>> \/ source.shut
             /\ rule = FromSocket => fromPeer.data # <<>> \/ fromPeer.shut
             /\ rule = ToSocket => RoomIn(toPeer) > 0
             /\ rule = ToOutput => RoomIn(sink) > 0
             /\ status = "copying" /\ loop'.rules = Pass.rules /\ loop'.poll = NotPolled
             /\ world' = world
<1>1. /\ status = "copying" /\ loop.poll # NotPolled /\ Pass.served = rule
      /\ loop' = [rules |-> Pass.rules, poll |-> NotPolled] /\ world' = world
  BY DEF Serves
<1>2. Passing(Pass)
  BY <1>1, PassKeeps
<1> DEFINE p == Pass
<1> HIDE DEF p
<1>3. Passing(p) /\ p.served = rule
  BY <1>1, <1>2 DEF p
<1>4. rule # Loop!None
  BY DEF Rule, FromInput, ToSocket, FromSocket, ToOutput, Loop!None
<1>5. /\ p.state \in Copy /\ Noted(p.state) /\ SameButClosed(p.state, copy)
      /\ p.rules \subseteq loop.rules /\ (~Gone => Ended(p.state, p.rules))
      /\ rule \in p.rules /\ Loop!Ready(loop.poll.revents[rule])
  BY <1>3, <1>4 DEF Passing
<1>6. StillTrue(rule, loop.poll.events, loop.poll.revents[rule])
  BY <1>1, <1>5 DEF IInv, AnswerHolds
<1>7. /\ RuleInterest(copy, rule)
      /\ rule = FromInput => source.data # <<>> \/ source.shut
      /\ rule = FromSocket => fromPeer.data # <<>> \/ fromPeer.shut
      /\ rule = ToSocket => RoomIn(toPeer) > 0
      /\ rule = ToOutput => RoomIn(sink) > 0
  BY <1>5, <1>6 DEF StillTrue, Loop!Ready, FromInput, ToSocket, FromSocket, ToOutput
<1>8. p.rules \subseteq Rule
  BY <1>5 DEF IInv, TypeOK
<1>9. loop'.rules = p.rules /\ loop'.poll = NotPolled
  BY <1>1 DEF p
<1> QED BY <1>1, <1>5, <1>7, <1>8, <1>9 DEF p

LEMMA ServeNoneKeeps == IInv /\ ServeNone => IInv'
<1> SUFFICES ASSUME IInv, ServeNone PROVE IInv'
  OBVIOUS
<1>1. /\ status = "copying" /\ loop.poll # NotPolled
      /\ loop' = [rules |-> Pass.rules, poll |-> NotPolled] /\ copy' = Pass.state
      /\ UNCHANGED <<status, source, sink, toPeer, fromPeer, world>>
  BY DEF ServeNone, Serves
<1> DEFINE p == Pass
<1>2. Passing(p)
  BY <1>1, PassKeeps
<1>3. copy' = p.state /\ loop'.rules = p.rules /\ loop'.poll = NotPolled
  BY <1>1
<1> HIDE DEF p
<1>4. /\ p.state \in Copy /\ Noted(p.state) /\ SameButClosed(p.state, copy)
      /\ p.rules \subseteq loop.rules /\ (~Gone => Ended(p.state, p.rules))
  BY <1>2 DEF Passing
<1>5. TypeOK'
  BY <1>1, <1>3, <1>4 DEF IInv, TypeOK
<1>6. Noted(copy)' /\ Told' /\ FailsOnlyOfOthers'
  <2>1. Noted(copy)'
    BY <1>3, <1>4 DEF Noted
  <2>2. Told'
    BY <1>1, <1>3, <1>4 DEF IInv, Told, SameButClosed
  <2>3. FailsOnlyOfOthers'
    BY <1>1 DEF FailsOnlyOfOthers
  <2> QED BY <2>1, <2>2, <2>3
<1>7. (~Gone => Ended(copy, loop.rules))'
  BY <1>1, <1>3, <1>4 DEF Gone, Ended
<1>8. /\ Chain(toPeer.data, copy.outbound.buffer, source.data, world.received, world.typed)'
      /\ Chain(sink.data, copy.inbound.buffer, fromPeer.data, world.shown, world.sent)'
  BY <1>1, <1>3, <1>4, Chains DEF SameButClosed
<1> QED BY <1>1, <1>3, <1>5, <1>6, <1>7, <1>8, LoopKeeps
LEMMA Interests ==
  ASSUME NEW c
  PROVE  /\ RuleInterest(c, FromInput) <=> Wanted(c, c.outbound)
         /\ RuleInterest(c, ToSocket) <=> Outstanding(c.outbound, c.outbound_shutdown)
         /\ RuleInterest(c, FromSocket) <=> Wanted(c, c.inbound)
         /\ RuleInterest(c, ToOutput) <=> Outstanding(c.inbound, c.inbound_shutdown)
<1> USE DEF FromInput, ToSocket, FromSocket, ToOutput, Wanted, Outstanding
<1>1. RuleInterest(c, FromInput) <=> Wanted(c, c.outbound)
  BY DEF RuleInterest
<1>2. RuleInterest(c, ToSocket) <=> Outstanding(c.outbound, c.outbound_shutdown)
  BY DEF RuleInterest
<1>3. RuleInterest(c, FromSocket) <=> Wanted(c, c.inbound)
  BY DEF RuleInterest
<1>4. RuleInterest(c, ToOutput) <=> Outstanding(c.inbound, c.inbound_shutdown)
  BY DEF RuleInterest
<1> QED BY <1>1, <1>2, <1>3, <1>4

LEMMA SetUpKeeps ==
  ASSUME IInv
  PROVE  LET setup == Loop!SetUp(copy, loop.rules)
         IN  /\ setup.state = copy /\ setup.rules \subseteq loop.rules
             /\ setup.events = {r \in setup.rules : RuleInterest(copy, r)}
             /\ ~Gone => Ended(copy, setup.rules)
<1> DEFINE setup == Loop!SetUp(copy, loop.rules)
<1>1. copy \in Copy /\ Noted(copy) /\ loop.rules \in SUBSET Rule /\ (~Gone => Ended(copy, loop.rules))
  BY DEF IInv, TypeOK
<1>2. /\ setup.state = copy
      /\ setup.rules = {r \in loop.rules : ~Loop!Done(copy, r)}
      /\ setup.events = {r \in setup.rules : RuleInterest(copy, r)}
  BY <1>1, SetUpFacts
<1> HIDE DEF setup
<1>3. ASSUME ~Gone PROVE Ended(copy, setup.rules)
  <2>1. /\ Loop!Done(copy, FromInput) => copy.outbound.closed
        /\ ~Loop!Done(copy, ToSocket)
        /\ Loop!Done(copy, FromSocket) => copy.inbound.closed
        /\ Loop!Done(copy, ToOutput) => copy.output_closed
    BY <1>1 DEF Noted, Loop!Done, RuleDirection, RuleAtEof, RuleIsClosed,
                FromInput, ToSocket, FromSocket, ToOutput
  <2> QED BY <1>1, <1>2, <1>3, <2>1 DEF Ended
<1> QED BY <1>2, <1>3 DEF setup

\* What poll() has found holds as long as the others let it.
LEMMA AnswerGiven ==
  ASSUME NEW rule \in Rule, NEW events, rule \in events => RuleInterest(copy, rule)
  PROVE  StillTrue(rule, events, Loop!Reported(rule, events, Conditions(rule)))
<1> DEFINE revents == Loop!Reported(rule, events, Conditions(rule))
<1>1. /\ "IN" \in revents <=> "IN" \in Conditions(rule) /\ rule \in events /\ RuleDirection(rule) = "In"
      /\ "OUT" \in revents <=> "OUT" \in Conditions(rule) /\ rule \in events /\ RuleDirection(rule) # "In"
      /\ "HUP" \in revents <=> "HUP" \in Conditions(rule)
      /\ "ERR" \in revents <=> "ERR" \in Conditions(rule)
  BY DEF Loop!Reported
<1> HIDE DEF revents
<1> USE DEF FromInput, ToSocket, FromSocket, ToOutput
<1>2. CASE rule = FromInput
  <2>1. /\ "IN" \in Conditions(rule) => source.data # <<>> \/ source.shut
        /\ "OUT" \notin Conditions(rule) /\ "ERR" \notin Conditions(rule)
        /\ "HUP" \in Conditions(rule) => source.shut /\ ("IN" \in Conditions(rule) \/ source.data = <<>>)
    BY <1>2 DEF Conditions, PolledPipe, PolledFile, When
  <2>2. RuleDirection(rule) = "In"
    BY <1>2 DEF RuleDirection
  <2>3. StillTrue(rule, events, revents)
    BY <1>1, <1>2, <2>1, <2>2 DEF StillTrue
  <2> QED BY <2>3 DEF revents
<1>3. CASE rule = FromSocket
  <2>1. /\ "IN" \in Conditions(rule) <=> fromPeer.data # <<>> \/ fromPeer.shut
        /\ "ERR" \notin Conditions(rule)
        /\ "HUP" \in Conditions(rule) => fromPeer.shut
    BY <1>3 DEF Conditions, PolledSocket, When
  <2>2. RuleDirection(rule) = "In"
    BY <1>3 DEF RuleDirection
  <2>3. StillTrue(rule, events, revents)
    BY <1>1, <1>3, <2>1, <2>2 DEF StillTrue
  <2> QED BY <2>3 DEF revents
<1>4. CASE rule = ToSocket
  <2>1. /\ "OUT" \in Conditions(rule) => RoomIn(toPeer) > 0
        /\ "ERR" \notin Conditions(rule)
        /\ "HUP" \in Conditions(rule) => toPeer.shut
    BY <1>4 DEF Conditions, PolledSocket, When
  <2>2. RuleDirection(rule) # "In"
    BY <1>4 DEF RuleDirection
  <2>3. StillTrue(rule, events, revents)
    BY <1>1, <1>4, <2>1, <2>2 DEF StillTrue
  <2> QED BY <2>3 DEF revents
<1>5. CASE rule = ToOutput
  <2>1. /\ "OUT" \in Conditions(rule) => RoomIn(sink) > 0
        /\ "HUP" \notin Conditions(rule)
        /\ "ERR" \in Conditions(rule) => sink.shut
    BY <1>5 DEF Conditions, PolledSink, When
  <2>2. RuleDirection(rule) # "In"
    BY <1>5 DEF RuleDirection
  <2>3. StillTrue(rule, events, revents)
    BY <1>1, <1>5, <2>1, <2>2 DEF StillTrue
  <2> QED BY <2>3 DEF revents
<1> QED BY <1>2, <1>3, <1>4, <1>5 DEF Rule

LEMMA PollKeeps == IInv /\ Poll => IInv'
<1> SUFFICES ASSUME IInv, Poll PROVE IInv'
  OBVIOUS
<1> DEFINE setup  == Loop!SetUp(copy, loop.rules)
           answer == [r \in setup.rules |-> Loop!Reported(r, setup.events, Conditions(r))]
<1>1. /\ copy' = setup.state
      /\ loop' = [rules |-> setup.rules, poll |-> [events |-> setup.events, revents |-> answer]]
      /\ UNCHANGED <<status, source, sink, toPeer, fromPeer, world>> /\ status = "copying"
  BY DEF Poll
<1>2. /\ setup.state = copy /\ setup.rules \subseteq loop.rules
      /\ setup.events = {r \in setup.rules : RuleInterest(copy, r)}
      /\ ~Gone => Ended(copy, setup.rules)
  BY SetUpKeeps
<1>3. \A r \in setup.rules : answer[r] = Loop!Reported(r, setup.events, Conditions(r))
  OBVIOUS
<1>4. /\ loop'.rules = setup.rules /\ loop'.poll.events = setup.events
      /\ loop'.poll.revents = answer /\ copy' = copy
  BY <1>1, <1>2
<1> HIDE DEF setup, answer
<1>5. TypeOK' /\ InOrder' /\ CopyKeepsAll' /\ Noted(copy)' /\ Told' /\ FailsOnlyOfOthers'
  <2>1. TypeOK'
    BY <1>1, <1>2, <1>4 DEF IInv, TypeOK
  <2>2. InOrder' /\ CopyKeepsAll'
    BY <1>1, <1>4 DEF IInv, InOrder, CopyKeepsAll
  <2>3. Noted(copy)' /\ Told' /\ FailsOnlyOfOthers'
    BY <1>1, <1>4 DEF IInv, Noted, Told, FailsOnlyOfOthers, Gone
  <2> QED BY <2>1, <2>2, <2>3
<1>6. (~Gone => Ended(copy, loop.rules))'
  BY <1>1, <1>2, <1>4 DEF Gone, Ended
<1>7. AnswerHolds'
  <2> SUFFICES ASSUME NEW rule \in loop'.rules
               PROVE  StillTrue(rule, loop.poll.events, loop.poll.revents[rule])'
    BY DEF AnswerHolds
  <2>1. rule \in Rule /\ (rule \in setup.events => RuleInterest(copy, rule))
    BY <1>2, <1>4 DEF IInv, TypeOK
  <2>2. StillTrue(rule, setup.events, answer[rule])
    BY <1>3, <1>4, <2>1, AnswerGiven
  <2> QED BY <1>1, <1>4, <2>2 DEF StillTrue
<1> QED BY <1>1, <1>5, <1>6, <1>7 DEF IInv

LEMMA ExitKeeps == IInv /\ Exit => IInv'
<1> SUFFICES ASSUME IInv, Exit PROVE IInv'
  OBVIOUS
<1> DEFINE setup == Loop!SetUp(copy, loop.rules)
<1>1. /\ setup.events = {} /\ copy' = setup.state /\ status' = "returned"
      /\ loop' = [rules |-> setup.rules, poll |-> NotPolled]
      /\ UNCHANGED <<source, sink, toPeer, fromPeer, world>>
  BY DEF Exit
<1>2. /\ setup.state = copy /\ setup.rules \subseteq loop.rules
      /\ setup.events = {r \in setup.rules : RuleInterest(copy, r)}
      /\ ~Gone => Ended(copy, setup.rules)
  BY SetUpKeeps
<1>3. loop'.rules = setup.rules /\ loop'.poll = NotPolled /\ copy' = copy
  BY <1>1, <1>2
<1> HIDE DEF setup
<1>4. TypeOK'
  BY <1>1, <1>2, <1>3 DEF IInv, TypeOK
<1>5. Noted(copy)' /\ FailsOnlyOfOthers'
  BY <1>1, <1>3 DEF IInv, Noted, FailsOnlyOfOthers
<1>6. (~Gone => Ended(copy, loop.rules))'
  BY <1>1, <1>2, <1>3 DEF Gone, Ended
<1>7. ASSUME ~Gone PROVE copy.outbound_shutdown /\ copy.output_closed
  <2>1. /\ FromInput \in setup.rules => ~Wanted(copy, copy.outbound)
        /\ ToSocket \in setup.rules => ~Outstanding(copy.outbound, copy.outbound_shutdown)
        /\ FromSocket \in setup.rules => ~Wanted(copy, copy.inbound)
        /\ ToOutput \in setup.rules => ~Outstanding(copy.inbound, copy.inbound_shutdown)
    <3>1. \A r \in setup.rules : ~RuleInterest(copy, r)
      BY <1>1, <1>2
    <3> QED BY <3>1, Interests
  <2>2. /\ Ended(copy, setup.rules) /\ Proper(copy.outbound) /\ Proper(copy.inbound) /\ copy \in Copy
        /\ copy.output_closed <=> copy.inbound_shutdown
    BY <1>2, <1>7 DEF IInv, TypeOK, Noted
  <2>3. ASSUME NEW stream, Proper(stream), ~(BytesBuffered(stream) > 0)
        PROVE  AvailableCapacity(stream) > 0 /\ (stream.closed => IsFinished(stream))
    BY <2>3, CopyAssumption DEF Proper, Stream, BytesBuffered, AvailableCapacity, IsFinished
  <2>4. copy.outbound_shutdown
    <3> SUFFICES ASSUME ~copy.outbound_shutdown PROVE FALSE
      OBVIOUS
    <3>1. ~(BytesBuffered(copy.outbound) > 0) /\ ~IsFinished(copy.outbound)
      BY <2>1, <2>2 DEF Ended, Outstanding
    <3>2. AvailableCapacity(copy.outbound) > 0 /\ ~copy.outbound.closed
      BY <2>2, <2>3, <3>1
    <3> QED BY <2>1, <2>2, <3>2 DEF Ended, Wanted
  <2>5. copy.output_closed
    <3> SUFFICES ASSUME ~copy.output_closed PROVE FALSE
      OBVIOUS
    <3>1. ~(BytesBuffered(copy.inbound) > 0) /\ ~IsFinished(copy.inbound)
      BY <2>1, <2>2 DEF Ended, Outstanding
    <3>2. AvailableCapacity(copy.inbound) > 0 /\ ~copy.inbound.closed
      BY <2>2, <2>3, <3>1
    <3> QED BY <2>1, <2>2, <3>2 DEF Ended, Wanted
  <2> QED BY <2>4, <2>5
<1>8. Told'
  BY <1>1, <1>3, <1>7 DEF IInv, Told, Gone
<1>9. /\ Chain(toPeer.data, copy.outbound.buffer, source.data, world.received, world.typed)'
      /\ Chain(sink.data, copy.inbound.buffer, fromPeer.data, world.shown, world.sent)'
  BY <1>1, <1>3, Chains
<1> QED BY <1>1, <1>3, <1>4, <1>5, <1>6, <1>8, <1>9, LoopKeeps

LEMMA KilledKeeps == IInv /\ Killed => IInv'
<1> SUFFICES ASSUME IInv, Killed PROVE IInv'
  OBVIOUS
<1>1. /\ status = "copying" /\ loop.poll # NotPolled /\ status' = "killed"
      /\ UNCHANGED <<copy, loop, source, sink, toPeer, fromPeer, world>>
  BY DEF Killed
<1> DEFINE p == Pass
<1>2. Passing(p)
  BY <1>1, PassKeeps
<1>3. \/ p.served = ToSocket /\ p.state.outbound.buffer # <<>> /\ WriteFails(toPeer)
      \/ p.served = ToOutput /\ p.state.inbound.buffer # <<>> /\ WriteFails(sink)
  BY DEF Killed
<1> HIDE DEF p
<1>4. /\ p.state \in Copy /\ Noted(p.state) /\ p.rules \subseteq loop.rules
      /\ ~Gone => Ended(p.state, p.rules)
      /\ p.served \in p.rules /\ Loop!Ready(loop.poll.revents[p.served])
  BY <1>2, <1>3 DEF Passing, Loop!None, ToSocket, ToOutput
<1>5. StillTrue(p.served, loop.poll.events, loop.poll.revents[p.served])
  BY <1>1, <1>4 DEF IInv, AnswerHolds
<1>6. Gone
  <2>1. CASE p.served = ToSocket /\ p.state.outbound.buffer # <<>> /\ WriteFails(toPeer)
    <3>1. RoomIn(toPeer) > 0
      BY <1>4, <1>5, <2>1 DEF StillTrue, Loop!Ready, FromInput, ToSocket, FromSocket, ToOutput
    <3>2. toPeer.shut
      BY <2>1, <3>1 DEF WriteFails
    <3>3. ~p.state.outbound_shutdown
      <4>1. p.state.outbound.buffer \in Seq(Byte) /\ Proper(p.state.outbound) /\ p.state.outbound \in Stream
        BY <1>4, CopyParts DEF Noted, Stream
      <4>2. BytesBuffered(p.state.outbound) # 0
        BY <2>1, <4>1, EmptySeq DEF Proper
      <4>3. ~IsFinished(p.state.outbound)
        BY <4>1, <4>2 DEF IsFinished, BytesBuffered, Stream
      <4> QED BY <1>4, <4>3 DEF Noted
    <3> QED BY <1>4, <3>2, <3>3 DEF Ended
  <2>2. CASE p.served = ToOutput /\ p.state.inbound.buffer # <<>> /\ WriteFails(sink)
    <3>1. RoomIn(sink) > 0
      BY <1>4, <1>5, <2>2 DEF StillTrue, Loop!Ready, FromInput, ToSocket, FromSocket, ToOutput
    <3> QED BY <2>2, <3>1 DEF WriteFails, Gone
  <2> QED BY <1>3, <2>1, <2>2
<1>7. TypeOK'
  BY <1>1 DEF IInv, TypeOK
<1>8. Noted(copy)' /\ Told' /\ FailsOnlyOfOthers' /\ (~Gone => Ended(copy, loop.rules))'
  BY <1>1, <1>6 DEF IInv, Noted, Told, FailsOnlyOfOthers, Gone
<1>9. /\ Chain(toPeer.data, copy.outbound.buffer, source.data, world.received, world.typed)'
      /\ Chain(sink.data, copy.inbound.buffer, fromPeer.data, world.shown, world.sent)'
  BY <1>1, Chains
<1> QED BY <1>1, <1>7, <1>8, <1>9, LoopKeeps
LEMMA ServeFromInputKeeps == IInv /\ ServeFromInput => IInv'
<1> SUFFICES ASSUME IInv, ServeFromInput PROVE IInv'
  OBVIOUS
<1> DEFINE c    == Pass.state
           read == ReadFrom(source, AvailableCapacity(c.outbound))
           new  == Filled(c.outbound, read)
<1>1. /\ Serves(FromInput) /\ source' = read.channel
      /\ AfterCallback([c EXCEPT !.outbound = Filled(@, read), !.input_eof = read.eof], FromInput, read.registered)
      /\ UNCHANGED <<sink, toPeer, fromPeer>>
  BY DEF ServeFromInput
<1>2. /\ c \in Copy /\ Noted(c) /\ SameButClosed(c, copy) /\ Pass.rules \subseteq Rule
      /\ ~Gone => Ended(c, Pass.rules)
      /\ RuleInterest(copy, FromInput) /\ (source.data # <<>> \/ source.shut)
      /\ status = "copying" /\ loop'.rules = Pass.rules /\ loop'.poll = NotPolled /\ world' = world
  BY <1>1, ServedFacts DEF Rule
<1> HIDE DEF c
<1>3. /\ Proper(c.outbound) /\ AvailableCapacity(c.outbound) > 0 /\ c.outbound \in Stream
      /\ ~c.outbound_shutdown /\ c.inbound \in Stream
  <2>1. AvailableCapacity(copy.outbound) > 0 /\ ~copy.outbound.closed
    BY <1>2, Interests DEF Wanted
  <2>2. /\ Proper(c.outbound) /\ Proper(copy.outbound) /\ c.outbound.buffer = copy.outbound.buffer
        /\ copy.outbound_shutdown => copy.outbound.closed
        /\ c.outbound_shutdown <=> copy.outbound_shutdown
    BY <1>2 DEF IInv, Noted, SameButClosed, IsFinished
  <2>3. AvailableCapacity(c.outbound) = AvailableCapacity(copy.outbound)
    BY <2>2 DEF Proper, Stream, AvailableCapacity, BytesBuffered
  <2> QED BY <1>2, <2>1, <2>2, <2>3, CopyParts
<1>4. source \in Channel
  BY Parts
<1>5. /\ Proper(new) /\ new.error = c.outbound.error
      /\ new.buffer \o read.channel.data = c.outbound.buffer \o source.data
      /\ new.closed <=> c.outbound.closed \/ read.eof
      /\ read.channel \in Channel /\ read.channel.shut = source.shut
      /\ read.eof <=> source.data = <<>> /\ source.shut
      /\ read.eof \in BOOLEAN
      /\ read.eof => read.channel.data = <<>>
      /\ read.registered <=> source.data # <<>> \/ source.shut
  BY <1>3, <1>4, FilledFacts
<1>6. /\ copy' = [c EXCEPT !.outbound = new, !.input_eof = read.eof] /\ status' = "copying"
  <2>1. copy' = [c EXCEPT !.outbound = new, !.input_eof = read.eof]
    BY <1>1, <1>2 DEF AfterCallback, Copy
  <2> HIDE DEF new
  <2>2. ~Loop!BusyWait(copy', FromInput, read.registered)
    BY <1>2, <1>5 DEF Loop!BusyWait
  <2>3. copy' = [c EXCEPT !.outbound = Filled(@, read), !.input_eof = read.eof]
    BY <1>1 DEF AfterCallback
  <2>4. status' = IF Loop!BusyWait(copy', FromInput, read.registered) THEN "thrown" ELSE status
    BY <1>1, <2>3 DEF AfterCallback
  <2> QED BY <1>2, <2>1, <2>2, <2>4
<1> HIDE DEF new, read
<1>7. /\ copy' \in Copy /\ copy'.outbound = new /\ copy'.inbound = c.inbound /\ (copy'.input_eof <=> read.eof)
      /\ copy'.outbound_shutdown = c.outbound_shutdown /\ copy'.inbound_shutdown = c.inbound_shutdown
      /\ copy'.output_closed = c.output_closed
      /\ copy'.socket_eof = c.socket_eof
  <2>1. new \in Stream
    BY <1>5 DEF Proper
  <2> QED BY <1>2, <1>5, <1>6, <2>1 DEF Copy
<1>8. TypeOK'
  BY <1>1, <1>2, <1>5, <1>6, <1>7 DEF IInv, TypeOK
<1>9. Noted(copy)'
  BY <1>2, <1>3, <1>5, <1>7 DEF Noted
<1>10. Told' /\ FailsOnlyOfOthers'
  BY <1>1, <1>2, <1>6, <1>7 DEF IInv, Told, FailsOnlyOfOthers, SameButClosed
<1>11. (~Gone => Ended(copy, loop.rules))'
  <2> SUFFICES ASSUME ~Gone' PROVE Ended(copy, loop.rules)'
    OBVIOUS
  <2>1. Ended(c, Pass.rules)
    BY <1>1, <1>2 DEF Gone
  <2>2. source'.shut = source.shut /\ (source.shut /\ source.data = <<>> => source'.data = <<>>)
    BY <1>1, <1>5
  <2>3. copy'.outbound.closed => source'.shut /\ source'.data = <<>>
    BY <1>5, <1>7, <2>1, <2>2 DEF Ended
  <2> QED BY <1>1, <1>2, <1>5, <1>7, <2>1, <2>3 DEF Ended
<1>12. /\ Chain(toPeer.data, copy.outbound.buffer, source.data, world.received, world.typed)'
       /\ Chain(sink.data, copy.inbound.buffer, fromPeer.data, world.shown, world.sent)'
  <2>1. Chain(toPeer.data, copy.outbound.buffer, source.data, world.received, world.typed) /\ Chain(sink.data, copy.inbound.buffer, fromPeer.data, world.shown, world.sent)
    BY Chains
  <2>2. c.outbound.buffer = copy.outbound.buffer /\ c.inbound.buffer = copy.inbound.buffer
    BY <1>2 DEF SameButClosed
  <2>3. new.buffer \in Seq(Byte) /\ source'.data \in Seq(Byte)
    BY <1>1, <1>5 DEF Proper, Stream, Channel
  <2>4. new.buffer \o source'.data = copy.outbound.buffer \o source.data
    BY <1>1, <1>5, <2>2
  <2>5. Chain(toPeer.data, new.buffer, source'.data, world.received, world.typed)
    BY <2>1, <2>3, <2>4, ChainRead
  <2> QED BY <1>1, <1>2, <1>7, <2>1, <2>2, <2>5
<1> QED BY <1>2, <1>6, <1>8, <1>9, <1>10, <1>11, <1>12, LoopKeeps

LEMMA ServeFromSocketKeeps == IInv /\ ServeFromSocket => IInv'
<1> SUFFICES ASSUME IInv, ServeFromSocket PROVE IInv'
  OBVIOUS
<1> DEFINE c    == Pass.state
           read == ReadFrom(fromPeer, AvailableCapacity(c.inbound))
           new  == Filled(c.inbound, read)
<1>1. /\ Serves(FromSocket) /\ fromPeer' = read.channel
      /\ AfterCallback([c EXCEPT !.inbound = Filled(@, read), !.socket_eof = read.eof], FromSocket, read.registered)
      /\ UNCHANGED <<source, sink, toPeer>>
  BY DEF ServeFromSocket
<1>2. /\ c \in Copy /\ Noted(c) /\ SameButClosed(c, copy) /\ Pass.rules \subseteq Rule
      /\ ~Gone => Ended(c, Pass.rules)
      /\ RuleInterest(copy, FromSocket) /\ (fromPeer.data # <<>> \/ fromPeer.shut)
      /\ status = "copying" /\ loop'.rules = Pass.rules /\ loop'.poll = NotPolled /\ world' = world
  BY <1>1, ServedFacts DEF Rule
<1> HIDE DEF c
<1>3. /\ Proper(c.inbound) /\ AvailableCapacity(c.inbound) > 0 /\ c.inbound \in Stream
      /\ ~c.inbound_shutdown /\ c.outbound \in Stream
  <2>1. AvailableCapacity(copy.inbound) > 0 /\ ~copy.inbound.closed
    BY <1>2, Interests DEF Wanted
  <2>2. /\ Proper(c.inbound) /\ Proper(copy.inbound) /\ c.inbound.buffer = copy.inbound.buffer
        /\ copy.inbound_shutdown => copy.inbound.closed
        /\ c.inbound_shutdown <=> copy.inbound_shutdown
    BY <1>2 DEF IInv, Noted, SameButClosed, IsFinished
  <2>3. AvailableCapacity(c.inbound) = AvailableCapacity(copy.inbound)
    BY <2>2 DEF Proper, Stream, AvailableCapacity, BytesBuffered
  <2> QED BY <1>2, <2>1, <2>2, <2>3, CopyParts
<1>4. fromPeer \in Channel
  BY Parts
<1>5. /\ Proper(new) /\ new.error = c.inbound.error
      /\ new.buffer \o read.channel.data = c.inbound.buffer \o fromPeer.data
      /\ new.closed <=> c.inbound.closed \/ read.eof
      /\ read.channel \in Channel /\ read.channel.shut = fromPeer.shut
      /\ read.eof <=> fromPeer.data = <<>> /\ fromPeer.shut
      /\ read.eof \in BOOLEAN
      /\ read.eof => read.channel.data = <<>>
      /\ read.registered <=> fromPeer.data # <<>> \/ fromPeer.shut
  BY <1>3, <1>4, FilledFacts
<1>6. /\ copy' = [c EXCEPT !.inbound = new, !.socket_eof = read.eof] /\ status' = "copying"
  <2>1. copy' = [c EXCEPT !.inbound = new, !.socket_eof = read.eof]
    BY <1>1, <1>2 DEF AfterCallback, Copy
  <2> HIDE DEF new
  <2>2. ~Loop!BusyWait(copy', FromSocket, read.registered)
    BY <1>2, <1>5 DEF Loop!BusyWait
  <2>3. copy' = [c EXCEPT !.inbound = Filled(@, read), !.socket_eof = read.eof]
    BY <1>1 DEF AfterCallback
  <2>4. status' = IF Loop!BusyWait(copy', FromSocket, read.registered) THEN "thrown" ELSE status
    BY <1>1, <2>3 DEF AfterCallback
  <2> QED BY <1>2, <2>1, <2>2, <2>4
<1> HIDE DEF new, read
<1>7. /\ copy' \in Copy /\ copy'.inbound = new /\ copy'.outbound = c.outbound /\ (copy'.socket_eof <=> read.eof)
      /\ copy'.outbound_shutdown = c.outbound_shutdown /\ copy'.inbound_shutdown = c.inbound_shutdown
      /\ copy'.output_closed = c.output_closed
      /\ copy'.input_eof = c.input_eof
  <2>1. new \in Stream
    BY <1>5 DEF Proper
  <2> QED BY <1>2, <1>5, <1>6, <2>1 DEF Copy
<1>8. TypeOK'
  BY <1>1, <1>2, <1>5, <1>6, <1>7 DEF IInv, TypeOK
<1>9. Noted(copy)'
  BY <1>2, <1>3, <1>5, <1>7 DEF Noted
<1>10. Told' /\ FailsOnlyOfOthers'
  BY <1>1, <1>2, <1>6, <1>7 DEF IInv, Told, FailsOnlyOfOthers, SameButClosed
<1>11. (~Gone => Ended(copy, loop.rules))'
  <2> SUFFICES ASSUME ~Gone' PROVE Ended(copy, loop.rules)'
    OBVIOUS
  <2>1. Ended(c, Pass.rules)
    BY <1>1, <1>2 DEF Gone
  <2>2. fromPeer'.shut = fromPeer.shut /\ (fromPeer.shut /\ fromPeer.data = <<>> => fromPeer'.data = <<>>)
    BY <1>1, <1>5
  <2>3. copy'.inbound.closed => fromPeer'.shut /\ fromPeer'.data = <<>>
    BY <1>5, <1>7, <2>1, <2>2 DEF Ended
  <2> QED BY <1>1, <1>2, <1>5, <1>7, <2>1, <2>3 DEF Ended
<1>12. /\ Chain(sink.data, copy.inbound.buffer, fromPeer.data, world.shown, world.sent)'
       /\ Chain(toPeer.data, copy.outbound.buffer, source.data, world.received, world.typed)'
  <2>1. Chain(sink.data, copy.inbound.buffer, fromPeer.data, world.shown, world.sent) /\ Chain(toPeer.data, copy.outbound.buffer, source.data, world.received, world.typed)
    BY Chains
  <2>2. c.inbound.buffer = copy.inbound.buffer /\ c.outbound.buffer = copy.outbound.buffer
    BY <1>2 DEF SameButClosed
  <2>3. new.buffer \in Seq(Byte) /\ fromPeer'.data \in Seq(Byte)
    BY <1>1, <1>5 DEF Proper, Stream, Channel
  <2>4. new.buffer \o fromPeer'.data = copy.inbound.buffer \o fromPeer.data
    BY <1>1, <1>5, <2>2
  <2>5. Chain(sink.data, new.buffer, fromPeer'.data, world.shown, world.sent)
    BY <2>1, <2>3, <2>4, ChainRead
  <2> QED BY <1>1, <1>2, <1>7, <2>1, <2>2, <2>5
<1> QED BY <1>2, <1>6, <1>8, <1>9, <1>10, <1>11, <1>12, LoopKeeps
\* How much a rule that writes may write.
LEMMA WritesFacts ==
  ASSUME NEW stream, Proper(stream), NEW ch \in Channel, NEW n \in Writes(ch, stream)
  PROVE  /\ n \in 0 .. Len(stream.buffer)
         /\ n = 0 => stream.buffer = <<>> /\ BytesBuffered(stream) = 0
         /\ n > 0 => stream.buffer # <<>> /\ BytesBuffered(stream) # 0
<1>1. /\ stream.buffer \in Seq(Byte) /\ Len(stream.buffer) \in Nat
      /\ Len(stream.buffer) = BytesBuffered(stream)
      /\ stream.buffer = <<>> <=> Len(stream.buffer) = 0
  BY EmptySeq DEF Proper, Stream
<1>2. CASE stream.buffer = <<>>
  BY <1>1, <1>2 DEF Writes
<1>3. CASE stream.buffer # <<>>
  <2>1. n \in 1 .. Least(Len(stream.buffer), RoomIn(ch)) /\ RoomIn(ch) \in Int
    BY <1>3, DescriptorAssumption DEF Writes, Accepted, RoomIn, Channel
  <2>2. n \in 1 .. Len(stream.buffer)
    BY <1>1, <2>1 DEF Least
  <2> QED BY <1>1, <1>3, <2>2
<1> QED BY <1>2, <1>3

LEMMA ServeToSocketKeeps == IInv /\ ServeToSocket => IInv'
<1> SUFFICES ASSUME IInv, ServeToSocket PROVE IInv'
  OBVIOUS
<1> DEFINE c == Pass.state
<1>1. PICK n \in Writes(toPeer, c.outbound) :
        LET left    == Drained(c.outbound, n)
            written == WriteTo(toPeer, c.outbound.buffer, n)
        IN  /\ n > 0 => ~WriteFails(toPeer)
            /\ toPeer' = IF Over(left) THEN Shut(written) ELSE written
            /\ AfterCallback([c EXCEPT !.outbound = left, !.outbound_shutdown = @ \/ Over(left)],
                             ToSocket, n > 0 \/ Over(left))
  BY DEF ServeToSocket
<1> DEFINE left    == Drained(c.outbound, n)
           written == WriteTo(toPeer, c.outbound.buffer, n)
<1>2. Serves(ToSocket) /\ UNCHANGED <<source, sink, fromPeer>>
  BY DEF ServeToSocket
<1>3. /\ c \in Copy /\ Noted(c) /\ SameButClosed(c, copy) /\ Pass.rules \subseteq Rule
      /\ ~Gone => Ended(c, Pass.rules)
      /\ RuleInterest(copy, ToSocket)
      /\ status = "copying" /\ loop'.rules = Pass.rules /\ loop'.poll = NotPolled /\ world' = world
  BY <1>2, ServedFacts DEF Rule
<1> HIDE DEF c
<1>4. Proper(c.outbound) /\ toPeer \in Channel
  BY <1>3, Parts DEF Noted
<1>5. /\ n \in 0 .. Len(c.outbound.buffer)
      /\ n = 0 => c.outbound.buffer = <<>> /\ BytesBuffered(c.outbound) = 0
      /\ n > 0 => c.outbound.buffer # <<>> /\ BytesBuffered(c.outbound) # 0
  BY <1>4, WritesFacts
<1>6. /\ Proper(left) /\ left.closed = c.outbound.closed /\ left.error = c.outbound.error
      /\ written.data \o left.buffer = toPeer.data \o c.outbound.buffer
      /\ written \in Channel /\ written.shut = toPeer.shut
      /\ IsFinished(left) => left.closed /\ left.buffer = <<>>
      /\ n = 0 => BytesBuffered(left) = BytesBuffered(c.outbound)
  BY <1>4, <1>5, DrainedFacts
<1> HIDE DEF left, written
<1>7. toPeer' = IF Over(left) THEN Shut(written) ELSE written
  BY <1>1 DEF left, written
<1>8. /\ toPeer' \in Channel /\ toPeer'.data = written.data
      /\ toPeer'.shut <=> toPeer.shut \/ IsFinished(left)
  BY <1>6, <1>7 DEF Over, Shut, Channel
<1>9. /\ c.outbound_shutdown => IsFinished(left)
      /\ n = 0 => (IsFinished(left) <=> IsFinished(c.outbound))
  <2>1. IsFinished(left) <=> left.closed /\ BytesBuffered(left) = 0
    BY <1>6 DEF Proper, Stream, IsFinished, BytesBuffered
  <2>2. IsFinished(c.outbound) <=> c.outbound.closed /\ BytesBuffered(c.outbound) = 0
    BY <1>4 DEF Proper, Stream, IsFinished, BytesBuffered
  <2>3. n = 0 \/ n > 0
    BY <1>5
  <2> QED BY <1>3, <1>5, <1>6, <2>1, <2>2, <2>3 DEF Noted
<1>10. /\ copy' = [c EXCEPT !.outbound = left, !.outbound_shutdown = c.outbound_shutdown \/ IsFinished(left)]
       /\ status' = "copying"
  <2>1. AfterCallback([c EXCEPT !.outbound = left, !.outbound_shutdown = @ \/ Over(left)],
                      ToSocket, n > 0 \/ Over(left))
    BY <1>1 DEF left
  <2>2. copy' = [c EXCEPT !.outbound = left, !.outbound_shutdown = c.outbound_shutdown \/ IsFinished(left)]
    BY <1>3, <2>1 DEF AfterCallback, Over, Copy
  <2>3. status' = IF Loop!BusyWait(copy', ToSocket, n > 0 \/ Over(left)) THEN "thrown" ELSE status
    BY <2>1 DEF AfterCallback
  <2>4. n > 0 \/ IsFinished(left)
    <3>1. CASE n = 0
      <4>1. BytesBuffered(copy.outbound) = 0
        <5>1. c.outbound.buffer = copy.outbound.buffer /\ Proper(copy.outbound)
          BY <1>3 DEF IInv, Noted, SameButClosed
        <5> QED BY <1>4, <1>5, <3>1, <5>1 DEF Proper
      <4>2. IsFinished(copy.outbound)
        BY <1>3, <4>1, Interests DEF Outstanding
      <4> QED BY <1>3, <1>9, <3>1, <4>2 DEF SameButClosed
    <3> QED BY <1>5, <3>1
  <2> QED BY <1>3, <2>2, <2>3, <2>4 DEF Loop!BusyWait, Over
<1>11. /\ copy' \in Copy /\ copy'.outbound = left /\ copy'.inbound = c.inbound
       /\ copy'.outbound_shutdown <=> IsFinished(left)
       /\ copy'.inbound_shutdown = c.inbound_shutdown
       /\ copy'.output_closed = c.output_closed
       /\ copy'.input_eof = c.input_eof /\ copy'.socket_eof = c.socket_eof
  <2> DEFINE shutdown == c.outbound_shutdown \/ IsFinished(left)
  <2>1. left \in Stream /\ shutdown \in BOOLEAN /\ (shutdown <=> IsFinished(left))
    BY <1>3, <1>6, <1>9, CopyParts DEF Proper
  <2>2. copy' = [c EXCEPT !.outbound = left, !.outbound_shutdown = shutdown]
    BY <1>10
  <2> HIDE DEF shutdown
  <2> QED BY <1>3, <2>1, <2>2 DEF Copy
<1>12. TypeOK'
  BY <1>2, <1>3, <1>8, <1>10, <1>11 DEF IInv, TypeOK
<1>13. Noted(copy)'
  BY <1>3, <1>6, <1>11 DEF Noted
<1>14. Told' /\ FailsOnlyOfOthers'
  BY <1>8, <1>10, <1>11 DEF Told, FailsOnlyOfOthers
<1>15. (~Gone => Ended(copy, loop.rules))'
  <2> SUFFICES ASSUME ~Gone' PROVE Ended(copy, loop.rules)'
    OBVIOUS
  <2>1. Ended(c, Pass.rules)
    BY <1>2, <1>3 DEF Gone
  <2>2. toPeer'.shut => copy'.outbound_shutdown
    BY <1>8, <1>9, <1>11, <2>1 DEF Ended
  <2>3. ToSocket \notin loop'.rules => copy'.outbound_shutdown
    BY <1>3, <1>9, <1>11, <2>1 DEF Ended
  <2> QED BY <1>2, <1>3, <1>6, <1>11, <2>1, <2>2, <2>3 DEF Ended
<1>16. /\ Chain(toPeer.data, copy.outbound.buffer, source.data, world.received, world.typed)'
       /\ Chain(sink.data, copy.inbound.buffer, fromPeer.data, world.shown, world.sent)'
  <2>1. c.outbound.buffer = copy.outbound.buffer /\ c.inbound.buffer = copy.inbound.buffer
    BY <1>3 DEF SameButClosed
  <2>2. left.buffer \in Seq(Byte) /\ written.data \in Seq(Byte)
    BY <1>6 DEF Proper, Stream, Channel
  <2>3. written.data \o left.buffer = toPeer.data \o copy.outbound.buffer
    BY <1>6, <2>1
  <2>4. Chain(written.data, left.buffer, source.data, world.received, world.typed)
    BY <2>2, <2>3, Chains, ChainWritten
  <2> QED BY <1>2, <1>3, <1>8, <1>11, <2>1, <2>4, Chains
<1> QED BY <1>3, <1>10, <1>12, <1>13, <1>14, <1>15, <1>16, LoopKeeps

LEMMA ServeToOutputKeeps == IInv /\ ServeToOutput => IInv'
<1> SUFFICES ASSUME IInv, ServeToOutput PROVE IInv'
  OBVIOUS
<1> DEFINE c == Pass.state
<1>1. PICK n \in Writes(sink, c.inbound) :
        LET left == Drained(c.inbound, n)
        IN  /\ n > 0 => ~WriteFails(sink)
            /\ sink' = WriteTo(sink, c.inbound.buffer, n)
            /\ AfterCallback([c EXCEPT !.inbound = left, !.inbound_shutdown = @ \/ Over(left),
                                       !.output_closed = @ \/ Over(left)], ToOutput, n > 0)
  BY DEF ServeToOutput
<1> DEFINE left    == Drained(c.inbound, n)
           written == WriteTo(sink, c.inbound.buffer, n)
<1>2. Serves(ToOutput) /\ UNCHANGED <<source, toPeer, fromPeer>>
  BY DEF ServeToOutput
<1>3. /\ c \in Copy /\ Noted(c) /\ SameButClosed(c, copy) /\ Pass.rules \subseteq Rule
      /\ ~Gone => Ended(c, Pass.rules)
      /\ RuleInterest(copy, ToOutput)
      /\ status = "copying" /\ loop'.rules = Pass.rules /\ loop'.poll = NotPolled /\ world' = world
  BY <1>2, ServedFacts DEF Rule
<1> HIDE DEF c
<1>4. Proper(c.inbound) /\ sink \in Channel
  BY <1>3, Parts DEF Noted
<1>5. /\ n \in 0 .. Len(c.inbound.buffer)
      /\ n = 0 => c.inbound.buffer = <<>> /\ BytesBuffered(c.inbound) = 0
      /\ n > 0 => c.inbound.buffer # <<>> /\ BytesBuffered(c.inbound) # 0
  BY <1>4, WritesFacts
<1>6. /\ Proper(left) /\ left.closed = c.inbound.closed /\ left.error = c.inbound.error
      /\ written.data \o left.buffer = sink.data \o c.inbound.buffer
      /\ written \in Channel /\ written.shut = sink.shut
      /\ IsFinished(left) => left.closed /\ left.buffer = <<>>
      /\ n = 0 => BytesBuffered(left) = BytesBuffered(c.inbound)
  BY <1>4, <1>5, DrainedFacts, ZenonT(60)
<1> HIDE DEF left, written
<1>7. sink' = written
  BY <1>1 DEF written
<1>8. /\ c.inbound_shutdown => IsFinished(left)
      /\ n = 0 => (IsFinished(left) <=> IsFinished(c.inbound))
  <2>1. IsFinished(left) <=> left.closed /\ BytesBuffered(left) = 0
    BY <1>6 DEF Proper, Stream, IsFinished, BytesBuffered
  <2>2. IsFinished(c.inbound) <=> c.inbound.closed /\ BytesBuffered(c.inbound) = 0
    BY <1>4 DEF Proper, Stream, IsFinished, BytesBuffered
  <2>3. n = 0 \/ n > 0
    BY <1>5
  <2> QED BY <1>3, <1>5, <1>6, <2>1, <2>2, <2>3 DEF Noted
<1>9. copy' = [c EXCEPT !.inbound = left, !.inbound_shutdown = c.inbound_shutdown \/ IsFinished(left),
                        !.output_closed = c.output_closed \/ IsFinished(left)]
  BY <1>1, <1>3 DEF AfterCallback, Over, Copy, left
<1>10. /\ copy' \in Copy /\ copy'.inbound = left /\ copy'.outbound = c.outbound
       /\ copy'.inbound_shutdown <=> IsFinished(left)
       /\ copy'.output_closed <=> IsFinished(left)
       /\ copy'.outbound_shutdown = c.outbound_shutdown
       /\ copy'.input_eof = c.input_eof /\ copy'.socket_eof = c.socket_eof
  <2> DEFINE shutdown == c.inbound_shutdown \/ IsFinished(left)
             closed   == c.output_closed \/ IsFinished(left)
  <2>1. /\ left \in Stream /\ shutdown \in BOOLEAN /\ (shutdown <=> IsFinished(left))
        /\ closed \in BOOLEAN /\ (closed <=> IsFinished(left))
    BY <1>3, <1>6, <1>8, CopyParts DEF Proper, Noted
  <2>2. copy' = [c EXCEPT !.inbound = left, !.inbound_shutdown = shutdown, !.output_closed = closed]
    BY <1>9
  <2> HIDE DEF shutdown, closed
  <2> QED BY <1>3, <2>1, <2>2 DEF Copy
<1>11. status' = "copying"
  <2>1. status' = IF Loop!BusyWait(copy', ToOutput, n > 0) THEN "thrown" ELSE status
    BY <1>1 DEF AfterCallback
  <2>2. CASE n = 0
    <3>1. BytesBuffered(copy.inbound) = 0
      <4>1. c.inbound.buffer = copy.inbound.buffer /\ Proper(copy.inbound)
        BY <1>3 DEF IInv, Noted, SameButClosed
      <4> QED BY <1>4, <1>5, <2>2, <4>1 DEF Proper
    <3>2. IsFinished(left)
      BY <1>3, <1>8, <2>2, <3>1, Interests DEF Outstanding, SameButClosed
    <3>3. RuleIsClosed(copy', ToOutput)
      BY <1>10, <3>2 DEF RuleIsClosed
    <3> QED BY <1>3, <2>1, <3>3 DEF Loop!BusyWait
  <2>3. CASE n > 0
    BY <1>3, <2>1, <2>3 DEF Loop!BusyWait
  <2> QED BY <1>5, <2>2, <2>3
<1>12. TypeOK'
  BY <1>2, <1>3, <1>6, <1>7, <1>10, <1>11 DEF IInv, TypeOK
<1>13. Noted(copy)'
  BY <1>3, <1>6, <1>10 DEF Noted
<1>14. Told' /\ FailsOnlyOfOthers'
  BY <1>2, <1>3, <1>10, <1>11 DEF IInv, Told, FailsOnlyOfOthers, SameButClosed
<1>15. (~Gone => Ended(copy, loop.rules))'
  <2> SUFFICES ASSUME ~Gone' PROVE Ended(copy, loop.rules)'
    OBVIOUS
  <2>1. Ended(c, Pass.rules)
    BY <1>3, <1>6, <1>7 DEF Gone
  <2>2. ToOutput \notin loop'.rules => copy'.output_closed
    BY <1>3, <1>8, <1>10, <2>1 DEF Ended, Noted
  <2> QED BY <1>2, <1>3, <1>6, <1>10, <2>1, <2>2 DEF Ended
<1>16. /\ Chain(toPeer.data, copy.outbound.buffer, source.data, world.received, world.typed)'
       /\ Chain(sink.data, copy.inbound.buffer, fromPeer.data, world.shown, world.sent)'
  <2>1. c.outbound.buffer = copy.outbound.buffer /\ c.inbound.buffer = copy.inbound.buffer
    BY <1>3 DEF SameButClosed
  <2>2. left.buffer \in Seq(Byte) /\ written.data \in Seq(Byte)
    BY <1>6 DEF Proper, Stream, Channel
  <2>3. written.data \o left.buffer = sink.data \o copy.inbound.buffer
    BY <1>6, <2>1
  <2>4. Chain(written.data, left.buffer, fromPeer.data, world.shown, world.sent)
    BY <2>2, <2>3, Chains, ChainWritten
  <2> QED BY <1>2, <1>3, <1>7, <1>10, <2>1, <2>4, Chains
<1> QED BY <1>3, <1>11, <1>12, <1>13, <1>14, <1>15, <1>16, LoopKeeps
-----------------------------------------------------------------------------
(* The theorems.                                                             *)

LEMMA InitIInv == Init => IInv
<1> SUFFICES ASSUME Init PROVE IInv
  OBVIOUS
<1> DEFINE new == NewStream(buffer_size)
<1>1. /\ status = "copying"
      /\ copy = [outbound |-> new, inbound |-> new,
                 outbound_shutdown |-> FALSE, inbound_shutdown |-> FALSE,
                 input_eof |-> FALSE, socket_eof |-> FALSE, output_closed |-> FALSE]
      /\ loop = [rules |-> Rule, poll |-> NotPolled]
      /\ source = NewChannel /\ sink = NewChannel /\ toPeer = NewChannel /\ fromPeer = NewChannel
  BY DEF Init, Rule
<1>2. PICK input \in Inputs :
        world = [input |-> input, typed |-> 0, shown |-> 0, sent |-> 0, received |-> 0, over |-> FALSE]
  BY DEF Init
<1>3. <<>> \in Seq(Byte) /\ Len(<<>>) = 0
  OBVIOUS
<1>4. /\ new \in Stream /\ new.buffer = <<>> /\ ~new.closed /\ ~new.error /\ Proper(new)
  BY <1>3, CopyAssumption DEF NewStream, Stream, Proper, BytesBuffered
<1> HIDE DEF new
<1>5. /\ copy \in Copy /\ copy.outbound = new /\ copy.inbound = new
      /\ ~copy.outbound_shutdown /\ ~copy.inbound_shutdown /\ ~copy.input_eof /\ ~copy.socket_eof
      /\ ~copy.output_closed
  BY <1>1, <1>4 DEF Copy
<1>6. NewChannel \in Channel /\ NewChannel.data = <<>> /\ ~NewChannel.shut
  BY <1>3 DEF NewChannel, Channel
<1>7. loop.rules = Rule /\ loop.poll = NotPolled
  BY <1>1
<1>8. /\ world \in [input : {"pipe", "file"}, typed : Nat, shown : Nat, sent : Nat, received : Nat,
                    over : BOOLEAN]
      /\ world.typed = 0 /\ world.shown = 0 /\ world.sent = 0 /\ world.received = 0
  BY <1>2, CopyAssumption
<1>9. TypeOK /\ Noted(copy) /\ Told /\ FailsOnlyOfOthers /\ AnswerHolds /\ InOrder
  BY <1>1, <1>4, <1>5, <1>6, <1>7, <1>8 DEF TypeOK, Noted, Told, FailsOnlyOfOthers, AnswerHolds, InOrder
<1>10. Ended(copy, loop.rules)
  BY <1>1, <1>4, <1>5, <1>6, <1>7 DEF Ended, Rule
<1>11. CopyKeepsAll
  <2>1. Numbered(0, 0) \in Seq(Nat) /\ Len(Numbered(0, 0)) = 0
    BY NumberedType
  <2>2. Numbered(0, 0) = <<>>
    BY <2>1, EmptySeq
  <2>3. <<>> \o <<>> \o <<>> = <<>> /\ 0 - 0 = 0
    OBVIOUS
  <2>4. /\ toPeer.data = <<>> /\ copy.outbound.buffer = <<>> /\ source.data = <<>>
        /\ sink.data = <<>> /\ copy.inbound.buffer = <<>> /\ fromPeer.data = <<>>
    BY <1>1, <1>4, <1>5, <1>6
  <2> QED BY <1>8, <2>2, <2>3, <2>4 DEF CopyKeepsAll
<1> QED BY <1>1, <1>9, <1>10, <1>11 DEF IInv

LEMMA NextIInv == IInv /\ [Next]_vars => IInv'
<1> SUFFICES ASSUME IInv, [Next]_vars PROVE IInv'
  OBVIOUS
<1>1. CASE LoopStep
  BY <1>1, PollKeeps, ExitKeeps, ServeNoneKeeps, KilledKeeps, ServeFromInputKeeps, ServeToSocketKeeps,
     ServeFromSocketKeeps, ServeToOutputKeeps DEF LoopStep
<1>2. CASE SourceWrites \/ SourceEnds \/ SinkReads \/ SinkLeaves
  BY <1>2, SourceWritesKeeps, SourceEndsKeeps, SinkReadsKeeps, SinkLeavesKeeps
<1>3. CASE PeerWrites \/ PeerEnds \/ PeerReads \/ ConnectionEnds
  BY <1>3, PeerWritesKeeps, PeerEndsKeeps, PeerReadsKeeps, ConnectionEndsKeeps
<1>4. CASE UNCHANGED vars
  <2>1. UNCHANGED <<status, copy, loop, source, sink, toPeer, fromPeer, world>>
    BY <1>4 DEF vars
  <2>2. TypeOK' /\ InOrder' /\ CopyKeepsAll'
    BY <2>1 DEF IInv, TypeOK, InOrder, CopyKeepsAll
  <2>3. OthersStep
    BY <2>1 DEF OthersStep, Gone
  <2> QED BY <2>2, <2>3, OthersKeep
<1> QED BY <1>1, <1>2, <1>3, <1>4 DEF Next

LEMMA Invariance == Spec => []IInv
BY InitIInv, NextIInv, PTL DEF Spec

\* Whatever is written, read or shut between the answer of poll() and the
\* callback, whatever part of it a read or a write takes and whatever the sizes
\* of the buffers: no byte is lost, repeated or misplaced between standard input
\* and the peer, or between the peer and standard output.
THEOREM NothingLostInCopy == Spec => []CopyKeepsAll
<1>1. IInv => CopyKeepsAll
  BY DEF IInv
<1> QED BY <1>1, Invariance, PTL

\* A copy returns with both ends still there only when everything was copied and
\* both were told that this was all: no rule is given up too early, and none
\* loses its interest while it still has something to do.
THEOREM CompleteOnReturn == Spec => []ReturnIsComplete
<1>1. IInv => ReturnIsComplete
  <2> SUFFICES ASSUME IInv, status = "returned", ~Gone
               PROVE  /\ world.received + Len(toPeer.data) = world.typed /\ toPeer.shut /\ source.shut
                      /\ world.shown + Len(sink.data) = world.sent /\ copy.output_closed /\ fromPeer.shut
    BY DEF ReturnIsComplete, Gone
  <2>1. copy.outbound_shutdown /\ copy.output_closed /\ toPeer.shut
    BY DEF IInv, Told
  <2>2. /\ IsFinished(copy.outbound) /\ IsFinished(copy.inbound)
        /\ Proper(copy.outbound) /\ Proper(copy.inbound)
    BY <2>1 DEF IInv, Noted
  <2>3. /\ copy.outbound.closed /\ copy.outbound.buffer = <<>>
        /\ copy.inbound.closed /\ copy.inbound.buffer = <<>>
    <3>1. ASSUME NEW stream, Proper(stream), IsFinished(stream)
          PROVE  stream.closed /\ stream.buffer = <<>>
      BY <3>1, EmptySeq DEF Proper, Stream, IsFinished, BytesBuffered
    <3> QED BY <2>2, <3>1
  <2>4. source.shut /\ source.data = <<>> /\ fromPeer.shut /\ fromPeer.data = <<>>
    BY <2>3 DEF IInv, Ended
  <2>5. /\ toPeer.data \o <<>> \o <<>> = Numbered(world.received, world.typed - world.received)
        /\ sink.data \o <<>> \o <<>> = Numbered(world.shown, world.sent - world.shown)
    BY <2>3, <2>4 DEF IInv, CopyKeepsAll
  <2>6. ASSUME NEW s \in Seq(Byte), NEW first \in Nat, NEW last \in Nat, first <= last,
               s \o <<>> \o <<>> = Numbered(first, last - first)
        PROVE  first + Len(s) = last
    <3>1. last - first \in Nat
      BY <2>6
    <3>2. s \o <<>> \o <<>> = s
      BY <2>6, ConcatEmptySeq
    <3>3. Len(s) = last - first /\ Len(s) \in Nat
      <4>1. s = Numbered(first, last - first)
        BY <2>6, <3>2, Zenon
      <4> QED BY <3>1, <4>1, NumberedType
    <3> QED BY <3>3
  <2> QED BY <2>1, <2>4, <2>5, <2>6, Parts
<1> QED BY <1>1, Invariance, PTL

\* The copy fails only because the reader of its output or the connection went
\* away while it wrote, and the busy-wait check of the event loop never raises
\* an alarm, not even then.
THEOREM FailsOnlyThen == Spec => [](FailsOnlyOfOthers /\ status # "thrown")
<1>1. IInv => FailsOnlyOfOthers /\ status # "thrown"
  BY DEF IInv
<1> QED BY <1>1, Invariance, PTL
=============================================================================
