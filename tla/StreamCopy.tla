----------------------------- MODULE StreamCopy ------------------------------
(* bidirectional_stream_copy (src/apps/bidirectional_stream_copy.cc): an     *)
(* event loop with four rules that copies standard input to a socket and the *)
(* socket to standard output.  The socket is the owner's end of the pair of  *)
(* a TCPMinnowSocket, whose thread is the peer here.  Between the answer of  *)
(* poll() and the callback that it leads to, the others go on.               *)
EXTENDS FileDescriptor

CONSTANTS
  buffer_size,                \* the capacity of the two streams
  Inputs,                     \* what standard input may be: "pipe", "file"
  SourceBytes, PeerBytes,     \* bound: the bytes that are copied each way
  Failures                    \* whether the connection or the reader of the output may go away

ASSUME CopyAssumption ==
  /\ buffer_size \in Nat \ {0} /\ Inputs \subseteq {"pipe", "file"}
  /\ SourceBytes \in Nat /\ PeerBytes \in Nat /\ Failures \in BOOLEAN

VARIABLES
  status,     \* "copying", "returned", "thrown", "killed"
  copy,       \* what the callbacks keep: the streams, and what is known of the descriptors
  loop,       \* the rules of the event loop, and the answer of poll() while it is gone through
  source, sink,               \* the channels of standard input and output
  toPeer, fromPeer,           \* the channels of the socket
  world       \* the others: what standard input is, what each end wrote and read

vars == <<status, copy, loop, source, sink, toPeer, fromPeer, world>>

Copy == [outbound : Stream, inbound : Stream,
         outbound_shutdown : BOOLEAN, inbound_shutdown : BOOLEAN,
         input_eof : BOOLEAN, socket_eof : BOOLEAN, output_closed : BOOLEAN]
-----------------------------------------------------------------------------
(* The rules, in the order in which they are added.                          *)

FromInput == 1
ToSocket == 2
FromSocket == 3
ToOutput == 4

RuleDirection(rule) == IF rule \in {FromInput, FromSocket} THEN "In" ELSE "Out"

\* Bug variant: the end of the stream is told with its last byte or not at all.
Outstanding_Bytes(stream, told) == BytesBuffered(stream) > 0

\* There is something to write, or its end to be told.
Outstanding(stream, told) == BytesBuffered(stream) > 0 \/ (IsFinished(stream) /\ ~told)

Wanted(c, stream) ==
  ~c.outbound.error /\ ~c.inbound.error /\ AvailableCapacity(stream) > 0 /\ ~stream.closed

RuleInterest(c, rule) ==
  CASE rule = FromInput  -> Wanted(c, c.outbound)
    [] rule = ToSocket   -> Outstanding(c.outbound, c.outbound_shutdown)
    [] rule = FromSocket -> Wanted(c, c.inbound)
    [] rule = ToOutput   -> Outstanding(c.inbound, c.inbound_shutdown)

RuleAtEof(c, rule) == IF rule = FromInput THEN c.input_eof ELSE c.socket_eof

RuleIsClosed(c, rule) == rule = ToOutput /\ c.output_closed

\* Bug variant: the rules that write have nothing to cancel.
RuleOnCancel_Readers(c, rule) ==
  CASE rule = FromInput  -> [c EXCEPT !.outbound = Close(@)]
    [] rule = FromSocket -> [c EXCEPT !.inbound = Close(@)]
    [] OTHER             -> c

RuleOnCancel(c, rule) ==
  IF rule \in {FromInput, ToSocket} THEN [c EXCEPT !.outbound = Close(@)]
  ELSE [c EXCEPT !.inbound = Close(@)]

RuleOnError(c, rule) == [c EXCEPT !.outbound = SetError(@), !.inbound = SetError(@)]

Loop == INSTANCE EventLoop WITH
  Direction <- RuleDirection, Interest <- RuleInterest, AtEof <- RuleAtEof,
  IsClosed <- RuleIsClosed, OnCancel <- RuleOnCancel, OnError <- RuleOnError

\* What poll() finds at the descriptor of a rule.
Conditions(rule) ==
  CASE rule = FromInput -> IF world.input = "pipe" THEN PolledPipe(source) ELSE PolledFile(source)
    [] rule = ToOutput  -> PolledSink(sink)
    [] OTHER            -> PolledSocket(fromPeer, toPeer)

\* poll() has not been called.
NotPolled == [events |-> {}, revents |-> <<>>]
-----------------------------------------------------------------------------
Init ==
  /\ status = "copying"
  /\ copy = [outbound |-> NewStream(buffer_size), inbound |-> NewStream(buffer_size),
             outbound_shutdown |-> FALSE, inbound_shutdown |-> FALSE,
             input_eof |-> FALSE, socket_eof |-> FALSE, output_closed |-> FALSE]
  /\ loop = [rules |-> {FromInput, ToSocket, FromSocket, ToOutput}, poll |-> NotPolled]
  /\ source = NewChannel /\ sink = NewChannel /\ toPeer = NewChannel /\ fromPeer = NewChannel
  /\ \E input \in Inputs :
       world = [input |-> input, typed |-> 0, shown |-> 0, sent |-> 0, received |-> 0, over |-> FALSE]

\* wait_next_event up to the answer of poll(), which waits as long as it takes.
Poll ==
  /\ status = "copying" /\ loop.poll = NotPolled
  /\ LET setup  == Loop!SetUp(copy, loop.rules)
         answer == [r \in setup.rules |-> Loop!Reported(r, setup.events, Conditions(r))]
     IN  /\ setup.events # {}
         /\ \E r \in setup.rules : answer[r] # {}
         /\ copy' = setup.state
         /\ loop' = [rules |-> setup.rules, poll |-> [events |-> setup.events, revents |-> answer]]
  /\ UNCHANGED <<status, source, sink, toPeer, fromPeer, world>>

\* No rule is interested any more: the copy returns.
Exit ==
  /\ status = "copying" /\ loop.poll = NotPolled
  /\ LET setup == Loop!SetUp(copy, loop.rules)
     IN  /\ setup.events = {}
         /\ copy' = setup.state
         /\ loop' = [rules |-> setup.rules, poll |-> NotPolled]
  /\ status' = "returned"
  /\ UNCHANGED <<source, sink, toPeer, fromPeer, world>>

Pass == Loop!PollPass(copy, loop.rules, loop.poll.events, loop.poll.revents)

Serves(rule) ==
  /\ status = "copying" /\ loop.poll # NotPolled /\ Pass.served = rule
  /\ loop' = [rules |-> Pass.rules, poll |-> NotPolled]
  /\ UNCHANGED world

\* What follows a callback that left c.
AfterCallback(c, rule, serviced) ==
  copy' = c /\ status' = IF Loop!BusyWait(c, rule, serviced) THEN "thrown" ELSE status

\* Nothing but errors and hangups was reported.
ServeNone ==
  /\ Serves(Loop!None)
  /\ copy' = Pass.state
  /\ UNCHANGED <<status, source, sink, toPeer, fromPeer>>

\* The two rules that read.
Filled(stream, read) ==
  LET pushed == PushBytes(stream, read.data) IN IF read.eof THEN Close(pushed) ELSE pushed

ServeFromInput ==
  /\ Serves(FromInput)
  /\ LET c    == Pass.state
         read == ReadFrom(source, AvailableCapacity(c.outbound))
     IN  /\ source' = read.channel
         /\ AfterCallback([c EXCEPT !.outbound = Filled(@, read), !.input_eof = read.eof],
                          FromInput, read.registered)
  /\ UNCHANGED <<sink, toPeer, fromPeer>>

ServeFromSocket ==
  /\ Serves(FromSocket)
  /\ LET c    == Pass.state
         read == ReadFrom(fromPeer, AvailableCapacity(c.inbound))
     IN  /\ fromPeer' = read.channel
         /\ AfterCallback([c EXCEPT !.inbound = Filled(@, read), !.socket_eof = read.eof],
                          FromSocket, read.registered)
  /\ UNCHANGED <<source, sink, toPeer>>

\* Bug variant: all that was offered to the write is popped.
Drained_Peeked(stream, n) == PopBytes(stream, BytesBuffered(stream))

\* The two rules that write: what the write took is popped.
Drained(stream, n) == PopBytes(stream, n)

\* Bug variant: bytes that are still buffered are not waited for.
Over_Closed(stream) == stream.closed

\* Nothing more is to be written.
Over(stream) == IsFinished(stream)

\* How many bytes a rule that writes the stream may write.
Writes(ch, stream) == IF stream.buffer = <<>> THEN {0} ELSE Accepted(ch, stream.buffer)

ServeToSocket ==
  /\ Serves(ToSocket)
  /\ LET c == Pass.state
     IN  \E n \in Writes(toPeer, c.outbound) :
           LET left    == Drained(c.outbound, n)
               written == WriteTo(toPeer, c.outbound.buffer, n)
           IN  /\ n > 0 => ~WriteFails(toPeer)
               /\ toPeer' = IF Over(left) THEN Shut(written) ELSE written
               /\ AfterCallback([c EXCEPT !.outbound = left, !.outbound_shutdown = @ \/ Over(left)],
                                ToSocket, n > 0 \/ Over(left))
  /\ UNCHANGED <<source, sink, fromPeer>>

ServeToOutput ==
  /\ Serves(ToOutput)
  /\ LET c == Pass.state
     IN  \E n \in Writes(sink, c.inbound) :
           LET left == Drained(c.inbound, n)
           IN  /\ n > 0 => ~WriteFails(sink)
               /\ sink' = WriteTo(sink, c.inbound.buffer, n)
               /\ AfterCallback([c EXCEPT !.inbound = left, !.inbound_shutdown = @ \/ Over(left),
                                          !.output_closed = @ \/ Over(left)], ToOutput, n > 0)
  /\ UNCHANGED <<source, toPeer, fromPeer>>

\* A write fails, and with it the program.
Killed ==
  /\ status = "copying" /\ loop.poll # NotPolled
  /\ \/ Pass.served = ToSocket /\ Pass.state.outbound.buffer # <<>> /\ WriteFails(toPeer)
     \/ Pass.served = ToOutput /\ Pass.state.inbound.buffer # <<>> /\ WriteFails(sink)
  /\ status' = "killed"
  /\ UNCHANGED <<copy, loop, source, sink, toPeer, fromPeer, world>>
-----------------------------------------------------------------------------
(* The others.                                                               *)

Numbered(first, n) == [i \in 1 .. n |-> first + i]

SourceWrites ==
  /\ ~source.shut
  /\ \E n \in 1 .. Least(RoomIn(source), SourceBytes - world.typed) :
       /\ source' = WriteTo(source, Numbered(world.typed, n), n)
       /\ world' = [world EXCEPT !.typed = @ + n]
  /\ UNCHANGED <<status, copy, loop, sink, toPeer, fromPeer>>

SourceEnds == /\ ~source.shut /\ source' = Shut(source)
              /\ UNCHANGED <<status, copy, loop, sink, toPeer, fromPeer, world>>

SinkReads ==
  /\ sink.data # <<>> /\ ~sink.shut
  /\ sink' = [sink EXCEPT !.data = Tail(@)]
  /\ world' = [world EXCEPT !.shown = @ + 1]
  /\ UNCHANGED <<status, copy, loop, source, toPeer, fromPeer>>

SinkLeaves == /\ Failures /\ ~sink.shut /\ sink' = Shut(sink)
              /\ UNCHANGED <<status, copy, loop, source, toPeer, fromPeer, world>>

PeerWrites ==
  /\ ~WriteFails(fromPeer)
  /\ \E n \in 1 .. Least(RoomIn(fromPeer), PeerBytes - world.sent) :
       /\ fromPeer' = WriteTo(fromPeer, Numbered(world.sent, n), n)
       /\ world' = [world EXCEPT !.sent = @ + n]
  /\ UNCHANGED <<status, copy, loop, source, sink, toPeer>>

\* The stream from the peer has ended.
PeerEnds == /\ ~fromPeer.shut /\ fromPeer' = Shut(fromPeer)
            /\ UNCHANGED <<status, copy, loop, source, sink, toPeer, world>>

PeerReads ==
  /\ toPeer.data # <<>> /\ ~world.over
  /\ toPeer' = [toPeer EXCEPT !.data = Tail(@)]
  /\ world' = [world EXCEPT !.received = @ + 1]
  /\ UNCHANGED <<status, copy, loop, source, sink, fromPeer>>

\* The thread of the connection has ended: it shuts the owner's end.
ConnectionEnds ==
  /\ ~world.over /\ (Failures \/ (fromPeer.shut /\ toPeer.shut /\ toPeer.data = <<>>))
  /\ fromPeer' = Shut(fromPeer) /\ toPeer' = Shut(toPeer)
  /\ world' = [world EXCEPT !.over = TRUE]
  /\ UNCHANGED <<status, copy, loop, source, sink>>
-----------------------------------------------------------------------------
LoopStep == \/ Poll \/ Exit \/ ServeNone \/ Killed
            \/ ServeFromInput \/ ServeToSocket \/ ServeFromSocket \/ ServeToOutput

Next == \/ LoopStep
        \/ SourceWrites \/ SourceEnds \/ SinkReads \/ SinkLeaves
        \/ PeerWrites \/ PeerEnds \/ PeerReads \/ ConnectionEnds

Spec == Init /\ [][Next]_vars

\* LoopStep is enabled: an event waits to be served or poll() to return.
LoopReady ==
  /\ status = "copying"
  /\ \/ loop.poll # NotPolled
     \/ LET setup == Loop!SetUp(copy, loop.rules)
        IN  \/ setup.events = {}
            \/ \E r \in setup.rules : Loop!Reported(r, setup.events, Conditions(r)) # {}

\* The program runs; the reader of its output reads or leaves; the thread of the
\* connection reads until it ends, and the stream from the peer ends.  Standard
\* input may stay silent for ever.
Fairness ==
  /\ <>[]LoopReady => []<><<LoopStep>>_vars
  /\ WF_sink(SinkReads) /\ WF_toPeer(PeerReads) /\ WF_fromPeer(PeerEnds)

FairSpec == Spec /\ Fairness
-----------------------------------------------------------------------------
(* Properties.                                                               *)

\* No byte is lost, repeated or misplaced in either direction, whatever part of
\* them a read or a write takes and whoever has gone away: what lies in the
\* channels and the streams continues what has come out (rules 1 to 4).
CopyKeepsAll ==
  /\ toPeer.data \o copy.outbound.buffer \o source.data
       = Numbered(world.received, world.typed - world.received)
  /\ sink.data \o copy.inbound.buffer \o fromPeer.data
       = Numbered(world.shown, world.sent - world.shown)

\* A copy that returns while both ends are still there has copied everything,
\* and told both of them that this was all (the condition of each rule that
\* writes).
ReturnIsComplete ==
  status = "returned" /\ ~sink.shut /\ ~world.over =>
    /\ world.received + Len(toPeer.data) = world.typed /\ toPeer.shut /\ source.shut
    /\ world.shown + Len(sink.data) = world.sent /\ copy.output_closed /\ fromPeer.shut

\* The copy fails only because someone it writes to went away: it never writes
\* to an end that it has shut itself, and the busy-wait check of the event loop
\* raises no alarm (rules 2 and 4, wait_next_event).
FailsOnlyOfOthers == status \in {"thrown", "killed"} => sink.shut \/ world.over

\* Once standard input has ended, or the connection is over although standard
\* input stays silent, the copy comes to an end (RuleOnCancel: a hangup closes
\* the stream that can go nowhere any more).
CopyEnds == source.shut \/ world.over ~> status # "copying"
=============================================================================
