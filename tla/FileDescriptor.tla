--------------------------- MODULE FileDescriptor ---------------------------
(* FileDescriptor and Socket (src/util/file_descriptor.cc, socket.cc) over   *)
(* one-way channels of the kernel: a pipe is one, a pair of connected stream *)
(* sockets is two.  All descriptors are non-blocking.  What poll() reports   *)
(* and how a channel is shut are the kernel's part.                          *)
EXTENDS ByteStream, Iteration

CONSTANTS
  PipeCapacity,       \* the bytes that a channel of the kernel holds
  kReadBufferSize     \* what is read into a buffer that comes without a size

ASSUME DescriptorAssumption ==
  PipeCapacity \in Nat \ {0} /\ kReadBufferSize \in Nat \ {0}
-----------------------------------------------------------------------------
(* The kernel.                                                               *)

\* What was written and not yet read, and whether either end was shut down.
Channel == [data : Seq(Byte), shut : BOOLEAN]

NewChannel == [data |-> <<>>, shut |-> FALSE]

\* shutdown() of one direction, at whichever of its two ends, or close() of
\* the last descriptor of an end.
Shut(ch) == [ch EXCEPT !.shut = TRUE]

RoomIn(ch) == PipeCapacity - Len(ch.data)

When(condition, event) == IF condition THEN {event} ELSE {}

\* poll() at one end of a socket pair.
PolledSocket(in, out) ==
  When(in.data # <<>> \/ in.shut, "IN") \cup When(RoomIn(out) > 0, "OUT")
    \cup When(in.shut /\ out.shut, "HUP")

\* poll() at the reading end of a pipe, of a terminal or a file, and at the
\* writing end of a pipe.
PolledPipe(in)      == When(in.data # <<>>, "IN") \cup When(in.shut, "HUP")
PolledFile(in)      == When(in.data # <<>> \/ in.shut, "IN")
PolledSink(out)     == When(RoomIn(out) > 0, "OUT") \cup When(out.shut, "ERR")
-----------------------------------------------------------------------------
(* FileDescriptor::read and write.                                           *)

\* A buffer without a size is given one: it does not read nothing.
ReadSize(size) == IF size = 0 THEN kReadBufferSize ELSE size

\* read: end of file is a read that finds nothing in a channel that is shut.  A
\* read that would block is not registered in read_count.
ReadFrom(ch, size) ==
  LET n == Least(ReadSize(size), Len(ch.data))
  IN  [channel    |-> [ch EXCEPT !.data = SubSeq(@, n + 1, Len(@))],
       data       |-> SubSeq(ch.data, 1, n),
       eof        |-> n = 0 /\ ch.shut,
       registered |-> n > 0 \/ ch.shut]

\* write: any part of the data that is not empty may be taken.
Accepted(ch, data) == 1 .. Least(Len(data), RoomIn(ch))

WriteTo(ch, data, n) == [ch EXCEPT !.data = @ \o SubSeq(data, 1, n)]

\* To write to a channel that is shut is a SIGPIPE, which nothing handles, and
\* a write that can take nothing throws.
WriteFails(ch) == ch.shut \/ RoomIn(ch) = 0
=============================================================================
