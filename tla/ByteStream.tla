----------------------------- MODULE ByteStream -----------------------------
(* ByteStream (src/src/byte_stream.cc): a bounded queue of bytes with a      *)
(* writing and a reading end.  A stream is a record with one field for each  *)
(* member; the operations are functions of the record, so that a handler     *)
(* that makes several calls is one step of the modules that use them.        *)
EXTENDS Integers, Sequences

NewStream(capacity) ==
  [capacity |-> capacity, buffer |-> <<>>, total_pushed |-> 0, total_poped |-> 0,
   closed |-> FALSE, error |-> FALSE]

\* A byte is identified by its number in the stream, counted from 1: what is
\* in a stream then shows whether a byte was lost, repeated or misplaced.
\* The number 0 stands for memory that was never written.
Byte == Nat

\* The bytes with the numbers first + 1 .. last.
Bytes(first, last) == [i \in 1 .. last - first |-> first + i]

Stream ==
  [capacity : Nat, buffer : Seq(Byte), total_pushed : Nat, total_poped : Nat,
   closed : BOOLEAN, error : BOOLEAN]

AvailableCapacity(s) == s.capacity - (s.total_pushed - s.total_poped)
BytesBuffered(s)     == s.total_pushed - s.total_poped
IsFinished(s)        == s.closed /\ s.total_poped = s.total_pushed

\* Writer::push keeps what fits and drops the rest.
PushBytes(s, data) ==
  LET room == AvailableCapacity(s)
      kept == IF Len(data) <= room THEN data ELSE SubSeq(data, 1, room)
  IN  [s EXCEPT !.buffer = @ \o kept, !.total_pushed = @ + Len(kept)]

\* Reader::pop: erase stops at the end of the buffer, the count does not.
PopBytes(s, len) ==
  [s EXCEPT !.buffer      = SubSeq(@, len + 1, Len(@)),
            !.total_poped = @ + len]

Close(s)    == [s EXCEPT !.closed = TRUE]
SetError(s) == [s EXCEPT !.error = TRUE]
=============================================================================
