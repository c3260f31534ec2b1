----------------------------- MODULE Reassembler -----------------------------
(* Reassembler (src/src/reassembler.cc): substrings of a stream that arrive  *)
(* out of order and overlapping are kept in a ring of bytes, with a map of   *)
(* the intervals that are known, until they can be written to the output.    *)
(* A Reassembler is a record with one field for each member that outlives a  *)
(* call; insert maps it to the Reassembler after the call.                   *)
EXTENDS ByteStream, Iteration, FiniteSetsExt

CONSTANT IndexModulus     \* 2^64: stream indices are of this width

ASSUME IndexAssumption == IndexModulus \in Nat \ {0}

Blank == 0                \* a slot of the ring that was never written

NewReassembler(output) ==
  [output |-> output, first_unassembled |-> 0, eof_index |-> 0, eof_received |-> FALSE,
   ring |-> <<>>, front_pos |-> 0,
   filled |-> {}, pending_bytes |-> 0]

\* An interval of the map filled_segments_, which is ordered by `first'.
Interval == [first : Nat, end : Nat]

Reassembler ==
  [output : Stream, first_unassembled : Nat, eof_index : Nat, eof_received : BOOLEAN,
   ring : Seq(Byte), front_pos : Nat,
   filled : SUBSET Interval, pending_bytes : Int]

Leftmost(intervals)  == CHOOSE i \in intervals : \A j \in intervals : i.first <= j.first
Rightmost(intervals) == CHOOSE i \in intervals : \A j \in intervals : i.first >= j.first

\* The slot of the ring, counted from 0, for a stream index at or beyond
\* first_unassembled.
Slot(r, index) == (r.front_pos + (index - r.first_unassembled)) % Len(r.ring)

InitializeRing(r, capacity) ==
  [r EXCEPT !.ring = [i \in 1 .. capacity + 1 |-> Blank], !.front_pos = 0]

\* Bug variant: the ring is written from its first slot.
CopyIntoRing_IgnoringFront(r, index, data) ==
  LET offset(i) == (i - 1 - (index - r.first_unassembled)) % Len(r.ring)
  IN  [r EXCEPT !.ring = [i \in 1 .. Len(@) |->
         IF offset(i) < Len(data) THEN data[offset(i) + 1] ELSE @[i]]]

CopyIntoRing(r, index, data) ==
  LET offset(i) == (i - 1 - Slot(r, index)) % Len(r.ring)
  IN  [r EXCEPT !.ring = [i \in 1 .. Len(@) |->
         IF offset(i) < Len(data) THEN data[offset(i) + 1] ELSE @[i]]]
-----------------------------------------------------------------------------
(* add_interval                                                              *)

\* The state at the head of the merging loop: the map, the position of the
\* iterator, the interval grown so far, and the count of pending bytes.
MergeState == [filled : SUBSET Interval, from : Nat, start : Nat, end : Nat, pending : Int]

\* Bug variant: what was merged is counted twice.
MergePass_CountsTwice(m) ==
  LET touching == {i \in m.filled : m.from <= i.first /\ i.first <= m.end}
      next     == Leftmost(touching)
  IN  IF touching = {} THEN m
      ELSE [m EXCEPT !.filled = @ \ {next},
                     !.start  = Least(@, next.first),
                     !.end    = Greatest(@, next.end)]

\* One pass: the next interval, if it touches the grown one, is merged into it.
MergePass(m) ==
  LET touching == {i \in m.filled : m.from <= i.first /\ i.first <= m.end}
      next     == Leftmost(touching)
  IN  IF touching = {} THEN m
      ELSE [m EXCEPT !.filled  = @ \ {next},
                     !.start   = Least(@, next.first),
                     !.end     = Greatest(@, next.end),
                     !.pending = @ - (next.end - next.first)]

\* Bug variant: the interval before is not looked at.
MergeFrom_NoPrevious(r, start) == start

\* Where merging begins: at the last interval before start if that reaches it,
\* otherwise at whatever begins at start or later.
MergeFrom(r, start) ==
  LET before == {i \in r.filled : i.first < start}
  IN  IF before # {} /\ Rightmost(before).end >= start THEN Rightmost(before).first ELSE start

AddInterval(r, start, end) ==
  LET m == Iterate([s \in MergeState |-> MergePass(s)],
                   [filled |-> r.filled, from |-> MergeFrom(r, start),
                    start |-> start, end |-> end, pending |-> r.pending_bytes],
                   Cardinality(r.filled))
  IN  [r EXCEPT !.filled        = m.filled \cup {[first |-> m.start, end |-> m.end]},
                !.pending_bytes = m.pending + (m.end - m.start)]
-----------------------------------------------------------------------------
(* flush_contiguous                                                          *)

\* One pass of the loop: the first interval is written out of the ring if it
\* begins where the output ends.
FlushPass(r) ==
  LET head == Leftmost(r.filled)
      len  == head.end - head.first
  IN  IF r.filled = {} \/ head.first # r.first_unassembled THEN r
      ELSE [r EXCEPT !.output = PushBytes(@, [i \in 1..len |-> r.ring[Slot(r, head.first + i - 1) + 1]]),
                     !.pending_bytes     = @ - len,
                     !.first_unassembled = head.end,
                     !.front_pos         = (@ + len) % Len(r.ring),
                     !.filled            = @ \ {head}]

\* Bug variant: the stream is closed as soon as the last substring is seen.
CloseAtEnd_Early(r) ==
  IF r.eof_received THEN [r EXCEPT !.output = Close(@)] ELSE r

CloseAtEnd(r) ==
  IF r.eof_received /\ r.first_unassembled = r.eof_index
  THEN [r EXCEPT !.output = Close(@)] ELSE r

FlushContiguous(r) ==
  CloseAtEnd(IF r.ring = <<>> THEN r
             ELSE Iterate([s \in Reassembler |-> FlushPass(s)], r, Cardinality(r.filled)))
-----------------------------------------------------------------------------
(* insert                                                                    *)

\* Bug variant: bytes beyond the capacity of the output are kept.
ClippedEnd_Unclipped(r, end) == end

\* What lies beyond the capacity of the output is not kept.
ClippedEnd(r, end) == Least(end, r.first_unassembled + AvailableCapacity(r.output))

\* The substring that is kept goes into the ring and the map.
Store(r, first_index, data, end) ==
  LET from == Greatest(first_index, r.first_unassembled)
      to   == ClippedEnd(r, end)
  IN  IF from >= to THEN r
      ELSE AddInterval(CopyIntoRing(r, from, SubSeq(data, from - first_index + 1, to - first_index)),
                       from, to)

\* insert: the end of the stream is noted even if nothing else is kept.
Insert(r, first_index, data, is_last_substring) ==
  LET end      == (first_index + Len(data)) % IndexModulus
      out      == r.output
      capacity == BytesBuffered(out) + AvailableCapacity(out)
      sized    == IF r.ring = <<>> /\ capacity > 0 THEN InitializeRing(r, capacity) ELSE r
      noted    == [sized EXCEPT
                     !.first_unassembled = out.total_poped + BytesBuffered(out),
                     !.eof_received = @ \/ is_last_substring,
                     !.eof_index    = IF is_last_substring THEN end ELSE @]
  IN  FlushContiguous(
        IF noted.ring = <<>> \/ end <= noted.first_unassembled \/ data = <<>> THEN noted
        ELSE Store(noted, first_index, data, end))
=============================================================================
