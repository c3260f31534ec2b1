-------------------------- MODULE StreamReassembly --------------------------
(* What a Reassembler promises (the comment on Reassembler::insert): the     *)
(* stream comes out in order, each byte as soon as it and all before it have *)
(* arrived; whatever fits within the capacity is remembered; the end is      *)
(* reported when the last byte has been written.  No ring, no intervals.     *)
EXTENDS ByteStream

CONSTANTS
  Capacity,   \* of the output stream
  Length      \* of the stream that is sent

VARIABLES
  received,   \* the indices of the bytes that are known
  popped,     \* how many the reader has taken
  output,     \* the bytes the reader can take
  ended,      \* a substring marked as the last has arrived
  closed      \* the output has been closed

vars == <<received, popped, output, ended, closed>>

\* The stream: byte i + 1 has index i.  A prefix of known bytes is assembled.
Assembled(known) == CHOOSE n \in 0..Length : 0 .. n - 1 \subseteq known /\ n \notin known

Init == /\ received = {} /\ popped = 0 /\ output = <<>>
        /\ ended = FALSE /\ closed = FALSE

Insert(first, end, last) ==
  LET known == received \cup ((first .. end - 1) \cap (0 .. popped + Capacity - 1))
      n     == Assembled(known)
  IN  /\ received' = known
      /\ output'   = [i \in 1 .. n - popped |-> popped + i]
      /\ ended'    = (ended \/ last)
      /\ closed'   = (closed \/ (ended' /\ n = Length))
      /\ UNCHANGED popped

Pop(n) == /\ popped' = popped + n
          /\ output' = SubSeq(output, n + 1, Len(output))
          /\ UNCHANGED <<received, ended, closed>>

Next == \/ \E first \in 0..Length : \E end \in first..Length, last \in BOOLEAN :
             (last => end = Length) /\ Insert(first, end, last)
        \/ \E n \in 1 .. Len(output) : Pop(n)

Spec == Init /\ [][Next]_vars
=============================================================================
