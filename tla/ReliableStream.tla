--------------------------- MODULE ReliableStream ---------------------------
(* What one direction of a connection promises: a reader gets what was       *)
(* written, from the first byte on and without a gap, and is told of the end *)
(* only when the writer has closed and nothing is missing.                   *)
EXTENDS Integers

VARIABLES
  written,     \* the number of bytes written so far
  closed,      \* the writer has closed the stream
  readable,    \* the number of bytes the reader has been given
  ended        \* the reader has been told that there is no more

vars == <<written, closed, readable, ended>>

Init == written = 0 /\ ~closed /\ readable = 0 /\ ~ended

Write == /\ ~closed
         /\ written' > written
         /\ UNCHANGED <<closed, readable, ended>>

CloseStream == closed' /\ UNCHANGED <<written, readable, ended>>

Arrive == /\ ~ended
          /\ readable' \in readable .. written
          /\ ended' \in BOOLEAN /\ (ended' => closed /\ readable' = written)
          /\ UNCHANGED <<written, closed>>

Next == Write \/ CloseStream \/ Arrive

Spec == Init /\ [][Next]_vars
=============================================================================
