----------------------------- MODULE TCPReceiver -----------------------------
(* TCPReceiver (src/src/tcp_receiver.cc): turns the sequence numbers of      *)
(* segments into stream indices for its Reassembler, and reports the first   *)
(* sequence number it still needs and the room it has.                       *)
EXTENDS TCPMessages, Reassembler

\* FIN_ is written and never read, and RST_ only repeats the error flag of the
\* output, which every RST sets and nothing resets.
Receiver == [reassembler : Reassembler, SYN : BOOLEAN, ISN : Wrap32]

NewReceiver(capacity) ==
  [reassembler |-> NewReassembler(NewStream(capacity)), SYN |-> FALSE, ISN |-> 0]

Output(rcv) == rcv.reassembler.output

\* Bug variant: the checkpoint never moves.
StreamIndex_FixedCheckpoint(rcv, msg) ==
  IF msg.SYN THEN 0 ELSE (Unwrap(msg.seqno, rcv.ISN, 0) - 1) % IndexModulus

\* The index of the first byte of the payload: the SYN takes a sequence number
\* and no index.  A segment in the place of the SYN that is none has index -1,
\* which is the largest one.
StreamIndex(rcv, msg) ==
  IF msg.SYN THEN 0
  ELSE (Unwrap(msg.seqno, rcv.ISN, Output(rcv).total_pushed + 1) - 1) % IndexModulus

\* receive: an RST is obeyed whatever its sequence number, and otherwise
\* nothing is taken in before the SYN.
ReceiveSegment(rcv, msg) ==
  LET opened == IF msg.SYN /\ ~rcv.SYN THEN [rcv EXCEPT !.SYN = TRUE, !.ISN = msg.seqno]
                ELSE rcv
  IN  IF msg.RST THEN [opened EXCEPT !.reassembler.output = SetError(@)]
      ELSE IF ~opened.SYN THEN opened
      ELSE [opened EXCEPT !.reassembler =
              Insert(@, StreamIndex(opened, msg), msg.payload, msg.FIN)]

\* Bug variant: bytes behind a gap are acknowledged.
AbsoluteAckno_CountingPending(rcv) ==
  Output(rcv).total_pushed + rcv.reassembler.pending_bytes + 1 + Count(Output(rcv).closed)

\* The first absolute sequence number that is not yet in the output, the FIN
\* being in once the output is closed.
AbsoluteAckno(rcv) == Output(rcv).total_pushed + 1 + Count(Output(rcv).closed)

\* Bug variant: room is denied to bytes that are waiting in the Reassembler.
AdvertisedWindow_LessPending(rcv) ==
  Least(AvailableCapacity(Output(rcv)) - rcv.reassembler.pending_bytes, MAX_WINDOW)

AdvertisedWindow(rcv) == Least(AvailableCapacity(Output(rcv)), MAX_WINDOW)

\* send
Acknowledge(rcv) ==
  [ackno       |-> IF rcv.SYN THEN Wrap(AbsoluteAckno(rcv), rcv.ISN) ELSE NoAck,
   window_size |-> AdvertisedWindow(rcv),
   RST         |-> Output(rcv).error]
=============================================================================
