----------------------------- MODULE TCPMessages -----------------------------
(* The two halves of a TCP segment (src/util/tcp_sender_message.hh and       *)
(* tcp_receiver_message.hh), and the sequence numbers they take.             *)
EXTENDS WrappingIntegers, ByteStream

CONSTANT MAX_WINDOW     \* UINT16_MAX, the largest window a message can carry

ASSUME WindowAssumption == MAX_WINDOW \in Nat \ {0} /\ MAX_WINDOW < HalfModulus

\* TCPSenderMessage
SenderMessage == [seqno : Wrap32, SYN : BOOLEAN, payload : Seq(Byte),
                  FIN : BOOLEAN, RST : BOOLEAN]

NoAck == -1    \* an ackno without value

\* TCPReceiverMessage
ReceiverMessage == [ackno : Wrap32 \cup {NoAck}, window_size : 0 .. MAX_WINDOW,
                    RST : BOOLEAN]

Count(flag) == IF flag THEN 1 ELSE 0

\* TCPSenderMessage::sequence_length
SequenceLength(msg) == Count(msg.SYN) + Len(msg.payload) + Count(msg.FIN)
=============================================================================
