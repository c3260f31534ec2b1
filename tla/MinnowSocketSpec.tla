-------------------------- MODULE MinnowSocketSpec ---------------------------
(* What a TCPMinnowSocket promises its owner.                                *)
EXTENDS MinnowSocket

\* Between the owner and the peer no byte is lost, repeated or misplaced in
\* either direction, whatever part of them a read or a write of the pair takes
\* and whatever else the device delivers: what lies in the streams and in the
\* pair continues what the owner has read, and ends what it wrote (rules 2 and
\* 3 of _initialize_TCP, unwrap_tcp_in_ip).
NothingIsLostBetween ==
  /\ toOwner.data \o Inbound(local).buffer = Bytes(owner.read, Inbound(local).total_pushed)
  /\ Outbound(local).buffer \o toThread.data = Bytes(Outbound(local).total_poped, owner.wrote)

\* When the owner reads end of file, it has read all that the remote host wrote,
\* or the connection has failed (rule 3, _tcp_main).
EofIsTheEnd ==
  owner.eof => \/ AnyErrors(local.tcp)
               \/ owner.read = RemoteBytes /\ InboundClosed(local.tcp)

\* A thread that ends although neither the connection failed nor the owner
\* abandoned it has passed on everything, both ways, but for what the owner no
\* longer wanted to read, and the remote host has heard the end of the stream
\* (_tcp_loop, TCPPeer::active).
CleanEndIsComplete ==
  thread = "ended" /\ ~AnyErrors(local.tcp) /\ owner.phase # "destructing" =>
    /\ owner.phase # "waiting early" => owner.read + Len(toOwner.data) = RemoteBytes
    /\ remote.heard = owner.wrote + 2

\* Rule 3 pops only what was written, so that a write that took a part of the
\* buffer is followed by another (the comment at its head).  The thread of an
\* owner that has not shut the pair is then not killed by a write to a direction
\* that the thread has shut itself.
ThreadSurvives == thread = "killed" => owner.phase = "waiting early"

\* That happens at the most after a reset, or to an owner that does not wait for
\* the end and shuts the pair before the bytes for it are written: no other
\* byte is ever written to a direction that is shut or that has no room
\* (rule 3, the hangup check of wait_next_event, FileDescriptor::write).
DiesOnlyOfCutting ==
  thread = "killed" => \/ remote.reset /\ Inbound(local).error
                       \/ owner.phase = "waiting early"

\* Whoever joins the thread comes back, unless the program dies: wait_until_closed
\* at end of file, although the remote host may answer nothing any more; before
\* that, once the remote host has ended its stream (the note at its declaration);
\* and ~TCPMinnowSocket, whenever its flag is set between two steps of the thread.
JoinReturns ==
  (\/ owner.phase \in {"waiting", "destructing"}
   \/ owner.phase = "waiting early" /\ (remote.sent > FinPosition \/ remote.reset))
  ~> thread \in {"ended", "killed"}
=============================================================================
