---------------------------- MODULE MinnowSocket ----------------------------
(* TCPMinnowSocket (src/util/tcp_minnow_socket_impl.hh): a TCPPeer served by *)
(* an event loop with three rules, in the owner's thread while it connects   *)
(* or accepts and in a thread of its own afterwards.  A pair of stream       *)
(* sockets joins the two threads.  Between the answer of poll() and the      *)
(* callback that it leads to, the owner and the network go on.               *)
EXTENDS TCPPeer, TCPOverIP, FileDescriptor

CONSTANTS
  Modes,                          \* "connect", "listen": which of the two is called
  OwnIsn, RemoteIsn,              \* initial sequence numbers
  SendCapacity, RecvCapacity,     \* TCPConfig::send_capacity, recv_capacity
  OwnerBytes, RemoteBytes,        \* bound: the bytes that each end writes
  OwnHost, RemoteHost, OtherHost, \* addresses
  OwnPort, RemotePort, OtherPort,
  MaxInbox,                       \* bound: datagrams that wait to be read
  MaxStrays,                      \* bound: datagrams of no connection of ours
  Resets                          \* whether the remote host may reset the connection

ASSUME SocketAssumption ==
  /\ Modes \subseteq {"connect", "listen"}
  /\ OwnIsn \in Wrap32 /\ RemoteIsn \in Wrap32
  /\ SendCapacity \in Nat \ {0} /\ RecvCapacity \in Nat \ {0}
  /\ OwnerBytes \in Nat /\ RemoteBytes \in Nat
  /\ {OwnHost, RemoteHost, OtherHost} \subseteq Hosts /\ {OwnPort, RemotePort, OtherPort} \subseteq Ports
  /\ OtherHost \notin {OwnHost, RemoteHost} /\ OtherPort \notin {OwnPort, RemotePort}
  /\ MaxInbox \in Nat /\ MaxStrays \in Nat /\ Resets \in BOOLEAN
  \* The other end takes a number for the position that it stands for (see
  \* TCPConnection).
  /\ OwnerBytes + 2 < HalfModulus /\ RemoteBytes + 2 < HalfModulus /\ RemoteBytes < IndexModulus

VARIABLES
  thread,     \* where _tcp_loop runs: "new", "connect", "accept", "main", "ended", "killed"
  local,      \* what the loop and its callbacks keep
  adapter,    \* the addresses that _datagram_adapter holds
  loop,       \* the rules of _eventloop, and the answer of poll() while it is gone through
  late,       \* a tick's time has passed since base_time
  toThread,   \* the two channels of the socket pair
  toOwner,
  owner,      \* the owner's thread
  inbox,      \* the datagrams that _datagram_adapter can read
  remote,     \* the other end of the connection
  strays      \* how many datagrams of others have arrived

vars == <<thread, local, adapter, loop, late, toThread, toOwner, owner, inbox, remote, strays>>

\* _tcp, and the flags of _thread_data and of the socket.
Local == [tcp : Peer, eof : BOOLEAN, outbound_shutdown : BOOLEAN, inbound_shutdown : BOOLEAN]

Inbound(l)  == Output(l.tcp.receiver)
Outbound(l) == l.tcp.sender.input
-----------------------------------------------------------------------------
(* The rules, in the order in which they are added.                          *)

Network == 1
FromOwner == 2
ToOwner == 3

RuleDirection(rule) == IF rule = ToOwner THEN "Out" ELSE "In"

\* Bug variant: bytes that are still buffered are not waited for.
Over_Closed(l) == Inbound(l).closed \/ Inbound(l).error

\* What has yet to be told to the owner.
Over(l) == IsFinished(Inbound(l)) \/ Inbound(l).error

\* Bug variant: an inactive peer has nothing for the owner.
RuleInterest_Active(l, rule) ==
  /\ Active(l.tcp)
  /\ rule = FromOwner => ~l.outbound_shutdown /\ AvailableCapacity(Outbound(l)) > 0
  /\ rule = ToOwner => BytesBuffered(Inbound(l)) > 0 \/ (Over(l) /\ ~l.inbound_shutdown)

RuleInterest(l, rule) ==
  CASE rule = Network   -> Active(l.tcp)
    [] rule = FromOwner -> /\ Active(l.tcp) /\ ~l.outbound_shutdown
                           /\ AvailableCapacity(Outbound(l)) > 0
    [] rule = ToOwner   -> BytesBuffered(Inbound(l)) > 0 \/ (Over(l) /\ ~l.inbound_shutdown)

\* Neither the device nor _thread_data is closed by its thread, and the device
\* has no end.
RuleAtEof(l, rule)    == rule = FromOwner /\ l.eof
RuleIsClosed(l, rule) == FALSE

CloseOutbound(l) == [l EXCEPT !.tcp.sender.input = Close(@), !.outbound_shutdown = TRUE]

RuleOnCancel(l, rule) == IF rule = FromOwner THEN CloseOutbound(l) ELSE l

RuleOnError(l, rule) ==
  CASE rule = Network   -> l
    [] rule = FromOwner -> [l EXCEPT !.tcp.sender.input = SetError(@)]
    [] rule = ToOwner   -> [l EXCEPT !.tcp.receiver.reassembler.output = SetError(@)]

Loop == INSTANCE EventLoop WITH
  Direction <- RuleDirection, Interest <- RuleInterest, AtEof <- RuleAtEof,
  IsClosed <- RuleIsClosed, OnCancel <- RuleOnCancel, OnError <- RuleOnError

\* What poll() finds at the descriptor of a rule.
Conditions(rule) ==
  IF rule = Network THEN When(inbox # <<>>, "IN") ELSE PolledSocket(toThread, toOwner)

\* poll() has not been called.
NotPolled == [events |-> {}, revents |-> <<>>]
-----------------------------------------------------------------------------
(* The other end: it hears what is sent to it, at once, and in its order.    *)

Own    == [host |-> OwnHost, port |-> OwnPort]
Remote == [host |-> RemoteHost, port |-> RemotePort]

\* How much it has heard, sent and acknowledged, in sequence numbers, and whether
\* the connection was reset.
RemoteEnd == [heard : Nat, sent : Nat, acked : Nat, reset : BOOLEAN]

\* Before listen_and_accept has met anyone, the destination is the default.
Nowhere == [host |-> AnyHost, port |-> OwnPort]

Hear(r, dgram) ==
  LET seg   == dgram.segment
      start == (seg.seqno - OwnIsn) % Modulus
      end   == start + Count(seg.SYN) + Len(seg.payload) + Count(seg.FIN)
  IN  IF dgram.dst # RemoteHost \/ seg.dst_port # RemotePort THEN r
      ELSE [r EXCEPT !.heard = IF start <= @ THEN Greatest(@, end) ELSE @,
                     !.reset = @ \/ seg.RST]

\* What an adapter writes goes to the other end, one segment after the other.
HearNext(from, at) ==
  IF at.out = <<>> THEN at
  ELSE [remote |-> Hear(at.remote, WrapInIP(from, Head(at.out))), out |-> Tail(at.out)]

HearAll(r, from, out) ==
  Iterate([at \in [remote : RemoteEnd, out : Seq(Message)] |-> HearNext(from, at)],
          [remote |-> r, out |-> out], Len(out)).remote

FinPosition == RemoteBytes + 1

\* The segment that takes the positions first .. end - 1 of the remote stream.
RemoteSegment(first, end, rst) ==
  [sender   |-> [seqno |-> Wrap(first, RemoteIsn), SYN |-> first = 0 /\ end > 0,
                 payload |-> [k \in 1 .. Least(end, FinPosition) - Greatest(first, 1)
                                |-> Greatest(first, 1) + k - 1],
                 FIN |-> first <= FinPosition /\ end > FinPosition, RST |-> rst],
   receiver |-> [ackno |-> IF remote.heard = 0 THEN NoAck ELSE Wrap(remote.heard, OwnIsn),
                 window_size |-> MAX_WINDOW, RST |-> rst]]

RemoteWrites(first, end, rst) ==
  /\ ~remote.reset /\ Len(inbox) < MaxInbox
  /\ inbox' = Append(inbox, WrapInIP([source |-> Remote, destination |-> Own, listening |-> FALSE],
                                     RemoteSegment(first, end, rst)))
  /\ remote' = [remote EXCEPT !.sent = end, !.acked = remote.heard, !.reset = rst]
  /\ UNCHANGED <<thread, local, adapter, loop, late, toThread, toOwner, owner, strays>>

\* SYN; then bytes, within the window, and FIN.
RemoteSends ==
  \/ /\ remote.sent = 0 /\ (thread = "accept" \/ remote.heard > 0)
     /\ RemoteWrites(0, 1, FALSE)
  \/ /\ remote.sent > 0 /\ remote.heard > 0
     /\ \E end \in remote.sent + 1 .. FinPosition + 1 :
          LET bytes == Least(end, FinPosition) - remote.sent
          IN  /\ bytes <= MAX_PAYLOAD_SIZE
              /\ bytes > 0 => Least(end, FinPosition) - 1 <= Inbound(local).total_poped + RecvCapacity
              /\ RemoteWrites(remote.sent, end, FALSE)

RemoteAcks == /\ remote.sent > 0 /\ remote.heard > remote.acked
              /\ RemoteWrites(remote.sent, remote.sent, FALSE)

RemoteResets == Resets /\ remote.heard > 0 /\ RemoteWrites(remote.sent, remote.sent, TRUE)

\* Datagrams that the device hands over although they are not of the connection,
\* or are damaged, with segments that would be taken.
Strays ==
  LET base == WrapInIP([source |-> Remote, destination |-> Own, listening |-> FALSE],
                [sender   |-> [seqno |-> Wrap(AbsoluteAckno(local.tcp.receiver), RemoteIsn), SYN |-> FALSE,
                               payload |-> <<OwnerBytes + RemoteBytes + 1>>, FIN |-> TRUE, RST |-> FALSE],
                 receiver |-> [ackno |-> Wrap(local.tcp.sender.next_seqno, OwnIsn),
                               window_size |-> MAX_WINDOW, RST |-> FALSE]])
  IN  {[base EXCEPT !.src = OtherHost], [base EXCEPT !.src = OtherHost, !.segment.RST = TRUE],
       [base EXCEPT !.dst = OtherHost], [base EXCEPT !.proto = "UDP"], [base EXCEPT !.intact = FALSE],
       [base EXCEPT !.segment.src_port = OtherPort], [base EXCEPT !.segment.dst_port = OtherPort],
       [base EXCEPT !.segment.intact = FALSE], [base EXCEPT !.segment.data_offset = HeaderWords - 1]}

StrayArrives ==
  /\ thread \in {"accept", "main"} /\ strays < MaxStrays /\ Len(inbox) < MaxInbox
  /\ \E d \in Strays : inbox' = Append(inbox, d)
  /\ strays' = strays + 1
  /\ UNCHANGED <<thread, local, adapter, loop, late, toThread, toOwner, owner, remote>>
-----------------------------------------------------------------------------
(* connect and listen_and_accept.                                            *)

Init ==
  /\ thread = "new"
  /\ local = [tcp |-> NewPeer(SendCapacity, RecvCapacity, OwnIsn), eof |-> FALSE,
              outbound_shutdown |-> FALSE, inbound_shutdown |-> FALSE]
  /\ adapter = [source |-> Nowhere, destination |-> Nowhere, listening |-> FALSE]
  /\ loop = [rules |-> {Network, FromOwner, ToOwner}, poll |-> NotPolled]
  /\ late = FALSE
  /\ toThread = NewChannel /\ toOwner = NewChannel
  /\ owner = [wrote |-> 0, read |-> 0, eof |-> FALSE, phase |-> "open"]
  /\ inbox = <<>> /\ strays = 0
  /\ remote = [heard |-> 0, sent |-> 0, acked |-> 0, reset |-> FALSE]

Connect ==
  /\ thread = "new" /\ "connect" \in Modes
  /\ thread' = "connect"
  /\ adapter' = [source |-> Own, destination |-> Remote, listening |-> FALSE]
  /\ LET pushed == PeerPush(local.tcp)
     IN  /\ local' = [local EXCEPT !.tcp = pushed.peer]
         /\ remote' = HearAll(remote, adapter', pushed.out)
  /\ UNCHANGED <<loop, late, toThread, toOwner, owner, inbox, strays>>

ListenAndAccept ==
  /\ thread = "new" /\ "listen" \in Modes
  /\ thread' = "accept"
  /\ adapter' = [source |-> Nowhere, destination |-> Nowhere, listening |-> TRUE]
  /\ UNCHANGED <<local, loop, late, toThread, toOwner, owner, inbox, remote, strays>>

\* Bug variant: the thread is left with the connection.
Condition_Active(l) ==
  CASE thread = "connect" -> l.tcp.sender.flight = 1
    [] thread = "accept"  -> Acknowledge(l.tcp.receiver).ackno = NoAck \/ l.tcp.sender.flight > 0
    [] thread = "main"    -> Active(l.tcp)

\* The condition under which _tcp_loop goes on.
Condition(l) ==
  CASE thread = "connect" -> l.tcp.sender.flight = 1
    [] thread = "accept"  -> Acknowledge(l.tcp.receiver).ackno = NoAck \/ l.tcp.sender.flight > 0
    [] thread = "main"    -> TRUE
-----------------------------------------------------------------------------
(* _tcp_loop and _tcp_main.                                                  *)

Looping == thread \in {"connect", "accept", "main"}

\* The loop is left: connect and accept start the thread and return, _tcp_main
\* shuts the owner's end of the pair for both directions and ends.
Leave(in, out) ==
  IF thread = "main"
  THEN thread' = "ended" /\ toThread' = Shut(in) /\ toOwner' = Shut(out)
  ELSE thread' = "main" /\ toThread' = in /\ toOwner' = out

\* Bug variant: a live connection is not abandoned.
Abort_WhenIdle == owner.phase = "destructing" /\ ~Active(local.tcp)

\* The flag that the owner's destructor sets.
Abort == owner.phase = "destructing"

\* What follows a call of wait_next_event that is not Exit: the owner's abort is
\* looked at, an active peer is told the time, and the condition is evaluated.
\* l is the state after the callback, sent what it transmitted, in and out the
\* channels of the pair.
Continue(l, sent, in, out) ==
  LET live   == Active(l.tcp)
      ticked == PeerTick(l.tcp, Count(late))
      next   == IF live THEN [l EXCEPT !.tcp = ticked.peer] ELSE l
  IN  IF Abort
      THEN local' = l /\ remote' = HearAll(remote, adapter', sent) /\ late' = late /\ Leave(in, out)
      ELSE /\ local'  = next
           /\ remote' = HearAll(remote, adapter', sent \o (IF live THEN ticked.out ELSE <<>>))
           /\ late'   = (late /\ ~live)
           /\ IF Condition(next)
              THEN thread' = thread /\ toThread' = in /\ toOwner' = out
              ELSE Leave(in, out)

\* wait_next_event up to the answer of poll().
Poll ==
  /\ Looping /\ loop.poll = NotPolled
  /\ LET setup   == Loop!SetUp(local, loop.rules)
         answer  == [r \in setup.rules |-> Loop!Reported(r, setup.events, Conditions(r))]
         silent  == \A r \in setup.rules : answer[r] = {}
     IN  /\ setup.events # {} /\ ~silent
         /\ local' = setup.state
         /\ loop' = [rules |-> setup.rules, poll |-> [events |-> setup.events, revents |-> answer]]
  /\ UNCHANGED <<thread, adapter, late, toThread, toOwner, owner, inbox, remote, strays>>

\* poll() times out after a tick's time.
Timeout ==
  /\ Looping /\ loop.poll = NotPolled /\ late
  /\ LET setup == Loop!SetUp(local, loop.rules)
     IN  /\ setup.events # {}
         /\ \A r \in setup.rules : Loop!Reported(r, setup.events, Conditions(r)) = {}
         /\ loop' = [rules |-> setup.rules, poll |-> NotPolled]
         /\ adapter' = adapter
         /\ Continue(setup.state, <<>>, toThread, toOwner)
  /\ UNCHANGED <<owner, inbox, strays>>

\* No rule is interested any more: Exit.
Exit ==
  /\ Looping /\ loop.poll = NotPolled
  /\ LET setup == Loop!SetUp(local, loop.rules)
     IN  /\ setup.events = {}
         /\ local' = setup.state
         /\ loop' = [rules |-> setup.rules, poll |-> NotPolled]
  /\ Leave(toThread, toOwner)
  /\ UNCHANGED <<adapter, late, owner, inbox, remote, strays>>

Pass == Loop!PollPass(local, loop.rules, loop.poll.events, loop.poll.revents)

Polled == Looping /\ loop.poll # NotPolled

\* Nothing but hangups was reported.
ServeNone ==
  /\ Polled /\ Pass.served = Loop!None
  /\ loop' = [rules |-> Pass.rules, poll |-> NotPolled]
  /\ adapter' = adapter
  /\ Continue(Pass.state, <<>>, toThread, toOwner)
  /\ UNCHANGED <<owner, inbox, strays>>

\* Rule 1: a datagram is read, and given to the peer if it is for us.
ServeNetwork ==
  /\ Polled /\ Pass.served = Network
  /\ loop' = [rules |-> Pass.rules, poll |-> NotPolled]
  /\ inbox' = Tail(inbox)
  /\ LET l      == Pass.state
         read   == ReadDatagram(adapter, Head(inbox))
         result == IF read.message = NoMessage THEN [peer |-> l.tcp, out |-> <<>>]
                   ELSE PeerReceive(l.tcp, read.message)
     IN  /\ adapter' = read.adapter
         /\ Continue([l EXCEPT !.tcp = result.peer], result.out, toThread, toOwner)
  /\ UNCHANGED <<owner, strays>>

\* Rule 2: what the owner wrote is pushed, as much as there is room for.
ServeFromOwner ==
  /\ Polled /\ Pass.served = FromOwner
  /\ loop' = [rules |-> Pass.rules, poll |-> NotPolled]
  /\ adapter' = adapter
  /\ LET l      == Pass.state
         read   == ReadFrom(toThread, AvailableCapacity(Outbound(l)))
         filled == [l EXCEPT !.tcp.sender.input = PushBytes(@, read.data), !.eof = @ \/ read.eof]
         closed == IF filled.eof THEN CloseOutbound(filled) ELSE filled
         pushed == PeerPush(closed.tcp)
     IN  Continue([closed EXCEPT !.tcp = pushed.peer], pushed.out, read.channel, toOwner)
  /\ UNCHANGED <<owner, inbox, strays>>

\* Bug variant: what the write did not take is popped with the rest.
TakeOut_Peeked(l, n) ==
  [l EXCEPT !.tcp.receiver.reassembler.output = PopBytes(@, BytesBuffered(@))]

TakeOut(l, n) == [l EXCEPT !.tcp.receiver.reassembler.output = PopBytes(@, n)]

\* Rule 3, its end: once there is nothing more to come, the owner is told.
TellOwner(l, out) ==
  IF Over(l) THEN Continue([l EXCEPT !.inbound_shutdown = TRUE], <<>>, toThread, Shut(out))
  ELSE Continue(l, <<>>, toThread, out)

\* Rule 3: what the peer has received is written for the owner, as much as the
\* pair takes.
ServeToOwner ==
  /\ Polled /\ Pass.served = ToOwner
  /\ loop' = [rules |-> Pass.rules, poll |-> NotPolled]
  /\ adapter' = adapter
  /\ LET l    == Pass.state
         data == Inbound(l).buffer
     IN  \/ /\ data = <<>>
            /\ TellOwner(l, toOwner)
         \/ /\ data # <<>> /\ ~WriteFails(toOwner)
            /\ \E n \in Accepted(toOwner, data) :
                 TellOwner(TakeOut(l, n), WriteTo(toOwner, data, n))
  /\ UNCHANGED <<owner, inbox, strays>>

\* Rule 3 fails, and with it the program.
Killed ==
  /\ Polled /\ Pass.served = ToOwner
  /\ Inbound(Pass.state).buffer # <<>> /\ WriteFails(toOwner)
  /\ thread' = "killed"
  /\ UNCHANGED <<local, adapter, loop, late, toThread, toOwner, owner, inbox, remote, strays>>

Clock == /\ Looping /\ ~late /\ late' = TRUE
         /\ UNCHANGED <<thread, local, adapter, loop, toThread, toOwner, owner, inbox, remote, strays>>
-----------------------------------------------------------------------------
(* The owner, once connect or listen_and_accept has returned.                *)

OwnerFree == thread \in {"main", "ended"} /\ owner.phase = "open"

OwnerChanges(in, out, new) ==
  /\ toThread' = in /\ toOwner' = out /\ owner' = new
  /\ UNCHANGED <<thread, local, adapter, loop, late, inbox, remote, strays>>

\* A write takes what there is room for; to a pair that is shut the owner, too,
\* would fail.
OwnerWrites ==
  /\ OwnerFree /\ ~WriteFails(toThread)
  /\ \E n \in 1 .. Least(RoomIn(toThread), OwnerBytes - owner.wrote) :
       OwnerChanges(WriteTo(toThread, [i \in 1 .. n |-> owner.wrote + i], n), toOwner,
                    [owner EXCEPT !.wrote = @ + n])

OwnerReads ==
  /\ OwnerFree /\ ~owner.eof
  /\ \E size \in 1 .. PipeCapacity :
       LET read == ReadFrom(toOwner, size)
       IN  /\ read.registered
           /\ OwnerChanges(toThread, read.channel,
                           [owner EXCEPT !.read = @ + Len(read.data), !.eof = read.eof])

\* shutdown( SHUT_WR )
OwnerShutsDown ==
  /\ OwnerFree /\ ~toThread.shut
  /\ OwnerChanges(Shut(toThread), toOwner, owner)

\* wait_until_closed, at end of file as its note advises: both directions are
\* shut down, and the thread is joined.
WaitUntilClosed ==
  /\ OwnerFree /\ owner.eof
  /\ OwnerChanges(Shut(toThread), Shut(toOwner), [owner EXCEPT !.phase = "waiting"])

\* The web server does not wait for end of file: it has read its request and
\* written its response, of which the one write may have taken only a part.
WaitUntilClosedEarly ==
  /\ OwnerFree /\ ~owner.eof /\ owner.read > 0 /\ owner.wrote > 0
  /\ OwnerChanges(Shut(toThread), Shut(toOwner), [owner EXCEPT !.phase = "waiting early"])

\* ~TCPMinnowSocket while the thread runs: _abort is set, and the thread is joined.
Destruct ==
  /\ OwnerFree /\ thread = "main"
  /\ OwnerChanges(toThread, toOwner, [owner EXCEPT !.phase = "destructing"])
-----------------------------------------------------------------------------
ThreadStep == Poll \/ Timeout \/ Exit \/ ServeNone \/ ServeNetwork \/ ServeFromOwner \/ ServeToOwner

Next ==
  \/ Connect \/ ListenAndAccept \/ ThreadStep \/ Killed \/ Clock
  \/ OwnerWrites \/ OwnerReads \/ OwnerShutsDown \/ WaitUntilClosed \/ WaitUntilClosedEarly \/ Destruct
  \/ RemoteSends \/ RemoteAcks \/ RemoteResets \/ StrayArrives

Spec == Init /\ [][Next]_vars

\* ThreadStep is enabled: an event waits to be served or poll() to return.
ThreadReady ==
  /\ Looping
  /\ \/ loop.poll # NotPolled
     \/ late /\ (Active(local.tcp) \/ owner.phase = "destructing")
     \/ LET setup == Loop!SetUp(local, loop.rules)
        IN  \/ setup.events = {}
            \/ \E r \in setup.rules : Loop!Reported(r, setup.events, Conditions(r)) # {}

\* The thread is scheduled, poll() returns when it should, and time passes.
\* Nothing is assumed of the owner and of the remote host.
Fairness ==
  /\ <>[]ThreadReady => []<><<ThreadStep>>_vars
  /\ WF_vars(Clock)

FairSpec == Spec /\ Fairness
=============================================================================
