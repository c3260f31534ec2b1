# TinyTCP-Over-TUN: specification, model checking and proofs

TLA+ modules that model the TCP/IP stack of this repository, TLC configurations that check them on
small instances, and proofs, checked by TLAPS, of theorems about them for every value of their
parameters. Source paths below are relative to the repository (its library is in `src/`, the
supplied infrastructure in `util/`, clients in `apps/`); in `PROJECT.json` they are prefixed `src/`.

## 1. The system

| Component | State | Operations | Talks to |
|---|---|---|---|
| `Wrap32` (`src/wrapping_integers.cc`) | one 32-bit number | `wrap`, `unwrap` | used by sender and receiver |
| `ByteStream` (`src/byte_stream.cc`) | buffer, two counters, closed, error | `push`, `close`, `pop`, `set_error` | outbound stream in `TCPSender`, inbound in `Reassembler` |
| `Reassembler` (`src/reassembler.cc`) | ring of bytes, map of known intervals, pending count, end of stream | `insert` | writes its `ByteStream` |
| `TCPReceiver` (`src/tcp_receiver.cc`) | SYN seen, ISN | `receive`, `send` | owns a `Reassembler` |
| `TCPSender` (`src/tcp_sender.cc`) | outbound stream, outstanding segments, next and acknowledged position, window, timer and backoff, congestion control | `push`, `receive`, `tick`, `make_empty_message` | hands segments to `transmit` |
| `TCPPeer` (`util/tcp_peer.hh`) | sender, receiver, `need_send_`, lingering, clock | `push`, `tick`, `receive`, `active` | sends pairs of sender and receiver messages |
| `TCPMinnowSocket` (`util/tcp_minnow_socket_impl.hh`) | a `TCPPeer`, an event loop, a socket pair, a thread, `_abort` | `connect`, `listen_and_accept`, three event rules, `wait_until_closed`, destructor | application through a socket pair, network through an adapter |
| `EventLoop` (`util/eventloop.cc`) | rules with interest, callback, cancel, error | `wait_next_event` | `poll`, one callback per call |
| `NetworkInterface` (`src/network_interface.cc`) | ARP cache, request times, pending datagrams, clock | `send_datagram`, `recv_frame`, `tick` | Ethernet frames through an output port |
| `Router` (`src/router.cc`) | a binary trie of routes, interfaces | `add_route`, `route` | takes from and sends through interfaces |
| Adapters (`util/tcp_over_ip.cc`, `tuntap_adapter.cc`, `lossy_fd_adapter.hh`) | own and other address, listening flag | `read`, `write`, `tick`, `wrap_tcp_in_ip`, `unwrap_tcp_in_ip` | TUN device; drop packets at random when asked to |
| TCP and other headers (`tcp_segment.cc`, `ipv4_header.cc`, `arp_message.cc`, `parser.hh`) | | `serialize`, `parse`, `compute_checksum` | used by adapters, interfaces and routers |
| `FileDescriptor`, `Socket` (`util/file_descriptor.cc`, `socket.cc`) | a descriptor, end of file, closed, two counters | `read`, `write`, `close`, `shutdown` | the kernel's channels |
| `bidirectional_stream_copy` (`apps/`) | two byte streams, two shutdown flags, an event loop | four event rules | standard input and output, a socket |
| Other applications (`tcp_ipv4`, `web_server`, `webget`, `endtoend`, ...) | | `main` | use a socket, copy with the function above |

What is hard here, and what makes each component correct:

* **Sequence numbers** are 32 bits on the wire and 64 in memory. Every conversion depends on a
  checkpoint that has moved on since the number was made. Correct: the position that went in comes
  back, and the answer is the closest one.
* **The sender** is called from three sides (application, network, clock) in any order. Its queue,
  its count of what is in flight, its timer and its two windows must agree after every call; new
  data must respect windows that shrink; silly window avoidance must not hold back data with
  nothing in flight; `tick` takes the front of the queue without looking; retransmission must end.
* **The reassembler and the receiver** see segments reordered, repeated, overlapping and beyond
  their room. Correct: they behave as a set of received bytes would, acknowledge exactly the first
  gap, and never take back room they granted.
* **A connection** is two peers over a network that loses, repeats and reorders. Correct: each
  reader sees a prefix of what the other side wrote, a close is clean on both sides, and the side
  that finishes first stays long enough to repeat its last acknowledgment.
* **The interface** must throttle requests, must not use expired addresses, and must send what
  waits when an answer arrives. **The router** must take the longest matching prefix.
* **The event loop** serves one rule per call, and what `poll` reported may have changed when the callback
  runs. A hangup removes a rule for good. Correct: nothing that can still be transferred is given up, and
  what cannot be is, or the program would never end.
* **The socket** has two threads joined by a pair of stream sockets, and ends by an end of file, a reset, a
  timeout or its owner's will. Correct: the owner gives and gets complete streams, end of file means
  the end, the thread goes on until the other host has heard everything, and whoever joins it comes back.
* **The copy** of an application joins four descriptors, of which each may be slow, end or go away at any
  time. Correct: nothing is lost, both sides learn of the end, and the copy returns.

The hazards of the code, line by line, are in `PROJECT.json`, each with the properties that watch it.

## 2. Plan

All parts below are modelled, checked and proved.

1. `WrappingIntegers`, proved: `UnwrapRoundTrip`, `UnwrapClosest`.
2. `ByteStream`, `TCPMessages`, `TCPSender`, `TCPSenderSpec`, proved.
3. `Reassembler`, with the abstract `StreamReassembly`, and `TCPReceiver`, in `TCPReceiverSpec`, proved.
4. `TCPPeer`, `TCPConnection`, with the abstract `ReliableStream`, proved, from what is proved of the operations of its
   sender and its receiver and an invariant of what the network holds.
5. `NetworkInterface`, `NetworkInterfaceSpec`; `Router`, `RouterSpec`; both proved. Left to
   model: datagrams that circle between two routers until their TTL ends.
6. `TCPOverIP`, proved: what one adapter wraps the matching one unwraps.
7. `FileDescriptor`, `EventLoop`, and the two programs that the repository runs on them: `MinnowSocket` with
   `MinnowSocketSpec`, and `StreamCopy`. The loop, the copy and the socket are proved.

Proofs are in modules of their own. What is proved of the *operations* of a sender and of a receiver (`TCPPeerProofs`)
stands apart from what is proved of their *specifications* (`TCPSenderSpecProofs`, `TCPReceiverSpecProofs`), so that the proofs of the
connection use the former too. Modules that are proved about contain no RECURSIVE operators; loops are written with `Iterate`.

## 3. The models

**Loops.** A `while` loop is a function from the state at its head to the state after one pass, which
leaves the state alone once the loop has left; `Iterate(Step, x, n)` (`Iteration`) runs it `n` times, `n` being at
least the passes it can make. `TCPPeerProofs` proves what a loop preserves, without recursion over operators.

**Bug variants.** A definition named `X_Something` above the definition `X` is `X` with a plausible
mistake. No model uses it. For each property of each run `PROJECT.json` names a variant under which
TLC finds that property violated, so that the property is known to depend on the code.

**`WrappingIntegers`** translates `Wrap32`; the word size is the parameter `Modulus` (2^32 in the code).

**`ByteStream`** is a record with one field per member, and one operator per operation. The byte with
number k of a stream is the number k, so a byte that is lost, repeated or out of place shows.

**`TCPSender`** has one field per member of the class and one operator per method (`Push`, `Receive`, `Tick`), each
built from the named parts of that method: `PushPass` is one pass of the loop of `push`, with
`EffectiveWindow`, `SillyWindow` and `NextSegment`; `OnNewAck`, `OnDuplicateAck`, `DropAcked` and `StopIdleTimer` are the
parts of `receive`; `TimedOut` that of `tick`. `TCPSenderSpec` is one sender under its callers: `AppWrite` and `AppClose` (the
rule that reads the application), `DoPush`, `DoReceive` with **any** acknowledgment, window and reset flag, and `DoTick`.
Time is in ticks of a few units; the 64-bit counters are unbounded integers, none of
which the bounds bring near 2^64. `push` is its own action because every caller calls it separately;
`TCPPeer::receive` calls it right after `receive`, which is one of the orders checked.

**`Reassembler`** keeps the ring as a sequence and the map as a set of intervals; `MergePass` and
`FlushPass` are the passes of its two loops. 64-bit stream indices wrap at `IndexModulus`, of
which it is only assumed that the streams end before it.

**`TCPReceiver`** turns segments into insertions and its state into acknowledgments. `TCPReceiverSpec` delivers every segment
the peer's stream can be cut into, in any order and any number of times, also keep-alives, empty or with an octet
of garbage at a number that has been received, be it that of the SYN (`KeepAliveArrives`), and resets. `StreamReassembly` is the abstract specification of the reassembler: a set of
received indices and what follows from it. The refinement mapping takes the set to be everything
written plus everything the map stands for. Members that are never read (`FIN_`) or that repeat another (`RST_`) are left out.

**`TCPPeer`** joins sender and receiver. `PeerReceive` is `receive` whole: the receiver's half, the sender's half, `push`, the
reply that `need_send_` asks for (`NeedsReply`), and the end of lingering (`Lingers`); `Active` is the rule by which a side is
through. `OnWire` is the TCP header: it has one RST flag for the two halves of a message.

**`TCPConnection`** composes two peers, one that connects and one that listens, with a network. A segment is in
transit from the moment it is transmitted until it arrives; segments overtake one another freely, and
each may be lost (`LossyFdAdapter::write`, `Take`), read and then dropped (`DroppedOnRead`), arrive and stay to arrive again
(`ArrivesAndRemains`), or be late, which is: a timer runs out while it is in transit. Each of these is a *fault*, and
so is a reset from a host outside (`ResetArrives`); `MaxFaults` bounds them. The owner's calls follow the interests of the rules of
`TCPMinnowSocket`: it writes and closes only after the handshake and while there is room, and reads any part of what is
there. Both clocks advance together. With clocks that drift apart without bound a side could stop
lingering while the other has not even begun to retransmit: ten timeouts of lingering suppose
clocks of about the same speed. The filter of a listening adapter (`tcp_over_ip.cc`, lines 54 to 64) is `Filtered`. Headers and addresses are left out here: that
they change nothing is proved (section 6).
`ReliableStream` is what each direction promises, and both are checked as refinements at once.

**`NetworkInterface`** has one field per member and one operator per method. Points in time are kept as the
time that is left, which is all that is compared, so the instances need no bound on time. Two
conversions are modelled by what they do: parsing an IPv4 header puts a new checksum into it, and
an ARP message that is not supported is parsed as zeros. `NetworkInterfaceSpec` is a segment with hosts: a frame
is heard by all of them, frames are lost, delayed and reordered, a device broadcasts an ARP message
of an unknown kind, and a host is replaced by one with another Ethernet address.

**`Router`** keeps the trie as a function from prefixes (the nodes) to routes. `AddRoute` makes the path, `Lookup` runs one pass
of the search (`Down`) for each bit of the destination. `Route` has the two loops of the code, over the interfaces (`RoutePass`) and over
what each has received (`ServePass`), and sends through the interfaces' `SendDatagram`.
`RouterSpec` adds routes, lets datagrams arrive and neighbours answer at any time.

**`TCPOverIP`** is the datagram adapter with the TCP header. `SerializeSegment` and `ParseSegment` are the header both ways: one RST flag for
two, and a flag for the ackno that may be absent. `ForUs` is the filter, `Meets` what a listening adapter makes of its
first caller, `ReadDatagram` a read of the TUN device. A checksum is a flag that says whether it matches.

**`FileDescriptor`** is `read`, `write` and `shutdown` on non-blocking descriptors, over one-way channels that belong to the
kernel: what `poll` finds at each kind of descriptor is part of the environment, as Linux has it. A write takes any
part of what is offered, a write to a channel that is shut is fatal (SIGPIPE, which nothing handles).

**`EventLoop`** is `wait_next_event` for rules on descriptors, with the callbacks as parameters. It is split where the code lets
the rest of the world in: `SetUp` is what comes before `poll` (cancelled and finished rules erased, interests asked), `Reported` the answer,
and `PollPass` what comes after (errors, hangups, and the one callback), of an answer that may be old by then. Rules are only ever
erased, so the list of them is the set of the numbers of those left, gone through in order (`MaxRules`, as many as any
program here adds, unrolls the two loops). Rules without a
descriptor and `RuleHandle::cancel`, which no program of the repository uses, are left out.

**`MinnowSocket`** instantiates the loop with the three rules of `_initialize_TCP`, around a `TCPPeer`. Actions of the thread: `Connect`,
`ListenAndAccept`; `Poll` (up to the answer); `Timeout`; `ServeNetwork`, `ServeFromOwner`, `ServeToOwner` and `ServeNone`, each a callback with all that
`_tcp_loop` does after it (`Continue`: the abort flag, the tick, the condition); `Exit`. `Condition` is what `connect`, `listen_and_accept` and
`_tcp_main` go on for, `Leave` what each does at the end. `Killed` is a write of the thread that fails. Between `Poll` and the callback the owner, the
remote host and the clock take steps. The owner writes, reads, shuts down its direction, and then does one of three
things: it waits until closed at end of file (`WaitUntilClosed`, as `tcp_ipv4` and `endtoend` do), before it (`WaitUntilClosedEarly`, as
`web_server` does), or destroys the socket (`Destruct`). The remote host sends its stream in any cut within the window, acknowledges what it has
heard, or resets, or says nothing more at any time; strange and damaged datagrams arrive that would be taken but for one
check each (`Strays`). `MinnowSocketSpec` has the properties.

**`StreamCopy`** instantiates the same loop with the four rules of `bidirectional_stream_copy`. Standard input is a pipe or a file; the reader
of standard output, the writer of standard input and the thread of the connection go on, end or leave at any time.

## 4. The runs

| Run | Shows | Bounds |
|---|---|---|
| `sender` | ten properties of the sender, below | 3 bytes, payload 2, so a stream takes SYN, full and short segments and FIN; a 10-valued word; windows closed, tiny and large; a tick below and one above the timeout; one retransmission before giving up; 3 duplicates, which set off a fast retransmission |
| `receiver` | the reassembler implements the abstract set; acknowledgments are exact, room is never taken back | 12 bytes, so 14 positions of a 12-valued word; capacity 5, more than the largest window 3, in a ring of 6 slots that the front goes around |
| `connection` | five properties of a connection, below | 2 bytes from the client, a close from both sides, one fault of any kind; 2 segments in transit to a side; windows of 2 in a buffer of 3; one retransmission, lingering for two timeouts |
| `connection_live` | the connection ends cleanly on both sides with everything read | 1 byte, one fault; the bounds on segments in transit and on duplicates are never reached, so they disable nothing |
| `interface` | seven properties of address resolution, below | 3 hosts, 3 datagrams between two of them, one fault; mappings of 3 ticks, requests of 2 |
| `router` | the trie finds the longest match; datagrams follow it, one hop each | addresses of 2 bits: all prefixes, every table of 2 routes in every order, with and without a next hop; 2 datagrams |
| `socket` | five properties of a socket from its first call to the end of its thread, below | 2 bytes each way; a pair that holds one byte, so that most writes are partial and every later one waits; inbound buffer 2, outbound 1; one datagram waits to be read; one strange datagram; a reset; both modes |
| `copy` | four properties of the copy, below | 3 bytes each way, streams of 3, channels of 1; standard input a pipe and a file |
| `forwarded_checksum` | **violated** by the code: see findings | one route, one datagram |
| `timeout_halves` | **violated** by the code: see findings | as `sender`, with a congestion window larger than what is sent |
| `fast_recovery` | **violated** by the code: see findings | as `sender` |
| `socket_reset` | **violated** by the code: see findings | as `socket` |

The sender's properties: types (`TypeOK`); the queue tiles what is in flight (`QueueTilesFlight`) and holds exactly what is not
acknowledged (`QueueIsUnacknowledged`); the timer runs only over a queue with something in it, so the unguarded
`front()` in `tick` is safe (`TimerGuardsQueue`); positions account for SYN, bytes and FIN (`StreamPosition`) and each segment carries
the bytes of its position (`SegmentsCarryTheStream`); the timeout is the initial one doubled once per counted timeout, however long
acknowledgments take (`Backoff`; section 5 has what the repository claims of it); new data stays within both windows (`NewDataInWindow`); `push` never leaves data behind with nothing in flight
(`PushNeverStalls`); and what is in flight is acknowledged or given up (`FlightResolves`).

The receiver's properties: known intervals are apart (`IntervalsApart`), what is counted as pending is what the ring holds
(`PendingIsKept`), the reassembler implements `StreamReassembly` (`KeepsPromise`), the ackno is the first gap of all that arrived
(`AckIsFirstGap`), and neither it nor the end of the window moves back (`WindowNeverRetreats`).

The connection's properties: each owner reads what the other one wrote (`ReaderSeesTheStream`); what a sender takes to be acknowledged
is in the other side's stream (`AckedIsDelivered`), across two wrapped sequence spaces; a side that ends without an error has
sent and received everything (`CleanCloseIsComplete`); the side that leaves without lingering is not missed
(`EarlyLeaverIsNotMissed`); each direction implements `ReliableStream`
(`StreamsAreReliable`). That a connection *ends* is `EndsCleanly`. It holds as long as retransmission makes up for what is lost: when
more is lost in a row than the lingering covers, one side ends with an error, in the code as in the model.

The interface's properties: nothing waits for an address that is known (`NothingWaitsForTheKnown`); datagrams to one address go once and in
order (`InOrderAndOnce`) and reach only that host (`ReachesTheAddressed`); a mapping that has become false is gone after `MAPPING_TTL` (`StaleMappingExpires`);
requests are not repeated too soon, and are once they may be, by the next datagram to an address that is still unknown
(`RequestsAreThrottled`); a datagram is given up only after its request was out for that long
(`GivenUpOnlyUnanswered`); and whatever was lost before, what waits is sent once a request is under way and nothing more goes wrong
(`WaitingEnds`). The last two together are the retry: a lost request is made up for, though only when a datagram is sent. A datagram that waits is given up when the *next* one
for its address is sent, not by the clock: an answer that comes later than five seconds still releases it.

The router's: `LookupIsLongestMatch` for every address in every state; a datagram stays with the route it had when it was
routed (`FollowsItsRoute`); each routing takes all that has arrived, makes one hop with one hop less of each, and a datagram that
cannot go on does not hold up others (`RoutesAll`).

The socket's: no byte is lost, repeated or misplaced between the owner and the peer, whatever part of them a
read or write takes and whatever else the device delivers (`NothingIsLostBetween`); the owner reads end of file only after the
last byte, or after a failure (`EofIsTheEnd`); a thread that ends without a failure and without its owner's abandon has passed on
everything both ways, and the remote host has heard it (`CleanEndIsComplete`); a write of the thread fails only after a reset or
for an owner that does not wait for the end (`DiesOnlyOfCutting`); and whoever joins the thread comes back (`JoinReturns`): always at end of file and in the
destructor, before end of file only once the remote host has ended its stream. That condition is needed: the
thread of an owner like the web server's goes on for as long as a silent client keeps its side open.

The copy's: no byte is lost, repeated or misplaced (`CopyKeepsAll`); a copy that returns although both ends are still there is
complete, and both have been told (`ReturnIsComplete`); it fails only because someone it writes to went away, never by
a write to what it has shut itself or by the busy-wait check of the loop (`FailsOnlyOfOthers`); and once standard input has
ended, or the connection has, it returns (`CopyEnds`).

*Deadlock* is not checked where the system may stop: a sender that has given up or used up the bounds, a
receiver after a reset, two peers that are through, a socket that is closed, a copy that has returned. The interfaces
and the router are checked for it.

*Environment.* A sender gets every acknowledgment that fits the message, sensible or not. A receiver gets
segments of one stream (a peer that sends two different bytes for the same position, or two different ends, is outside the
model) that are not delayed by half of the sequence numbers or more, as TCP presumes; for the position exactly half a
word away, of which `unwrap` has two candidates, there is `UnwrapClosest` (section 6). Of the hosts on
the segment each keeps its address: the one that replaces another has its address and a new Ethernet address. Owners of `TCPConnection` never
write more than fits and never after the close, as rule 2 of the socket guarantees. The remote host of the socket hears what
is sent to it at once and in order: losses and reordering are the subject of `connection`.

*Fairness.* `sender` assumes weak fairness of `DoTick` only: `_tcp_loop` waits at most 10 ms for an event
and reports the time after each while the peer is active. Nothing is assumed of the network. The
antecedent, that the peer does not close its window again and again, is needed: a closed window is
probed for ever, by design (`tcp_sender.cc`, line 211). `connection_live` assumes only that while something is there to be done (an
owner to close or to read, a segment in transit, time that matters) something happens; no action is
favoured over another. The threads of both ends poll in a loop, and the owners of the claim close and
read. `interface` assumes that frames on their way leave it: they arrive, or are lost, which is a fault. `socket` assumes that the thread is
scheduled while an event waits to be served or `poll` has something to return, and that time passes; nothing of the owner
and nothing of the remote host. `ThreadReady` spells out when a step of the thread is possible, so that TLC need not
evaluate ENABLED over the loop. `copy` assumes the same of its loop, that someone reads its output or leaves, that the connection's thread
reads until it ends, and that the stream of the peer ends; standard input may stay silent for ever. Both have finitely many
bytes: nothing in the loop prevents a first rule that is always ready from starving the ones behind it.

## 5. Findings

* `TimeoutHalvesFlight`: `tests/congestion_control.cc` expects a timeout to set `ssthresh` to half of the data in flight;
  the code takes half of the congestion window, which is far larger when the application is slow. The file has both
  readings: line 89 halves what is in flight, line 36, with one segment in flight, the window.
* `FastRecoveryEnds`: the README claims Reno's fast recovery; the code inflates the window on duplicates and
  nothing deflates it when new data is acknowledged.
* `ForwardedChecksumMatches`: the README claims checksum computation for forwarding, and `tests/router.cc` expects the TTL to be
  decremented and the checksum computed anew; `Router::route` only does the former, so every frame with a forwarded
  datagram has a wrong header checksum. The test passes because the next `NetworkInterface` ignores the parser's
  verdict, and parsing leaves the right checksum in the header it hands up; other hosts drop such frames.
* `ThreadSurvives`: after a reset, rule 3 of the socket shuts the owner's direction even if the write just before took only a
  part of the buffer. The rule is still interested, and its next event writes to a direction that is shut: the
  process dies of SIGPIPE. It takes a reset while the owner reads slowly. The same happens to an owner that shuts both
  directions itself, without having read end of file, while the thread is about to write.

Three more disagreements have no run. `README.md` (line 34) and `README_EN.md` (line 28) say that the retransmission
timeout is adapted to an estimate of the round-trip time. `tcp_sender.cc` measures no round trip: the timeout is `initial_RTO_ms_`
until it expires, is doubled with each timeout that is counted (line 212) and goes back to `initial_RTO_ms_` with each new acknowledgment;
`Backoff` says exactly this, and `BackoffKept` proves it for every initial timeout. `tcp_minnow_socket.hh` (lines 34, 117 and 118) says that a socket that is destroyed sends
a reset; the destructor (`tcp_minnow_socket_impl.hh`, lines 189 to 202) only stops the thread, and the remote host
is told nothing. `web_server.cc` (line 211) writes its response with one call and does not look at how much of
it was taken: a response larger than the room in the socket pair is cut, and the client sees a clean end. The
socket's properties do not show this, as they count what the pair took.

## 6. Proofs

`TCPPeerProofs`: for every even word size, zero point and checkpoint, a position within half a word
survives `wrap` and `unwrap` (`UnwrapRoundTrip`), and the answer of `unwrap` has the given number and no position that has it is
closer to the checkpoint (`UnwrapClosest`). The argument: all such positions are whole words apart, and the code tries the one below
and the one above. `Iterate` is well defined and keeps every invariant of its pass.

`TCPPeerProofs` further, and `TCPSenderSpecProofs`: for all constants that satisfy the named assumptions (payload and timeout positive, initial congestion window larger
than a payload, largest window below half a word), `Spec` implies always `TypeOK`, `QueueTilesFlight`,
`QueueIsUnacknowledged`, `TimerGuardsQueue`, `StreamPosition` and `CongestionWindowFloor` (the congestion window keeps room for one payload, which no
run checks separately). These are not inductive by themselves: the code only keeps the
position of a segment modulo the word size, so nothing in the state says that two queue entries are
not a whole word apart. The inductive invariant `Inv` therefore has a witness `pos`, the absolute
position of each entry (`Layout`), bounds the flight by the largest window, so that all of the queue lies
within half a word of `next_seqno`, and locates the acknowledged position in the first entry (`Settled`). It
further says that until the SYN is sent the congestion window is larger than a payload (`Window`): this
is what keeps silly window avoidance from losing the SYN, whose flag is set before it may leave the
loop. Each method has a lemma (in `TCPPeerProofs`) that it preserves the invariant, the loops through `IterateInvariant`; `InitInv` and
`NextInv` combine them.

From the same assumptions, `SegmentsCarryTheStream` always holds, and every step is one that
`NewDataInWindow` and `PushNeverStalls` allow. The invariant is `Inv` with `Carries`: the buffer holds the bytes that come next,
and each queued segment is `Placed`, it has the SYN, the bytes and the FIN of the position that its number unwraps to. `receive` and `tick`
move nothing to another place (`SamePlace`). For `push`, which moves the checkpoint of `unwrap`, `SentPositions` shows that the old
segments keep their positions and the new one gets `next_seqno`, and `NothingToSend` that nothing follows the FIN. The loop
of `push` stays in `Reached`: either nothing was sent or the flight is within the effective window, and the loop has been left only
with something in flight or nothing to send; each pass but the last puts more in flight, so `PushLeavesLoop` shows that it is left within
`MAX_WINDOW + 1` passes, which is also why `Push` may stop iterating there.
Of the same invariant is `Backed`, that the timeout is the first one doubled once per counted timeout and that the count
passes the limit only in error (`BackoffKept`). Doubling is said with `Iterate`, as powers are beyond the provers.

`TCPPeerProofs` and `TCPReceiverSpecProofs`: for every capacity, length of the stream, initial number and word size, `Spec` implies always
`IntervalsApart`, and `WindowNeverRetreats`. Within a call the map is not always beyond a gap: an interval may begin where the output ends.
A map is therefore `Tidy` for a lower and an upper bound, and `Ordered(out, gap)` holds the Reassemblers that a call may make from one
with the output `out`, whose map begins `gap` numbers behind what is written; between calls the gap is 1
(`ReceiverInv`), within them 0. The merging loop keeps what is left of the map away from where merging began and ends with
nothing that touches the grown interval (`MergeSettles`, by counting the intervals), so the map is in order with it (`AddIntervalTidy`); one
pass of the flushing loop restores the gap (`FlushPassStep`), as what is written cannot touch the rest. Clipping at the capacity is
what makes all that is flushed fit into the output. The window follows from `Onward`: no call of the
Reassembler pops, and none takes back what is written.

For the same constants, every step of `Spec` is one of `StreamReassembly` (`PromiseKept`), the count of pending
bytes is that of the map and the ring holds the bytes that the map says it holds (`PendingSafe`), and the acknowledgment names the first gap of
all that arrived (`AckSafe`). What a Reassembler has is `Known`: the bytes already written, and those that its
map covers. It is `Faithful` if the output is a prefix of the stream, every slot of a covered index has the byte of this
index, and the count is the size of the cover. That a slot belongs to one index only is arithmetic: all that is covered fits into the
capacity, so that two indices in one slot would be a whole ring apart (`SlotDistance`). The merging loop grows an
interval and forgets none (`AddIntervalCovers`), the flushing loop moves the first interval to the output (`FlushFaithful`), so that `insert`
adds to `Known` exactly what arrives within the window (`InsertFaithful`). `UnwrapRoundTrip` shows that the
index of a segment is that of its position, `KeepAliveIsEmpty` that nothing of a keep-alive's octet gets in, not even with
the index 2^64 - 1 that it has at the SYN's number, and `StreamInv` relates `Known` to all that has arrived.

`TCPConnectionProofs`: for every initial sequence number, capacity, window, payload size, timeout, number of faults and of segments in
transit, `Spec` implies always `ReaderSeesTheStream`, `AckedIsDelivered`, `CleanCloseIsComplete` and `EarlyLeaverIsNotMissed`, and it implements
`ReliableStream` in both directions (`StreamsKept`): TCP over a network that loses, repeats, delays and reorders is a reliable stream, also when a
third party resets it. One assumption limits this: each stream, with its SYN and FIN, takes less than half of the
sequence numbers (2^31 in the code). The model's network may keep a segment for as long as the connection lives, and the code has neither a
bound on the life of a segment nor timestamps (RFC 7323): a segment that is late by a whole lap of the numbers is taken for
another, so without that assumption the claims are false. The word size itself is arbitrary, and initial numbers may wrap at
once. `TCPReceiverSpec` is proved for streams of any number of laps, of segments that are not late by half of the numbers.

The five claims are not inductive: they say nothing of what the network still holds. The inductive invariant `ConnectionInv`
says, of each side `s` and the other side `t`:
the sender of `s` is as in its own proofs, and has sent its FIN or waits for an acknowledgment once its owner has closed (`Sending`); what the
receiver of `t` knows was sent by `s`, byte by byte and to the end of its stream (`Heard`); the sender believes no more to be acknowledged than the receiver of `t` would
acknowledge now; each segment on its way carries what belongs at the
position it was made for, however long ago (`OfStream`), and acknowledges a position that its receiver had
reached (`OfReceiver`). Both are said with a witness position, since a segment only has its number modulo the word size; `IndexOfStream` and
`AckUnwraps` show that `unwrap` at the other side finds this position. All of this is kept when a sender or a receiver moves on
(`HeardForward`, `OfStreamForward`, `AckedLater`), which is why old segments stay harmless. `Parting` adds what the early leaver needs: once a side
will not linger, it has the whole inbound stream, and each of its segments on the way that has a FIN also has the
acknowledgment of all, so that the other side cannot come to know the end without knowing that nothing of its own is outstanding.

Each call of `TCPPeer` has a lemma that it is an `Effect`: it moves its own sender and receiver forward, and transmits segments of this
invariant (`PushEffect`, `TickEffect`, `ArrivalEffect`, `ResetEffect`). An `Effect` does not speak of the other side's next
state; `CallsKeep` shows once that any calls of both sides at the same time, and any loss of what they transmitted, keep the invariant. That is the
shape of every step: an owner's call, the clock of both sides, an arrival. `StepKeepsConnection` goes through the actions. Then
`CleanlyEnded` follows from what `Active` tests, and `StreamsStep` says what each step is in the words of the abstract stream.

Of the adapters, for all addresses, ports, numbers and payloads: a message that one adapter wraps is what the adapter
at the other end unwraps (`AdaptersMatch`), a listening adapter takes the first SYN to its port whole and then matches its caller's
(`ListenerMeetsCaller`), and therefore the segments of one peer arrive at the other exactly as `OnWire` has them (`PeersAreJoined`): that is why
`TCPConnection` has neither headers nor addresses.

`NetworkInterfaceProofs`: for any hosts, addresses, times, numbers of datagrams and faults, `Spec` implies always `TypeOK`,
`NothingWaitsForTheKnown`, `StaleMappingExpires`, `ReachesTheAddressed` and `InOrderAndOnce`, and every step is one that
`RequestsAreThrottled` and `GivenUpOnlyUnanswered` allow. The one assumption is that no host has the zero or the broadcast Ethernet address. That no false mapping is used for too long depends
on the frames: one that is under way could teach what was true when it was made. `IInv` therefore says
that all that is under way was made by an interface that still has these addresses (`NetworkOwned`), which
the guard of `Replace` keeps, and that each interface has those of its host (`Identity`). A call is `Sound` if it
transmits only frames that are its own, leaves nothing waiting for a known address, and changes no mapping but to a
true one; `SendSound` and `HearSound` show it of the methods, and `TakeKeeps` that any number of sound calls at once keep `IInv`.
`MailInv` adds the history of what was sent: for each destination it is, in this order, what the interface transmitted and what still
waits in `pending_datagrams` (`Orderly`), as `send_datagram` transmits at once only when nothing waits and an answer transmits all that
waits from the front. A datagram can go to a wrong host only while a mapping is false, and then the address was
replaced (`CachesHarmless`, `FramesHarmless`). A call is `Timed` if each request it transmits leaves its time with the
destination (and `SendRequests` shows that one is made as soon as that time is over), and `Dutiful` if it drops nothing that waits but by `tick`, after the answer has been missing for `ARP_REQUEST_TTL`.

`RouterProofs`: for addresses of any number of bits, any interfaces, neighbours, routes and datagrams, `Spec` implies always
`LookupIsLongestMatch` and `FollowsItsRoute`, and every step is one that `RoutesAll` allows. Assumed is that different addresses
have different Ethernet addresses, and, as in the model, that routes name interfaces that exist and the owner has given the next hops. For the trie, `Records` says
that with each node its path is there, and that the route at a node is the last one added for its prefix, none if there was none:
`AddRouteRecords` shows that a further route keeps this, the nodes made on the way included. A walk that has come to the n-th bit has met
the route of the longest of the first n prefixes (`BestUpTo`), and where the trie ends no longer prefix has a route, as its path would be there (`LookupFinds`).
For the forwarding, `UnderWay` holds what the interfaces may have become in the middle of a call: what any of them keeps or has transmitted
was there before or is one of the received datagrams, one hop on, at the interface and for the next hop of its route; and each received
datagram is still to be taken, has no route or no hop left, or is `Cared` for. `DatagramStep` shows that the next datagram keeps this whatever
`send_datagram` does with it: a datagram that waits for an answer cannot be given up by a later one within the same call, since the request is still out.
The loops follow by counting what is left (`ServeFacts`, `RouteFacts`). The inductive invariant `IInv` says in addition that no
interface knows a wrong mapping, that what is received has not been routed, and that what waits or has left is where its route led.

`StreamCopyProofs`: for streams and channels of any sizes, any lengths of what is copied and either kind of standard input, `Spec` implies
always `CopyKeepsAll`, `ReturnIsComplete` and `FailsOnlyOfOthers`, and the busy-wait check of the loop never throws. `InOrder` says that
what comes of each direction, in the order of its bytes, is what the reader has, what is in the second channel, in the byte stream, in the first channel: as
these are one run of numbers, no step can lose or repeat a byte. The rest is about knowing too late. `Noted` joins the two shutdown flags and
the rules that are left to what has been told; `Told` says that a channel that the copy shut has all of its direction, and that a rule
which was erased had nothing more to do, unless someone it serves has gone. Between the answer of `poll` and the callback
the environment takes any number of steps; `AnswerHolds` says that what `poll` found is still there when the callback runs, since others
only ever add conditions (what can be read stays readable until the copy itself reads, room only grows, a hangup is for good). Hence a callback
that is called reads or writes something, and the check for busy waiting is silent; hence also a hangup that erases a rule means that nobody will
ever take what it writes. `PassKeeps` shows it of the loop, for the four rules at once, and each action has a lemma that
keeps the invariant. The loop itself is proved with its callbacks (`SetUpFacts`, `PassKeeps`).

`MinnowSocketProofs`: for every word size, capacity, window, payload size, timeout, initial number, number of bytes and of datagrams that wait,
connecting or listening, `Spec` implies always `NothingIsLostBetween`, `EofIsTheEnd`, `CleanEndIsComplete` and `DiesOnlyOfCutting`.
Assumed are the bounds of `TCPPeer`; that each stream, with its SYN and FIN, takes less than half of the sequence numbers, as for the
connection; and that a strange datagram comes from another host or port. The inductive invariant `IInv` joins the proofs of
the peer to those of the loop:

* `Joined`: the remote host is not a `TCPPeer` but can be seen as a sender whose data is all acknowledged (`FarSender`), so that
  `Heard`, `OfStream` and the lemmas about the methods of a peer hold of it as they do of the sides of a connection. What it has heard lies between the
  acknowledged and the next position of the local sender.
* `Expected`: each datagram that waits was made by the remote host, from its stream and for a position it had heard, or is one that no adapter takes.
  `MessageTaken` shows that what the adapter makes of it is what `TCPPeer::receive` may be given.
* `Lying`: what lies in the two channels of the pair continues the byte streams, so that what the owner has read, the channel, the inbound stream are one
  run of numbers, and likewise outbound. A partial read or write moves a border in this run and nothing else.
* `Flagged`, `Served`, `Told`, `Through`: the flags agree with the outbound stream and its channel; a rule is dropped only when its channel is shut; the
  owner's inbound direction is shut by the end, by an error, or by an owner that does not wait; and a thread that has ended without
  failure and without abandon has nothing in flight and both streams finished.
* `AnswerHolds`: what `poll` found still holds when the callback runs, whatever owner, remote host and device did in between. This is why the callbacks may
  rely on it without looking again, but for the write of rule 3 after a reset, which is the finding above and one of the cases of `DiesOnlyOfCutting`.

Each callback is a call of the peer, after which it is still in touch with the remote host (`Called`, `CalledHears`), followed by the rest of a
turn of `_tcp_loop`, which `CallKeeps` treats once for all. The steps of the owner (`OwnerKeeps`), of the remote host and of strangers (`DatagramWaits`)
keep the invariant because they only add to what the thread finds. The properties then follow; the last one is part of the invariant.

Only model-checked: liveness, everywhere (fairness and ENABLED are beyond the prover, as is induction over what a recursive
definition computes). The four runs that end in a violation are findings about the code, of which nothing is proved.

## 7. Not modelled

* Conversions and thin wrappers without a state of their own: the byte order of headers, the arithmetic of the Internet checksum, addresses
  and their lookup, random numbers, constructors of descriptors and sockets, datagram and packet sockets, scattered
  reads, opening a TUN or TAP device.
* Of the event loop: rules without a descriptor, `RuleHandle::cancel`, the summary it prints.
* Of the applications: what `web_server` and `webget` say to their peers, option parsing, and the network thread of `endtoend`, which
  strings interfaces, routers and sockets together that are modelled one by one.
* The counters of reads and writes of a descriptor that two threads change (`socket.cc`, lines 99 to 107): a data race
  on two integers that only serve the busy-wait check of a loop that the owner may run.
* Frames that are neither IPv4 nor ARP, on which `recv_frame` asserts; route tables that name an interface that does
  not exist; a second call of `connect` or `listen_and_accept`; logging.
* Widths other than those of sequence numbers and stream indices: 64-bit counters of bytes and
  milliseconds do not wrap in the lifetime of a connection.
