-------------------------------- MODULE Router --------------------------------
(* Router (src/src/router.cc): a binary trie of routes, searched for the     *)
(* longest prefix of a datagram's destination, and the forwarding between    *)
(* the router's interfaces.                                                  *)
EXTENDS NetworkInterface, Iteration, SequencesExt

CONSTANT AddressBits     \* 32: an address is a sequence of so many bits

Bit == {0, 1}

ASSUME RouterAssumption == AddressBits \in Nat \ {0} /\ Ip = [1 .. AddressBits -> Bit]

Prefix == UNION {[1 .. n -> Bit] : n \in 0 .. AddressBits}

\* RouteEntry, whose prefix is its node.  Without a next hop the route leads to
\* a network that the router is attached to.
NoHop   == <<>>
NoRoute == [next_hop |-> NoHop, interface_num |-> 0]

RouteEntry == [next_hop : Ip \cup {NoHop}, interface_num : Nat]

\* trie_root_: the nodes by their prefixes, and the route at each.
EmptyTrie == [node \in {<<>>} |-> NoRoute]

\* interfaces_, counted from 1, and trie_root_.
NewRouter(interfaces) == [interfaces |-> interfaces, trie |-> EmptyTrie]
-----------------------------------------------------------------------------
\* Bug variant: only the last node is made.
AddRoute_NoPath(trie, route_prefix, prefix_length, route) ==
  LET prefix == SubSeq(route_prefix, 1, prefix_length)
  IN  [node \in DOMAIN trie \cup {prefix} |-> IF node = prefix THEN route ELSE trie[node]]

\* The nodes on the path to the prefix are made where there are none, and the
\* route takes the place of an earlier one.
AddRoute(trie, route_prefix, prefix_length, route) ==
  LET prefix == SubSeq(route_prefix, 1, prefix_length)
  IN  [node \in DOMAIN trie \cup Prefixes(prefix) |->
         IF node = prefix THEN route ELSE IF node \in DOMAIN trie THEN trie[node] ELSE NoRoute]

\* On the way down the trie for a destination: current is the node reached,
\* best_match the last route met.
Walk == [current : Prefix, best_match : RouteEntry]

\* One pass of the loop, for the bit below current.
Down(trie, dst, walk) ==
  LET child == Append(walk.current, dst[Len(walk.current) + 1])
  IN  IF Len(walk.current) = AddressBits \/ child \notin DOMAIN trie THEN walk
      ELSE [current |-> child,
            best_match |-> IF trie[child] = NoRoute THEN walk.best_match ELSE trie[child]]

Lookup(trie, dst) ==
  Iterate([walk \in Walk |-> Down(trie, dst, walk)],
          [current |-> <<>>, best_match |-> trie[<<>>]], AddressBits).best_match
-----------------------------------------------------------------------------
(* route                                                                     *)

Expired(dgram) == dgram.ttl <= 1

\* The TTL changes and the checksum does not.
Hopped(dgram) == [dgram EXCEPT !.ttl = @ - 1]

\* Bug variant: the next hop of a route is not used.
NextHop_Destination(route, dgram) == dgram.dst

NextHop(route, dgram) == IF route.next_hop = NoHop THEN dgram.dst ELSE route.next_hop

\* Where a call of route has come to: the interfaces of the router, and what
\* each of them has transmitted.
Routing(ports) == [interfaces : [ports -> Interface], out : [ports -> Seq(Frame)]]

\* Bug variant: the interface is copied, so that what it keeps is lost.
RouteDatagram_OnCopy(trie, done, dgram) ==
  LET route == Lookup(trie, dgram.dst)
      n     == route.interface_num
      sent  == SendDatagram(done.interfaces[n], Hopped(dgram), NextHop(route, dgram))
  IN  IF Expired(dgram) \/ route = NoRoute THEN done
      ELSE [done EXCEPT !.out[n] = @ \o sent.out]

RouteDatagram(trie, done, dgram) ==
  LET route == Lookup(trie, dgram.dst)
      n     == route.interface_num
      sent  == SendDatagram(done.interfaces[n], Hopped(dgram), NextHop(route, dgram))
  IN  IF Expired(dgram) \/ route = NoRoute THEN done
      ELSE [interfaces |-> [done.interfaces EXCEPT ![n] = sent.nic],
            out        |-> [done.out EXCEPT ![n] = @ \o sent.out]]

\* One pass of the inner loop: the first datagram that interface n received.
ServePass(trie, n, done) ==
  IF done.interfaces[n].received = <<>> THEN done
  ELSE RouteDatagram(trie, [done EXCEPT !.interfaces[n].received = Tail(@)],
                     Head(done.interfaces[n].received))

Serve(trie, n, done) ==
  Iterate([d \in Routing(DOMAIN done.interfaces) |-> ServePass(trie, n, d)],
          done, Len(done.interfaces[n].received))

\* One pass of the outer loop: interface n, and then the next one.
RoutePass(trie, at) ==
  IF at.n > Len(at.done.interfaces) THEN at
  ELSE [n |-> at.n + 1, done |-> Serve(trie, at.n, at.done)]

Route(router) ==
  LET ports == DOMAIN router.interfaces
      start == [interfaces |-> router.interfaces, out |-> [n \in ports |-> <<>>]]
      end   == Iterate([at \in [n : Nat, done : Routing(ports)] |-> RoutePass(router.trie, at)],
                       [n |-> 1, done |-> start], Len(router.interfaces)).done
  IN  [router |-> [router EXCEPT !.interfaces = end.interfaces], out |-> end.out]
=============================================================================
