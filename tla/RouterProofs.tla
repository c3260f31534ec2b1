----------------------------- MODULE RouterProofs -----------------------------
(* The router, for every number of address bits, interfaces, routes and      *)
(* datagrams: the trie computes the longest match, each datagram follows the *)
(* route it had, and every call of route takes all that has arrived.         *)
EXTENDS RouterSpec, TLAPS, WellFoundedInduction, SequenceTheorems
-----------------------------------------------------------------------------
(* Loops, as in TCPPeerProofs, of which the router uses nothing else.        *)

\* h records the states of the first n passes of Step from x.
IsRun(h, Step, x, n) == /\ h[0] = x
                        /\ \A i \in 1..n : h[i] = Step[h[i-1]]

(* Induction over the naturals, stated with a set: a set that contains 0 and *)
(* is closed under successor contains every natural number.                  *)
LEMMA NatSetInduction ==
  ASSUME NEW S, 0 \in S, \A n \in Nat : n \in S => n+1 \in S
  PROVE  Nat \subseteq S
<1> DEFINE T == Nat \ S
           R == OpToRel(<, Nat)
<1> SUFFICES ASSUME T # {} PROVE FALSE
  OBVIOUS
<1>1. PICK x \in T : \A y \in T : ~(<<y, x>> \in R)
  <2>1. IsWellFoundedOn(R, Nat)
    BY NatLessThanWellFounded
  <2> HIDE DEF R
  <2> QED BY <2>1, WFMin
<1>2. x \in Nat /\ x # 0 /\ x \notin S
  BY <1>1
<1>3. x-1 \in Nat /\ x-1 < x /\ (x-1)+1 = x
  BY <1>2
<1>4. <<x-1, x>> \in R
  BY <1>2, <1>3 DEF OpToRel
<1>5. x-1 \in S
  BY <1>1, <1>3, <1>4
<1> QED BY <1>2, <1>3, <1>5

(* A loop of n passes has a record of its states, whatever the number n.     *)
LEMMA RunExists ==
  ASSUME NEW S, NEW x \in S, NEW Step, \A s \in S : Step[s] \in S
  PROVE  \A n \in Nat : \E h \in [0..n -> S] : IsRun(h, Step, x, n)
<1> DEFINE G == {n \in Nat : \E h \in [0..n -> S] : IsRun(h, Step, x, n)}
<1>1. 0 \in G
  <2>1. [i \in 0..0 |-> x] \in [0..0 -> S] /\ IsRun([i \in 0..0 |-> x], Step, x, 0)
    BY DEF IsRun
  <2> QED BY <2>1
<1>2. ASSUME NEW n \in Nat, n \in G PROVE n+1 \in G
  <2>1. PICK h \in [0..n -> S] : IsRun(h, Step, x, n)
    BY <1>2
  <2> DEFINE k == [i \in 0..n+1 |-> IF i = n+1 THEN Step[h[n]] ELSE h[i]]
  <2>2. k \in [0..n+1 -> S]
    BY <2>1
  <2>3. IsRun(k, Step, x, n+1)
    <3>1. k[0] = x
      BY <2>1 DEF IsRun
    <3>2. ASSUME NEW i \in 1..n+1 PROVE k[i] = Step[k[i-1]]
      <4>1. CASE i = n+1
        BY <4>1
      <4>2. CASE i # n+1
        <5>1. i \in 1..n /\ i \in 0..n+1 /\ i-1 \in 0..n+1 /\ i-1 # n+1
          BY <4>2
        <5> QED BY <5>1, <4>2, <2>1 DEF IsRun
      <4> QED BY <4>1, <4>2
    <3> HIDE DEF k
    <3> QED BY <3>1, <3>2 DEF IsRun
  <2>4. n+1 \in Nat
    OBVIOUS
  <2> HIDE DEF k
  <2> QED BY <2>2, <2>3, <2>4
<1> HIDE DEF G
<1>3. Nat \subseteq G
  BY <1>1, <1>2, NatSetInduction
<1> QED BY <1>3 DEF G

(* Two records of the same loop agree wherever both are defined.             *)
LEMMA RunUnique ==
  ASSUME NEW S, NEW x \in S, NEW Step,
         NEW n \in Nat, NEW m \in Nat,
         NEW h \in [0..n -> S], IsRun(h, Step, x, n),
         NEW k \in [0..m -> S], IsRun(k, Step, x, m)
  PROVE  \A i \in Nat : (i <= n /\ i <= m) => h[i] = k[i]
<1> DEFINE G == {i \in Nat : (i <= n /\ i <= m) => h[i] = k[i]}
<1>1. 0 \in G
  BY DEF IsRun
<1>2. ASSUME NEW i \in Nat, i \in G PROVE i+1 \in G
  <2> SUFFICES ASSUME i+1 <= n, i+1 <= m PROVE h[i+1] = k[i+1]
    OBVIOUS
  <2>1. i+1 \in 1..n /\ i+1 \in 1..m /\ (i+1)-1 = i
    OBVIOUS
  <2>2. h[i] = k[i]
    BY <1>2
  <2>3. h[i+1] = Step[h[i]] /\ k[i+1] = Step[k[i]]
    BY <2>1 DEF IsRun
  <2> QED BY <2>2, <2>3
<1> HIDE DEF G
<1>3. Nat \subseteq G
  BY <1>1, <1>2, NatSetInduction
<1> QED BY <1>3 DEF G

(* What Iterate computes: x after no pass, Step of the previous state after  *)
(* one pass more; and it stays in the set of states.                         *)
LEMMA IterateDef ==
  ASSUME NEW S, NEW x \in S, NEW Step, \A s \in S : Step[s] \in S
  PROVE  /\ Iterate(Step, x, 0) = x
         /\ \A n \in Nat : Iterate(Step, x, n+1) = Step[Iterate(Step, x, n)]
         /\ \A n \in Nat : Iterate(Step, x, n) \in S
<1> DEFINE Run(n) == CHOOSE h \in [0..n -> S] : IsRun(h, Step, x, n)
           g == [n \in Nat |-> Run(n)[n]]
           IsIterate(f) == f = [i \in Nat |-> IF i = 0 THEN x ELSE Step[f[i-1]]]
<1>1. \A n \in Nat : Run(n) \in [0..n -> S] /\ IsRun(Run(n), Step, x, n)
  BY RunExists
<1>2. \A n \in Nat : g[n] \in S
  <2> TAKE n \in Nat
  <2>1. n \in 0..n /\ g[n] = Run(n)[n]
    OBVIOUS
  <2>2. Run(n) \in [0..n -> S]
    BY <1>1
  <2> HIDE DEF Run, g
  <2> QED BY <2>1, <2>2
<1>3. g[0] = x
  BY <1>1 DEF IsRun
<1>4. ASSUME NEW n \in Nat PROVE g[n+1] = Step[g[n]]
  <2>1. n+1 \in Nat /\ n+1 \in 1..n+1 /\ (n+1)-1 = n /\ n <= n /\ n <= n+1
    OBVIOUS
  <2>2. Run(n+1)[n+1] = Step[Run(n+1)[n]]
    <3>1. IsRun(Run(n+1), Step, x, n+1)
      BY <1>1, <2>1
    <3> HIDE DEF Run
    <3> QED BY <2>1, <3>1 DEF IsRun
  <2>3. Run(n+1)[n] = Run(n)[n]
    <3>1. /\ Run(n) \in [0..n -> S] /\ IsRun(Run(n), Step, x, n)
          /\ Run(n+1) \in [0..n+1 -> S] /\ IsRun(Run(n+1), Step, x, n+1)
      BY <1>1, <2>1
    <3> HIDE DEF Run
    <3> QED BY <3>1, <2>1, RunUnique
  <2> QED BY <2>1, <2>2, <2>3
<1>5. IsIterate(g)
  <2>1. ASSUME NEW n \in Nat PROVE g[n] = IF n = 0 THEN x ELSE Step[g[n-1]]
    <3>1. CASE n = 0
      BY <1>3, <3>1
    <3>2. CASE n # 0
      <4>1. n-1 \in Nat /\ (n-1)+1 = n
        BY <3>2
      <4> HIDE DEF g
      <4> QED BY <4>1, <1>4, <3>2
    <3> QED BY <3>1, <3>2
  <2> HIDE DEF Run
  <2> QED BY <2>1
<1> DEFINE c == CHOOSE f : IsIterate(f)
<1>6. IsIterate(c)
  <2> HIDE DEF IsIterate, g
  <2> QED BY <1>5
<1>7. \A n \in Nat : c[n] = g[n]
  <2> DEFINE G == {n \in Nat : c[n] = g[n]}
  <2>1. 0 \in G
    <3>1. c[0] = x
      <4> HIDE DEF c
      <4> QED BY <1>6
    <3> HIDE DEF c, g
    <3> QED BY <3>1, <1>3
  <2>2. ASSUME NEW n \in Nat, n \in G PROVE n+1 \in G
    <3>1. n+1 \in Nat /\ n+1 # 0 /\ (n+1)-1 = n
      OBVIOUS
    <3>2. c[n+1] = Step[c[n]]
      <4> HIDE DEF c
      <4> QED BY <1>6, <3>1
    <3>3. c[n] = g[n]
      BY <2>2
    <3> HIDE DEF c, g
    <3> QED BY <3>1, <3>2, <3>3, <1>4
  <2> HIDE DEF G
  <2>3. Nat \subseteq G
    BY <2>1, <2>2, NatSetInduction
  <2> QED BY <2>3 DEF G
<1>8. \A n \in Nat : Iterate(Step, x, n) = c[n]
  BY DEF Iterate
<1> HIDE DEF c, g
<1>9. 0 \in Nat /\ \A n \in Nat : n+1 \in Nat
  OBVIOUS
<1> QED BY <1>2, <1>3, <1>4, <1>7, <1>8, <1>9

(* The loop-invariant rule: a set of states that contains the first one and  *)
(* that one pass does not leave contains the state after any number of them. *)
LEMMA IterateInvariant ==
  ASSUME NEW Inv, NEW x \in Inv, NEW Step, \A s \in Inv : Step[s] \in Inv
  PROVE  \A n \in Nat : Iterate(Step, x, n) \in Inv
BY IterateDef
-----------------------------------------------------------------------------
(* Addresses and their prefixes.                                             *)

LEMMA PrefixSeq ==
  ASSUME NEW p
  PROVE  p \in Prefix <=> p \in Seq(Bit) /\ Len(p) <= AddressBits
<1>1. ASSUME p \in Prefix PROVE p \in Seq(Bit) /\ Len(p) <= AddressBits
  BY <1>1, RouterAssumption DEF Prefix
<1>2. ASSUME p \in Seq(Bit), Len(p) <= AddressBits PROVE p \in Prefix
  <2>1. Len(p) \in 0 .. AddressBits /\ p \in [1 .. Len(p) -> Bit]
    BY <1>2, RouterAssumption
  <2> QED BY <2>1 DEF Prefix
<1> QED BY <1>1, <1>2

\* The first k bits.
Cut(p, k) == SubSeq(p, 1, k)

LEMMA CutFacts ==
  ASSUME NEW p \in Prefix, NEW k \in 0 .. Len(p)
  PROVE  /\ Cut(p, k) \in Prefix /\ Len(Cut(p, k)) = k
         /\ \A i \in 1 .. k : Cut(p, k)[i] = p[i]
         /\ \A j \in 0 .. k : Cut(Cut(p, k), j) = Cut(p, j)
         /\ Cut(p, Len(p)) = p
<1>1. p \in Seq(Bit) /\ Len(p) <= AddressBits /\ AddressBits \in Nat
  BY PrefixSeq, RouterAssumption
<1>2. Cut(p, k) \in Seq(Bit) /\ Len(Cut(p, k)) = k /\ \A i \in 1 .. k : Cut(p, k)[i] = p[i]
  BY <1>1 DEF Cut
<1>3. Cut(p, k) \in Prefix
  BY <1>1, <1>2, PrefixSeq
<1>4. ASSUME NEW j \in 0 .. k PROVE Cut(Cut(p, k), j) = Cut(p, j)
  BY <1>1, <1>2 DEF Cut
<1>5. Cut(p, Len(p)) = p
  BY <1>1 DEF Cut
<1> QED BY <1>2, <1>3, <1>4, <1>5

LEMMA AddressFacts ==
  ASSUME NEW dst \in Ip
  PROVE  /\ dst \in Prefix /\ Len(dst) = AddressBits
         /\ Cut(dst, 0) = <<>>
         /\ \A n \in 0 .. AddressBits - 1 : Append(Cut(dst, n), dst[n + 1]) = Cut(dst, n + 1)
<1>1. dst \in Seq(Bit) /\ Len(dst) = AddressBits /\ AddressBits \in Nat
  BY RouterAssumption
<1>2. dst \in Prefix
  BY <1>1, PrefixSeq
<1>3. Cut(dst, 0) = <<>>
  BY <1>1 DEF Cut
<1>4. ASSUME NEW n \in 0 .. AddressBits - 1 PROVE Append(Cut(dst, n), dst[n + 1]) = Cut(dst, n + 1)
  BY <1>1 DEF Cut
<1> QED BY <1>1, <1>2, <1>3, <1>4
-----------------------------------------------------------------------------
(* The trie.                                                                 *)

\* With each node its path is there.
Trie(trie) ==
  /\ trie \in [DOMAIN trie -> RouteEntry]
  /\ DOMAIN trie \subseteq Prefix /\ <<>> \in DOMAIN trie
  /\ \A p \in DOMAIN trie : \A k \in 0 .. Len(p) : Cut(p, k) \in DOMAIN trie

\* The route at a node, if the node is there.
RouteAt(trie, p) == IF p \in DOMAIN trie THEN trie[p] ELSE NoRoute

\* The route r is the one of the longest of the first n prefixes of dst.
BestUpTo(trie, dst, n, r) ==
  \/ r = NoRoute /\ \A k \in 0 .. n : RouteAt(trie, Cut(dst, k)) = NoRoute
  \/ \E k \in 0 .. n : /\ r # NoRoute /\ RouteAt(trie, Cut(dst, k)) = r
                       /\ \A j \in k + 1 .. n : RouteAt(trie, Cut(dst, j)) = NoRoute

(* A pass down the trie looks at one more bit, or has come to the end.       *)
LEMMA DownStep ==
  ASSUME NEW trie, Trie(trie), NEW dst \in Ip, NEW walk \in Walk, NEW n \in 0 .. AddressBits,
         walk.current = Cut(dst, n), walk.current \in DOMAIN trie,
         BestUpTo(trie, dst, n, walk.best_match)
  PROVE  LET next == Down(trie, dst, walk)
         IN  /\ (n = AddressBits \/ Cut(dst, n + 1) \notin DOMAIN trie) => next = walk
             /\ n < AddressBits /\ Cut(dst, n + 1) \in DOMAIN trie =>
                  /\ next \in Walk /\ next.current = Cut(dst, n + 1)
                  /\ BestUpTo(trie, dst, n + 1, next.best_match)
<1>1. dst \in Prefix /\ Len(dst) = AddressBits /\ AddressBits \in Nat
  BY AddressFacts, RouterAssumption
<1>2. Len(walk.current) = n
  BY <1>1, CutFacts
<1>3. n < AddressBits => Append(walk.current, dst[Len(walk.current) + 1]) = Cut(dst, n + 1)
  BY <1>1, <1>2, AddressFacts
<1> DEFINE below == Append(walk.current, dst[Len(walk.current) + 1])
<1>4. Down(trie, dst, walk)
        = IF Len(walk.current) = AddressBits \/ below \notin DOMAIN trie THEN walk
          ELSE [current |-> below,
                best_match |-> IF trie[below] = NoRoute THEN walk.best_match ELSE trie[below]]
  BY DEF Down
<1>5. n < AddressBits => below = Cut(dst, n + 1)
  BY <1>3
<1> HIDE DEF below
<1>6. ASSUME n = AddressBits \/ Cut(dst, n + 1) \notin DOMAIN trie PROVE Down(trie, dst, walk) = walk
  <2>1. CASE n = AddressBits
    BY <1>2, <1>4, <2>1
  <2>2. CASE n # AddressBits
    <3>1. below \notin DOMAIN trie
      BY <1>1, <1>6, <1>5, <2>2
    <3> QED BY <1>4, <3>1
  <2> QED BY <2>1, <2>2
<1>7. ASSUME n < AddressBits, Cut(dst, n + 1) \in DOMAIN trie
      PROVE  LET next == Down(trie, dst, walk)
             IN  /\ next \in Walk /\ next.current = Cut(dst, n + 1)
                 /\ BestUpTo(trie, dst, n + 1, next.best_match)
  <2> DEFINE next == Down(trie, dst, walk)
             child == Cut(dst, n + 1)
  <2>1. next = [current |-> child,
                best_match |-> IF trie[child] = NoRoute THEN walk.best_match ELSE trie[child]]
    <3>1. Len(walk.current) # AddressBits /\ below = child /\ child \in DOMAIN trie
      BY <1>1, <1>2, <1>7, <1>5
    <3> QED BY <1>4, <3>1
  <2>2. child \in Prefix /\ trie[child] \in RouteEntry /\ RouteAt(trie, child) = trie[child]
    BY <1>7 DEF Trie, RouteAt
  <2>3. next \in Walk
    BY <2>1, <2>2 DEF Walk
  <2>4. BestUpTo(trie, dst, n + 1, next.best_match)
    <3>1. CASE trie[child] = NoRoute
      <4>1. next.best_match = walk.best_match /\ RouteAt(trie, Cut(dst, n + 1)) = NoRoute
        BY <2>1, <2>2, <3>1
      <4>2. CASE /\ walk.best_match = NoRoute
                 /\ \A k \in 0 .. n : RouteAt(trie, Cut(dst, k)) = NoRoute
        <5>1. \A k \in 0 .. n + 1 : k \in 0 .. n \/ k = n + 1
          OBVIOUS
        <5> QED BY <4>1, <4>2, <5>1 DEF BestUpTo
      <4>3. CASE \E k \in 0 .. n : /\ walk.best_match # NoRoute
                                   /\ RouteAt(trie, Cut(dst, k)) = walk.best_match
                                   /\ \A j \in k + 1 .. n : RouteAt(trie, Cut(dst, j)) = NoRoute
        <5>1. PICK k \in 0 .. n : /\ walk.best_match # NoRoute
                                  /\ RouteAt(trie, Cut(dst, k)) = walk.best_match
                                  /\ \A j \in k + 1 .. n : RouteAt(trie, Cut(dst, j)) = NoRoute
          BY <4>3
        <5>2. k \in 0 .. n + 1 /\ \A j \in k + 1 .. n + 1 : j \in k + 1 .. n \/ j = n + 1
          OBVIOUS
        <5> QED BY <4>1, <5>1, <5>2 DEF BestUpTo
      <4> QED BY <4>2, <4>3 DEF BestUpTo
    <3>2. CASE trie[child] # NoRoute
      <4>1. next.best_match = trie[child] /\ RouteAt(trie, Cut(dst, n + 1)) = next.best_match
        BY <2>1, <2>2, <3>2
      <4>2. n + 1 \in 0 .. n + 1 /\ (n + 1) + 1 .. n + 1 = {}
        OBVIOUS
      <4> QED BY <3>2, <4>1, <4>2 DEF BestUpTo
    <3> QED BY <3>1, <3>2
  <2> QED BY <2>1, <2>3, <2>4
<1> QED BY <1>6, <1>7

(* The search of a trie finds the route of the longest prefix that has one.  *)
LEMMA LookupFinds ==
  ASSUME NEW trie, Trie(trie), NEW dst \in Ip
  PROVE  Lookup(trie, dst) \in RouteEntry /\ BestUpTo(trie, dst, AddressBits, Lookup(trie, dst))
<1> DEFINE Step == [walk \in Walk |-> Down(trie, dst, walk)]
           start == [current |-> <<>>, best_match |-> trie[<<>>]]
           On(walk, n) == /\ walk.current = Cut(dst, n) /\ walk.current \in DOMAIN trie
                          /\ BestUpTo(trie, dst, n, walk.best_match)
           W == {walk \in Walk : \E n \in 0 .. AddressBits : On(walk, n)}
           At(i) == Iterate(Step, start, i)
<1>1. AddressBits \in Nat /\ dst \in Prefix /\ Len(dst) = AddressBits /\ Cut(dst, 0) = <<>>
  BY AddressFacts, RouterAssumption
<1>2. start \in W /\ On(start, 0)
  <2>1. <<>> \in Prefix /\ <<>> \in DOMAIN trie /\ trie[<<>>] \in RouteEntry
    BY DEF Trie
  <2>2. start \in Walk
    BY <2>1 DEF Walk
  <2>3. RouteAt(trie, Cut(dst, 0)) = trie[<<>>]
    BY <1>1, <2>1 DEF RouteAt
  <2>4. BestUpTo(trie, dst, 0, trie[<<>>])
    <3>1. 0 .. 0 = {0} /\ 0 + 1 .. 0 = {}
      OBVIOUS
    <3> QED BY <2>3, <3>1 DEF BestUpTo
  <2>5. On(start, 0)
    BY <1>1, <2>1, <2>4
  <2>6. 0 \in 0 .. AddressBits
    BY <1>1
  <2> QED BY <2>2, <2>5, <2>6
<1>3. ASSUME NEW walk \in Walk, NEW n \in 0 .. AddressBits, On(walk, n)
      PROVE  \/ Step[walk] = walk /\ (n = AddressBits \/ Cut(dst, n + 1) \notin DOMAIN trie)
             \/ /\ Step[walk] \in Walk /\ n + 1 \in 0 .. AddressBits /\ On(Step[walk], n + 1)
  <2> DEFINE next == Down(trie, dst, walk)
  <2>1. Step[walk] = next
    OBVIOUS
  <2>2. /\ (n = AddressBits \/ Cut(dst, n + 1) \notin DOMAIN trie) => next = walk
        /\ n < AddressBits /\ Cut(dst, n + 1) \in DOMAIN trie =>
             /\ next \in Walk /\ next.current = Cut(dst, n + 1)
             /\ BestUpTo(trie, dst, n + 1, next.best_match)
    BY <1>3, DownStep
  <2> HIDE DEF next, Step
  <2>3. CASE n = AddressBits \/ Cut(dst, n + 1) \notin DOMAIN trie
    BY <2>1, <2>2, <2>3
  <2>4. CASE n # AddressBits /\ Cut(dst, n + 1) \in DOMAIN trie
    <3>1. n < AddressBits /\ n + 1 \in 0 .. AddressBits
      BY <1>1, <2>4
    <3> QED BY <2>1, <2>2, <2>4, <3>1
  <2> QED BY <2>3, <2>4
<1>4. \A walk \in W : Step[walk] \in W
  <2> HIDE DEF Step, On
  <2> QED BY <1>3
<1>5. /\ At(0) = start /\ \A i \in Nat : At(i + 1) = Step[At(i)]
      /\ \A i \in Nat : At(i) \in W
  <2> HIDE DEF Step, W, start
  <2> QED BY SMTT(60), <1>2, <1>4, IterateDef
\* The walk has made all its passes, or the trie goes no further.
<1> DEFINE Done(i) == \E n \in 0 .. AddressBits :
             /\ On(At(i), n) /\ (n >= i \/ Cut(dst, n + 1) \notin DOMAIN trie)
           G == {i \in Nat : i <= AddressBits => Done(i)}
<1> HIDE DEF Step, On, At
<1>6. 0 \in G
  <2>1. On(At(0), 0)
    BY <1>2, <1>5
  <2>2. 0 \in 0 .. AddressBits
    BY <1>1
  <2> QED BY <2>1, <2>2
<1>7. ASSUME NEW i \in Nat, i \in G PROVE i + 1 \in G
  <2> SUFFICES ASSUME i + 1 <= AddressBits PROVE Done(i + 1)
    OBVIOUS
  <2>1. i <= AddressBits
    BY <1>1
  <2>2. PICK n \in 0 .. AddressBits : On(At(i), n) /\ (n >= i \/ Cut(dst, n + 1) \notin DOMAIN trie)
    BY <1>7, <2>1
  <2>3. At(i) \in Walk /\ At(i + 1) = Step[At(i)]
    BY <1>5
  <2>4. \/ At(i + 1) = At(i) /\ (n = AddressBits \/ Cut(dst, n + 1) \notin DOMAIN trie)
        \/ /\ n + 1 \in 0 .. AddressBits /\ On(At(i + 1), n + 1)
           /\ n >= i \/ Cut(dst, n + 1) \notin DOMAIN trie
    BY <1>3, <2>2, <2>3
  <2>5. CASE At(i + 1) = At(i) /\ (n = AddressBits \/ Cut(dst, n + 1) \notin DOMAIN trie)
    <3>1. n >= i + 1 \/ Cut(dst, n + 1) \notin DOMAIN trie
      BY <1>1, <2>5
    <3> QED BY <2>2, <2>5, <3>1
  <2>6. CASE n + 1 \in 0 .. AddressBits /\ On(At(i + 1), n + 1) /\ n >= i
    BY <2>6
  <2>7. CASE Cut(dst, n + 1) \notin DOMAIN trie /\ On(At(i + 1), n + 1)
    BY <2>7 DEF On
  <2> QED BY <2>4, <2>5, <2>6, <2>7
<1>8. Done(AddressBits)
  <2> HIDE DEF G
  <2>1. Nat \subseteq G
    BY <1>6, <1>7, NatSetInduction
  <2> QED BY <1>1, <2>1 DEF G
<1>9. PICK n \in 0 .. AddressBits :
        On(At(AddressBits), n) /\ (n = AddressBits \/ Cut(dst, n + 1) \notin DOMAIN trie)
  BY <1>1, <1>8
<1> DEFINE r == At(AddressBits).best_match
<1>10. Lookup(trie, dst) = r
  BY DEF Lookup, At, Step
<1>11. At(AddressBits) \in Walk /\ BestUpTo(trie, dst, n, r)
  BY <1>1, <1>5, <1>9 DEF On
<1>12. \A k \in n + 1 .. AddressBits : RouteAt(trie, Cut(dst, k)) = NoRoute
  <2> SUFFICES ASSUME NEW k \in n + 1 .. AddressBits, Cut(dst, k) \in DOMAIN trie PROVE FALSE
    BY DEF RouteAt
  <2>1. k \in 0 .. Len(dst) /\ n + 1 \in 0 .. k /\ n # AddressBits
    BY <1>1
  <2>2. Len(Cut(dst, k)) = k /\ Cut(Cut(dst, k), n + 1) = Cut(dst, n + 1)
    BY <1>1, <2>1, CutFacts
  <2>3. Cut(dst, n + 1) \in DOMAIN trie
    BY <2>1, <2>2 DEF Trie
  <2> QED BY <1>9, <2>1, <2>3
<1> HIDE DEF r
<1>13. BestUpTo(trie, dst, AddressBits, r)
  <2>1. CASE r = NoRoute /\ \A k \in 0 .. n : RouteAt(trie, Cut(dst, k)) = NoRoute
    <3>1. \A k \in 0 .. AddressBits : k \in 0 .. n \/ k \in n + 1 .. AddressBits
      BY <1>1
    <3> QED BY <1>12, <2>1, <3>1 DEF BestUpTo
  <2>2. CASE \E k \in 0 .. n : /\ r # NoRoute /\ RouteAt(trie, Cut(dst, k)) = r
                               /\ \A j \in k + 1 .. n : RouteAt(trie, Cut(dst, j)) = NoRoute
    <3>1. PICK k \in 0 .. n : /\ r # NoRoute /\ RouteAt(trie, Cut(dst, k)) = r
                              /\ \A j \in k + 1 .. n : RouteAt(trie, Cut(dst, j)) = NoRoute
      BY <2>2
    <3>2. /\ k \in 0 .. AddressBits
          /\ \A j \in k + 1 .. AddressBits : j \in k + 1 .. n \/ j \in n + 1 .. AddressBits
      BY <1>1
    <3> QED BY <1>12, <3>1, <3>2 DEF BestUpTo
  <2> QED BY <1>11, <2>1, <2>2 DEF BestUpTo
<1> QED BY <1>10, <1>11, <1>13 DEF Walk, r

\* The trie holds the routes rs: at each node the last one that was added for
\* its prefix.
Records(trie, rs) ==
  /\ Trie(trie)
  /\ rs \in Seq([prefix : Prefix, route : RouteEntry \ {NoRoute}])
  /\ \A p \in Prefix :
       \/ /\ RouteAt(trie, p) = NoRoute
          /\ \A i \in 1 .. Len(rs) : rs[i].prefix # p
       \/ \E i \in 1 .. Len(rs) : /\ rs[i].prefix = p /\ rs[i].route = RouteAt(trie, p)
                                  /\ \A j \in i + 1 .. Len(rs) : rs[j].prefix # p

(* Making the path to a prefix forgets no other route.                       *)
LEMMA AddRouteRecords ==
  ASSUME NEW trie, NEW rs, Records(trie, rs), NEW prefix \in Prefix,
         NEW route \in RouteEntry \ {NoRoute}, NEW route_prefix,
         SubSeq(route_prefix, 1, Len(prefix)) = prefix
  PROVE  Records(AddRoute(trie, route_prefix, Len(prefix), route),
                 Append(rs, [prefix |-> prefix, route |-> route]))
<1> DEFINE next == AddRoute(trie, route_prefix, Len(prefix), route)
           new == [prefix |-> prefix, route |-> route]
           added == Append(rs, new)
           Nodes == DOMAIN trie \cup Prefixes(prefix)
<1>1. next = [node \in Nodes |-> IF node = prefix THEN route
                                 ELSE IF node \in DOMAIN trie THEN trie[node] ELSE NoRoute]
  BY DEF AddRoute
<1>2. prefix \in Seq(Bit) /\ Len(prefix) \in Nat
  BY PrefixSeq
<1>3. \A node : node \in Prefixes(prefix) <=> \E k \in 0 .. Len(prefix) : node = Cut(prefix, k)
  BY DEF Prefixes, Cut
<1>4. /\ Prefixes(prefix) \subseteq Prefix
      /\ prefix \in Prefixes(prefix)
      /\ \A node \in Prefixes(prefix) : \A k \in 0 .. Len(node) : Cut(node, k) \in Prefixes(prefix)
  <2>1. ASSUME NEW node \in Prefixes(prefix)
        PROVE  node \in Prefix /\ \A k \in 0 .. Len(node) : Cut(node, k) \in Prefixes(prefix)
    <3>1. PICK k \in 0 .. Len(prefix) : node = Cut(prefix, k)
      BY <1>3
    <3>2. node \in Prefix /\ Len(node) = k /\ \A j \in 0 .. k : Cut(node, j) = Cut(prefix, j)
      BY <3>1, CutFacts
    <3>3. \A j \in 0 .. k : j \in 0 .. Len(prefix)
      BY <1>2
    <3> QED BY <1>3, <3>2, <3>3
  <2>2. prefix = Cut(prefix, Len(prefix)) /\ Len(prefix) \in 0 .. Len(prefix)
    BY <1>2, CutFacts
  <2>3. prefix \in Prefixes(prefix)
    BY <1>3, <2>2
  <2> QED BY <2>1, <2>3
<1>5. Trie(trie)
  BY DEF Records
<1>6. DOMAIN next = Nodes
  BY <1>1
<1>7. NoRoute \in RouteEntry
  BY DEF NoRoute, RouteEntry
<1>8. Trie(next)
  <2>1. next \in [Nodes -> RouteEntry]
    BY <1>1, <1>5, <1>7 DEF Trie
  <2>2. Nodes \subseteq Prefix /\ <<>> \in Nodes
    BY <1>4, <1>5 DEF Trie
  <2>3. \A p \in Nodes : \A k \in 0 .. Len(p) : Cut(p, k) \in Nodes
    BY <1>4, <1>5 DEF Trie
  <2> HIDE DEF next, Nodes
  <2> QED BY <1>6, <2>1, <2>2, <2>3 DEF Trie
<1>9. \A p : RouteAt(next, p) = IF p = prefix THEN route ELSE RouteAt(trie, p)
  <2> TAKE p
  <2>1. CASE p = prefix
    BY <1>1, <1>4, <2>1 DEF RouteAt
  <2>2. CASE p # prefix /\ p \in Nodes
    BY <1>1, <2>2 DEF RouteAt
  <2>3. CASE p # prefix /\ p \notin Nodes
    BY <1>6, <2>3 DEF RouteAt
  <2> QED BY <2>1, <2>2, <2>3
<1> HIDE DEF next
<1>10. rs \in Seq([prefix : Prefix, route : RouteEntry \ {NoRoute}]) /\ Len(rs) \in Nat
  BY DEF Records
<1>11. /\ added \in Seq([prefix : Prefix, route : RouteEntry \ {NoRoute}])
       /\ Len(added) = Len(rs) + 1 /\ added[Len(rs) + 1] = new
       /\ \A i \in 1 .. Len(rs) : added[i] = rs[i]
  <2>1. new \in [prefix : Prefix, route : RouteEntry \ {NoRoute}]
    OBVIOUS
  <2> HIDE DEF new
  <2> QED BY <1>10, <2>1
<1> HIDE DEF added
<1>12. ASSUME NEW p \in Prefix
       PROVE  \/ /\ RouteAt(next, p) = NoRoute
                 /\ \A i \in 1 .. Len(added) : added[i].prefix # p
              \/ \E i \in 1 .. Len(added) :
                   /\ added[i].prefix = p /\ added[i].route = RouteAt(next, p)
                   /\ \A j \in i + 1 .. Len(added) : added[j].prefix # p
  <2>1. CASE p = prefix
    <3>1. Len(rs) + 1 \in 1 .. Len(added) /\ (Len(rs) + 1) + 1 .. Len(added) = {}
      BY <1>10, <1>11
    <3>2. added[Len(rs) + 1].prefix = p /\ added[Len(rs) + 1].route = RouteAt(next, p)
      BY <1>9, <1>11, <2>1
    <3> QED BY <3>1, <3>2
  <2>2. CASE p # prefix
    <3>1. RouteAt(next, p) = RouteAt(trie, p) /\ added[Len(rs) + 1].prefix # p
      BY <1>9, <1>11, <2>2
    <3>2. \A i \in 1 .. Len(added) : i \in 1 .. Len(rs) \/ i = Len(rs) + 1
      BY <1>10, <1>11
    <3>3. CASE RouteAt(trie, p) = NoRoute /\ \A i \in 1 .. Len(rs) : rs[i].prefix # p
      BY <1>11, <3>1, <3>2, <3>3
    <3>4. CASE \E i \in 1 .. Len(rs) : /\ rs[i].prefix = p /\ rs[i].route = RouteAt(trie, p)
                                       /\ \A j \in i + 1 .. Len(rs) : rs[j].prefix # p
      <4>1. PICK i \in 1 .. Len(rs) : /\ rs[i].prefix = p /\ rs[i].route = RouteAt(trie, p)
                                      /\ \A j \in i + 1 .. Len(rs) : rs[j].prefix # p
        BY <3>4
      <4>2. i \in 1 .. Len(added) /\ added[i] = rs[i]
        BY <1>10, <1>11
      <4>3. ASSUME NEW j \in i + 1 .. Len(added) PROVE added[j].prefix # p
        <5>1. CASE j = Len(rs) + 1
          BY <3>1, <5>1
        <5>2. CASE j # Len(rs) + 1
          <6>1. j \in i + 1 .. Len(rs) /\ j \in 1 .. Len(rs)
            BY <1>10, <1>11, <5>2
          <6> QED BY <1>11, <4>1, <6>1
        <5> QED BY <5>1, <5>2
      <4> QED BY <3>1, <4>1, <4>2, <4>3
    <3> QED BY <3>3, <3>4 DEF Records
  <2> QED BY <2>1, <2>2
<1> QED BY <1>8, <1>11, <1>12 DEF Records, added, next, new

(* What the search finds is the longest match of all routes that were added. *)
LEMMA LookupMatches ==
  ASSUME Records(router.trie, routes), NEW dst \in Ip
  PROVE  Lookup(router.trie, dst) = LongestMatch(dst)
<1> DEFINE trie == router.trie
           r == Lookup(trie, dst)
           Longest(i) == \A j \in Matches(dst) :
                           \/ Len(routes[j].prefix) < Len(routes[i].prefix)
                           \/ Len(routes[j].prefix) = Len(routes[i].prefix) /\ j <= i
<1>1. /\ Trie(trie) /\ dst \in Prefix /\ Len(dst) = AddressBits /\ AddressBits \in Nat
      /\ routes \in Seq([prefix : Prefix, route : RouteEntry \ {NoRoute}])
  BY AddressFacts, RouterAssumption DEF Records
<1>2. BestUpTo(trie, dst, AddressBits, r)
  BY <1>1, LookupFinds
<1> DEFINE Known == [prefix : Prefix, route : RouteEntry \ {NoRoute}]
<1>8. \A i \in 1 .. Len(routes) : routes[i].prefix \in Prefix /\ routes[i].route # NoRoute
  <2>1. \A i \in 1 .. Len(routes) : routes[i] \in Known
    <3>1. routes \in Seq(Known)
      BY <1>1
    <3> HIDE DEF Known
    <3> QED BY <3>1
  <2> QED BY <2>1
<1>3. ASSUME NEW j
      PROVE  j \in Matches(dst) <=>
               /\ j \in 1 .. Len(routes) /\ Len(routes[j].prefix) \in 0 .. AddressBits
               /\ routes[j].prefix = Cut(dst, Len(routes[j].prefix))
  <2>1. CASE j \notin 1 .. Len(routes)
    BY <1>1, <2>1 DEF Matches
  <2>2. CASE j \in 1 .. Len(routes)
    <3> DEFINE p == routes[j].prefix
    <3>1. p \in Prefix
      BY <1>8, <2>2
    <3>2. p \in Seq(Bit) /\ Len(p) \in 0 .. AddressBits
      BY <1>1, <3>1, PrefixSeq
    <3>3. SubSeq(p, 1, Len(p)) = p
      BY <3>2
    <3>4. j \in Matches(dst) <=> IsPrefix(p, dst)
      BY <1>1, <2>2 DEF Matches
    <3> HIDE DEF p
    <3>5. IsPrefix(p, dst) <=> p = Cut(dst, Len(p))
      BY <1>1, <3>2, <3>3 DEF IsPrefix, Cut
    <3> QED BY <2>2, <3>2, <3>4, <3>5 DEF p
  <2> QED BY <2>1, <2>2
<1> HIDE DEF r, trie
<1>4. \A k \in 0 .. AddressBits : Cut(dst, k) \in Prefix /\ Len(Cut(dst, k)) = k
  BY <1>1, CutFacts
<1>5. ASSUME NEW k \in 0 .. AddressBits, RouteAt(trie, Cut(dst, k)) = NoRoute, NEW j \in Matches(dst)
      PROVE  Len(routes[j].prefix) # k
  <2>1. \A i \in 1 .. Len(routes) : routes[i].route # NoRoute
    BY <1>8
  <2>2. \A i \in 1 .. Len(routes) : routes[i].prefix # Cut(dst, k)
    BY <1>4, <1>5, <2>1 DEF Records, trie
  <2> QED BY <1>3, <2>2
<1>6. CASE r = NoRoute /\ \A k \in 0 .. AddressBits : RouteAt(trie, Cut(dst, k)) = NoRoute
  <2>1. Matches(dst) = {}
    <3> SUFFICES ASSUME NEW j \in Matches(dst) PROVE FALSE
      OBVIOUS
    <3>1. Len(routes[j].prefix) \in 0 .. AddressBits
      BY <1>3
    <3> QED BY <1>5, <1>6, <3>1
  <2> QED BY <1>6, <2>1 DEF LongestMatch, r, trie
<1>7. CASE \E k \in 0 .. AddressBits :
             /\ r # NoRoute /\ RouteAt(trie, Cut(dst, k)) = r
             /\ \A j \in k + 1 .. AddressBits : RouteAt(trie, Cut(dst, j)) = NoRoute
  <2>1. PICK k \in 0 .. AddressBits :
             /\ r # NoRoute /\ RouteAt(trie, Cut(dst, k)) = r
             /\ \A j \in k + 1 .. AddressBits : RouteAt(trie, Cut(dst, j)) = NoRoute
    BY <1>7
  <2>2. PICK i \in 1 .. Len(routes) :
             /\ routes[i].prefix = Cut(dst, k) /\ routes[i].route = r
             /\ \A j \in i + 1 .. Len(routes) : routes[j].prefix # Cut(dst, k)
    BY <1>4, <2>1 DEF Records, trie
  <2>3. i \in Matches(dst) /\ Len(routes[i].prefix) = k
    BY <1>3, <1>4, <2>2
  <2>4. Longest(i)
    <3> SUFFICES ASSUME NEW j \in Matches(dst)
                 PROVE  \/ Len(routes[j].prefix) < k
                        \/ Len(routes[j].prefix) = k /\ j <= i
      BY <2>3
    <3> DEFINE n == Len(routes[j].prefix)
    <3>1. j \in 1 .. Len(routes) /\ n \in 0 .. AddressBits /\ routes[j].prefix = Cut(dst, n)
      BY <1>3
    <3>2. n \notin k + 1 .. AddressBits
      BY <1>1, <1>5, <2>1
    <3>3. n = k => j \notin i + 1 .. Len(routes)
      BY <2>2, <3>1
    <3> HIDE DEF n
    <3>4. Len(routes) \in Nat
      BY <1>1
    <3>5. n < k \/ (n = k /\ j <= i)
      BY <1>1, <3>1, <3>2, <3>3, <3>4
    <3> QED BY <3>5 DEF n
  <2>5. \A j \in Matches(dst) : Longest(j) => j = i
    <3> SUFFICES ASSUME NEW j \in Matches(dst), Longest(j) PROVE j = i
      OBVIOUS
    <3>1. /\ Len(routes[j].prefix) \in Nat /\ Len(routes[i].prefix) \in Nat
          /\ j \in Nat /\ i \in Nat
      BY <1>1, <1>3, <2>3
    <3>2. \/ Len(routes[j].prefix) < Len(routes[i].prefix)
          \/ Len(routes[j].prefix) = Len(routes[i].prefix) /\ j <= i
      BY <2>4
    <3>3. \/ Len(routes[i].prefix) < Len(routes[j].prefix)
          \/ Len(routes[i].prefix) = Len(routes[j].prefix) /\ i <= j
      BY <2>3
    <3> QED BY <3>1, <3>2, <3>3
  <2>6. (CHOOSE j \in Matches(dst) : Longest(j)) = i
    <3> HIDE DEF Longest
    <3> QED BY <2>3, <2>4, <2>5
  <2>7. LongestMatch(dst) = routes[CHOOSE j \in Matches(dst) : Longest(j)].route
    BY <2>3 DEF LongestMatch
  <2> QED BY <2>2, <2>6, <2>7 DEF r, trie
<1> QED BY <1>2, <1>6, <1>7 DEF BestUpTo
-----------------------------------------------------------------------------
(* What the interfaces do with datagrams.                                    *)

LEMMA InterfaceParts ==
  ASSUME NEW nic \in Interface
  PROVE  /\ nic.ethernet_address \in EthernetAddress /\ nic.ip_address \in Ip
         /\ nic.arp_cache \in [Ip -> Mapping] /\ nic.pending \in [Ip -> Seq(Datagram)]
         /\ nic.request_times \in [Ip -> 0 .. REQUEST_THROTTLE] /\ nic.received \in Seq(Datagram)
BY DEF Interface

\* The interface has other queues, and knows what it knew.
Requeued(nic, next) ==
  /\ next \in Interface
  /\ next.ethernet_address = nic.ethernet_address /\ next.ip_address = nic.ip_address
  /\ next.arp_cache = nic.arp_cache

\* Another queue for an address, and another time for its request.
Queued(nic, ip, queue, time) == [nic EXCEPT !.pending[ip] = queue, !.request_times[ip] = time]

LEMMA QueueReplaced ==
  ASSUME NEW nic \in Interface, NEW ip \in Ip, NEW queue \in Seq(Datagram),
         NEW time \in 0 .. REQUEST_THROTTLE
  PROVE  LET next == Queued(nic, ip, queue, time)
         IN  /\ Requeued(nic, next) /\ next.received = nic.received
             /\ next.pending = [nic.pending EXCEPT ![ip] = queue]
             /\ next.request_times = [nic.request_times EXCEPT ![ip] = time]
<1> DEFINE p == [nic.pending EXCEPT ![ip] = queue]
           t == [nic.request_times EXCEPT ![ip] = time]
           next == [nic EXCEPT !.pending = p, !.request_times = t]
<1>1. p \in [Ip -> Seq(Datagram)] /\ t \in [Ip -> 0 .. REQUEST_THROTTLE]
  BY InterfaceParts
<1>2. Queued(nic, ip, queue, time) = next
  BY DEF Queued, Interface
<1> HIDE DEF p, t
<1>3. /\ next \in Interface
      /\ next.ethernet_address = nic.ethernet_address /\ next.ip_address = nic.ip_address
      /\ next.arp_cache = nic.arp_cache /\ next.received = nic.received
      /\ next.pending = p /\ next.request_times = t
  BY <1>1 DEF Interface
<1> HIDE DEF next
<1> QED BY <1>2, <1>3 DEF Requeued, p, t

LEMMA ReceivedReplaced ==
  ASSUME NEW nic \in Interface, NEW dgrams \in Seq(Datagram)
  PROVE  LET next == [nic EXCEPT !.received = dgrams]
         IN  /\ Requeued(nic, next) /\ next.received = dgrams
             /\ next.pending = nic.pending /\ next.request_times = nic.request_times
BY DEF Interface, Requeued

\* The datagram waits for an answer that is still to come, or is in a frame.
Cared(result, dgram, ip) ==
  \/ dgram \in ToSet(result.nic.pending[ip]) /\ result.nic.request_times[ip] > 0
  \/ \E i \in 1 .. Len(result.out) :
       result.out[i].type = "IPv4" /\ result.out[i].payload = dgram

\* The datagram has been taken care of, no other address touched, and only
\* what waited for too long given up.
Sent(nic, dgram, ip, result) ==
  /\ Requeued(nic, result.nic) /\ result.nic.received = nic.received
  /\ result.out \in Seq(Frame)
  /\ \A hop \in Ip : \A x \in ToSet(result.nic.pending[hop]) :
       x \in ToSet(nic.pending[hop]) \/ (hop = ip /\ x = dgram)
  /\ \A hop \in Ip : nic.request_times[hop] > 0 =>
       /\ result.nic.request_times[hop] > 0
       /\ ToSet(nic.pending[hop]) \subseteq ToSet(result.nic.pending[hop])
  /\ \A i \in 1 .. Len(result.out) : result.out[i].type = "IPv4" =>
       /\ Knows(nic, ip) /\ result.out[i].dst = nic.arp_cache[ip].mac
       /\ result.out[i].payload = dgram
  /\ Cared(result, dgram, ip)

LEMMA SendFacts ==
  ASSUME NEW nic \in Interface, NEW dgram \in Datagram, NEW ip \in Ip
  PROVE  Sent(nic, dgram, ip, SendDatagram(nic, dgram, ip))
<1> DEFINE result == SendDatagram(nic, dgram, ip)
<1>1. /\ nic.pending \in [Ip -> Seq(Datagram)] /\ nic.request_times \in [Ip -> 0 .. REQUEST_THROTTLE]
      /\ nic.ethernet_address \in EthernetAddress /\ nic.ip_address \in Ip
      /\ nic.arp_cache[ip].mac \in EthernetAddress
      /\ REQUEST_THROTTLE \in Nat \ {0}
  BY InterfaceParts, InterfaceAssumption DEF Mapping, NoMapping
<1>2. CASE Knows(nic, ip)
  <2> DEFINE frame == DatagramFrame(nic, dgram, ip)
  <2>1. result = [nic |-> nic, out |-> <<frame>>]
    BY <1>2 DEF SendDatagram
  <2>2. frame \in Frame /\ frame.type = "IPv4" /\ frame.dst = nic.arp_cache[ip].mac /\ frame.payload = dgram
    BY <1>1 DEF DatagramFrame, Frame
  <2> HIDE DEF frame, result
  <2>3. <<frame>> \in Seq(Frame) /\ Len(<<frame>>) = 1 /\ <<frame>>[1] = frame
    BY <2>2
  <2>4. result.nic = nic /\ result.out \in Seq(Frame) /\ Len(result.out) = 1 /\ result.out[1] = frame
    BY <2>1, <2>3
  <2>5. Cared(result, dgram, ip)
    BY <2>2, <2>4 DEF Cared
  <2>6. Requeued(nic, nic)
    BY DEF Requeued
  <2> QED BY <1>2, <2>2, <2>4, <2>5, <2>6 DEF Sent, result
<1>3. CASE ~Knows(nic, ip) /\ nic.request_times[ip] = 0
  <2> DEFINE frame == RequestFrame(nic, ip)
             one == <<dgram>>
             asked == Queued(nic, ip, one, REQUEST_THROTTLE)
  <2>1. result = [nic |-> asked, out |-> <<frame>>]
    BY <1>3 DEF SendDatagram, Ask, Queued
  <2>2. frame \in Frame /\ frame.type = "ARP"
    BY <1>1, InterfaceAssumption DEF RequestFrame, Frame, ARPMessage
  <2>3. one \in Seq(Datagram) /\ ToSet(one) = {dgram} /\ REQUEST_THROTTLE \in 0 .. REQUEST_THROTTLE
    BY <1>1 DEF ToSet
  <2>4. /\ Requeued(nic, asked) /\ asked.received = nic.received
        /\ asked.pending = [nic.pending EXCEPT ![ip] = one]
        /\ asked.request_times = [nic.request_times EXCEPT ![ip] = REQUEST_THROTTLE]
    <3> HIDE DEF one
    <3> QED BY <2>3, QueueReplaced
  <2> HIDE DEF one, frame, asked, result
  <2>5. <<frame>> \in Seq(Frame) /\ Len(<<frame>>) = 1 /\ <<frame>>[1] = frame
    BY <2>2
  <2>6. result.nic = asked /\ result.out \in Seq(Frame) /\ Len(result.out) = 1 /\ result.out[1] = frame
    BY <2>1, <2>5
  <2>7. /\ asked.pending[ip] = one /\ asked.request_times[ip] > 0
        /\ \A hop \in Ip \ {ip} : /\ asked.pending[hop] = nic.pending[hop]
                                  /\ asked.request_times[hop] = nic.request_times[hop]
    BY <1>1, <2>4
  <2>8. Cared(result, dgram, ip)
    BY <2>3, <2>6, <2>7 DEF Cared
  <2>9. \A hop \in Ip : \A x \in ToSet(asked.pending[hop]) :
          x \in ToSet(nic.pending[hop]) \/ (hop = ip /\ x = dgram)
    BY <2>3, <2>7
  <2>10. \A hop \in Ip : nic.request_times[hop] > 0 =>
           asked.request_times[hop] > 0 /\ ToSet(nic.pending[hop]) \subseteq ToSet(asked.pending[hop])
    <3> TAKE hop \in Ip
    <3>1. nic.request_times[hop] > 0 => hop # ip
      BY <1>3
    <3> QED BY <2>7, <3>1
  <2>11. \A i \in 1 .. Len(result.out) : result.out[i].type # "IPv4"
    BY <2>2, <2>6
  <2> QED BY <2>4, <2>6, <2>8, <2>9, <2>10, <2>11 DEF Sent, result
<1>4. CASE ~Knows(nic, ip) /\ nic.request_times[ip] # 0
  <2> DEFINE queue == Append(nic.pending[ip], dgram)
             queued == [nic EXCEPT !.pending[ip] = queue]
             same == Queued(nic, ip, queue, nic.request_times[ip])
  <2>1. result = [nic |-> queued, out |-> <<>>]
    BY <1>4 DEF SendDatagram
  <2>2. /\ queue \in Seq(Datagram)
        /\ \A x \in ToSet(queue) : x \in ToSet(nic.pending[ip]) \/ x = dgram
        /\ ToSet(nic.pending[ip]) \subseteq ToSet(queue) /\ dgram \in ToSet(queue)
    <3>1. nic.pending[ip] \in Seq(Datagram)
      BY <1>1
    <3>2. /\ queue \in Seq(Datagram) /\ Len(queue) = Len(nic.pending[ip]) + 1
          /\ Len(nic.pending[ip]) \in Nat /\ queue[Len(queue)] = dgram
          /\ \A i \in 1 .. Len(nic.pending[ip]) : queue[i] = nic.pending[ip][i]
      BY <3>1
    <3>3. ToSet(queue) = {queue[i] : i \in 1 .. Len(queue)}
      BY SMTT(60), <3>2 DEF ToSet
    <3>4. ToSet(nic.pending[ip]) = {nic.pending[ip][i] : i \in 1 .. Len(nic.pending[ip])}
      BY <3>1 DEF ToSet
    <3> HIDE DEF queue
    <3>5. \A i \in 1 .. Len(queue) : i \in 1 .. Len(nic.pending[ip]) \/ i = Len(queue)
      BY <3>2
    <3>6. \A i \in 1 .. Len(nic.pending[ip]) : i \in 1 .. Len(queue)
      BY <3>2
    <3>7. Len(queue) \in 1 .. Len(queue)
      BY <3>2
    <3> QED BY <3>2, <3>3, <3>4, <3>5, <3>6, <3>7
  <2> HIDE DEF queue
  <2>3. nic.request_times[ip] \in 0 .. REQUEST_THROTTLE /\ nic.request_times[ip] > 0
    BY <1>1, <1>4
  <2>4. /\ Requeued(nic, same) /\ same.received = nic.received
        /\ same.pending = [nic.pending EXCEPT ![ip] = queue]
        /\ same.request_times = [nic.request_times EXCEPT ![ip] = nic.request_times[ip]]
    BY <2>2, <2>3, QueueReplaced
  <2>5. queued = same
    <3>1. [nic.request_times EXCEPT ![ip] = nic.request_times[ip]] = nic.request_times
      BY <1>1
    <3> QED BY <3>1 DEF Interface, Queued
  <2> HIDE DEF queued, same, result
  <2>6. result.nic = same /\ result.out = <<>> /\ result.out \in Seq(Frame) /\ Len(result.out) = 0
    BY <2>1, <2>5
  <2>7. /\ same.pending[ip] = queue
        /\ \A hop \in Ip : same.request_times[hop] = nic.request_times[hop]
        /\ \A hop \in Ip \ {ip} : same.pending[hop] = nic.pending[hop]
    BY <1>1, <2>4
  <2>8. Cared(result, dgram, ip)
    BY <2>2, <2>3, <2>6, <2>7 DEF Cared
  <2>9. \A hop \in Ip : \A x \in ToSet(same.pending[hop]) :
          x \in ToSet(nic.pending[hop]) \/ (hop = ip /\ x = dgram)
    BY <2>2, <2>7
  <2>10. \A hop \in Ip : nic.request_times[hop] > 0 =>
           same.request_times[hop] > 0 /\ ToSet(nic.pending[hop]) \subseteq ToSet(same.pending[hop])
    BY <2>2, <2>7
  <2>11. \A i \in 1 .. Len(result.out) : FALSE
    BY <2>6
  <2> QED BY <2>4, <2>6, <2>8, <2>9, <2>10, <2>11 DEF Sent, result
<1> QED BY <1>2, <1>3, <1>4
-----------------------------------------------------------------------------
(* A call of route.                                                          *)

\* x is what is left of one of the datagrams W, on its way to the next hop ip
\* through interface n.
Routed(trie, W, n, ip, x) ==
  \E d \in W : LET route == Lookup(trie, d.dst)
               IN  /\ ~Expired(d) /\ route # NoRoute
                   /\ n = route.interface_num /\ ip = NextHop(route, d) /\ x = Hopped(d)

\* What has become of a datagram that has been routed.
Handled(trie, done, d) ==
  LET route == Lookup(trie, d.dst)
      n     == route.interface_num
  IN  \/ Expired(d) \/ route = NoRoute
      \/ Cared([nic |-> done.interfaces[n], out |-> done.out[n]], Hopped(d), NextHop(route, d))

\* What may have become of the interfaces `start', which have received W, while
\* they are routed: all but E has been taken care of or is still to be routed.
UnderWay(trie, start, W, E) ==
  {done \in Routing(DOMAIN start) :
     /\ \A n \in DOMAIN start :
          /\ Requeued(start[n], done.interfaces[n])
          /\ ToSet(done.interfaces[n].received) \subseteq W
          /\ \A ip \in Ip : \A x \in ToSet(done.interfaces[n].pending[ip]) :
               x \in ToSet(start[n].pending[ip]) \/ Routed(trie, W, n, ip, x)
          /\ \A i \in 1 .. Len(done.out[n]) : done.out[n][i].type = "IPv4" =>
               \E ip \in Ip : /\ Knows(start[n], ip)
                              /\ done.out[n][i].dst = start[n].arp_cache[ip].mac
                              /\ Routed(trie, W, n, ip, done.out[n][i].payload)
     /\ \A d \in W : \/ d \in E \/ Handled(trie, done, d)
                     \/ \E n \in DOMAIN start : d \in ToSet(done.interfaces[n].received)}

\* Every route leads to one of the interfaces.
Leads(trie, ports) ==
  \A dst \in Ip : LET route == Lookup(trie, dst)
                  IN  route \in RouteEntry /\ (route # NoRoute => route.interface_num \in ports)

Popped(done, n) == [done EXCEPT !.interfaces[n].received = Tail(@)]

(* The first datagram that an interface received is taken from its queue.    *)
LEMMA PopStep ==
  ASSUME NEW trie, NEW start, NEW W \in SUBSET Datagram, NEW n \in DOMAIN start,
         NEW done \in UnderWay(trie, start, W, {}), done.interfaces[n].received # <<>>
  PROVE  LET d    == Head(done.interfaces[n].received)
             next == Popped(done, n)
         IN  /\ d \in W /\ next \in UnderWay(trie, start, W, {d})
             /\ next.interfaces[n].received = Tail(done.interfaces[n].received)
             /\ \A m \in DOMAIN start \ {n} : next.interfaces[m] = done.interfaces[m]
<1> DEFINE nic == done.interfaces[n]
           d == Head(nic.received)
           rest == Tail(nic.received)
           popped == [nic EXCEPT !.received = rest]
           ifs == [done.interfaces EXCEPT ![n] = popped]
           next == Popped(done, n)
           ports == DOMAIN start
<1>1. /\ done \in Routing(ports) /\ done.interfaces \in [ports -> Interface]
      /\ done.out \in [ports -> Seq(Frame)]
      /\ \A m \in ports :
          /\ Requeued(start[m], done.interfaces[m])
          /\ ToSet(done.interfaces[m].received) \subseteq W
          /\ \A ip \in Ip : \A x \in ToSet(done.interfaces[m].pending[ip]) :
               x \in ToSet(start[m].pending[ip]) \/ Routed(trie, W, m, ip, x)
          /\ \A i \in 1 .. Len(done.out[m]) : done.out[m][i].type = "IPv4" =>
               \E ip \in Ip : /\ Knows(start[m], ip)
                              /\ done.out[m][i].dst = start[m].arp_cache[ip].mac
                              /\ Routed(trie, W, m, ip, done.out[m][i].payload)
      /\ \A x \in W : \/ Handled(trie, done, x)
                      \/ \E m \in ports : x \in ToSet(done.interfaces[m].received)
  BY DEF UnderWay, Routing
<1>2. nic \in Interface /\ nic.received \in Seq(Datagram) /\ nic.received # <<>>
  BY <1>1, InterfaceParts
<1>3. /\ rest \in Seq(Datagram) /\ d \in ToSet(nic.received)
      /\ ToSet(rest) \subseteq ToSet(nic.received)
      /\ \A x \in ToSet(nic.received) : x = d \/ x \in ToSet(rest)
  <2> DEFINE s == nic.received
  <2>1. s \in Seq(Datagram) /\ Len(s) \in Nat /\ Len(s) > 0
    BY <1>2
  <2> HIDE DEF s
  <2>2. /\ Tail(s) \in Seq(Datagram) /\ Len(Tail(s)) = Len(s) - 1 /\ Head(s) = s[1]
        /\ \A i \in 1 .. Len(s) - 1 : Tail(s)[i] = s[i + 1]
    BY <2>1
  <2>3. ToSet(s) = {s[i] : i \in 1 .. Len(s)}
    BY <2>1 DEF ToSet
  <2>4. ToSet(Tail(s)) = {Tail(s)[i] : i \in 1 .. Len(s) - 1}
    <3>1. DOMAIN Tail(s) = 1 .. Len(s) - 1
      BY <2>2
    <3> QED BY <3>1 DEF ToSet
  <2>5. 1 \in 1 .. Len(s) /\ \A i \in 1 .. Len(s) - 1 : i + 1 \in 1 .. Len(s)
    BY <2>1
  <2>6. \A i \in 1 .. Len(s) : i = 1 \/ (i - 1 \in 1 .. Len(s) - 1 /\ (i - 1) + 1 = i)
    BY <2>1
  <2>7. Head(s) \in ToSet(s) /\ ToSet(Tail(s)) \subseteq ToSet(s)
    BY <2>2, <2>3, <2>4, <2>5
  <2>8. \A x \in ToSet(s) : x = Head(s) \/ x \in ToSet(Tail(s))
    <3> TAKE x \in ToSet(s)
    <3>1. PICK i \in 1 .. Len(s) : x = s[i]
      BY <2>3
    <3>2. CASE i = 1
      BY <2>2, <3>1, <3>2
    <3>3. CASE i # 1
      <4>1. i - 1 \in 1 .. Len(s) - 1 /\ Tail(s)[i - 1] = s[i]
        BY <2>2, <2>6, <3>3
      <4> QED BY <2>4, <3>1, <4>1
    <3> QED BY <3>2, <3>3
  <2> QED BY <2>2, <2>7, <2>8 DEF s
<1> HIDE DEF rest, d
<1>4. /\ Requeued(nic, popped) /\ popped.received = rest
      /\ popped.pending = nic.pending /\ popped.request_times = nic.request_times
  BY <1>2, <1>3, ReceivedReplaced
<1>5. next = [interfaces |-> ifs, out |-> done.out]
  <2>1. next = [done EXCEPT !.interfaces = ifs]
    BY <1>1 DEF Routing, rest, Popped
  <2> HIDE DEF ifs, next
  <2> QED BY <1>1, <2>1 DEF Routing
<1> HIDE DEF popped, next
<1>6. /\ ifs \in [ports -> Interface] /\ ifs[n] = popped
      /\ \A m \in ports \ {n} : ifs[m] = done.interfaces[m]
  BY <1>1, <1>4 DEF Requeued
<1> HIDE DEF ifs
<1>7. next \in Routing(ports) /\ next.interfaces = ifs /\ next.out = done.out
  BY <1>1, <1>5, <1>6 DEF Routing
<1>8. d \in W
  BY <1>1, <1>3
<1>9. ASSUME NEW m \in ports
      PROVE  /\ Requeued(start[m], ifs[m]) /\ ToSet(ifs[m].received) \subseteq W
             /\ \A ip \in Ip : \A x \in ToSet(ifs[m].pending[ip]) :
                  x \in ToSet(start[m].pending[ip]) \/ Routed(trie, W, m, ip, x)
  <2>1. CASE m = n
    <3>1. Requeued(start[n], popped)
      BY <1>1, <1>4 DEF Requeued
    <3> QED BY <1>1, <1>3, <1>4, <1>6, <2>1, <3>1
  <2>2. CASE m # n
    BY <1>1, <1>6, <2>2
  <2> QED BY <2>1, <2>2
<1>10. ASSUME NEW x \in W
       PROVE  \/ x \in {d} \/ Handled(trie, next, x)
              \/ \E m \in ports : x \in ToSet(ifs[m].received)
  <2>1. CASE \E m \in ports : x \in ToSet(done.interfaces[m].received)
    <3>1. PICK m \in ports : x \in ToSet(done.interfaces[m].received)
      BY <2>1
    <3>2. CASE m = n
      <4>1. x = d \/ x \in ToSet(ifs[n].received)
        BY <1>3, <1>4, <1>6, <3>1, <3>2
      <4> QED BY <4>1
    <3>3. CASE m # n
      BY <1>6, <3>1, <3>3
    <3> QED BY <3>2, <3>3
  <2>2. CASE Handled(trie, done, x)
    <3> DEFINE k == Lookup(trie, x.dst).interface_num
               cared(nics, out) == Cared([nic |-> nics[k], out |-> out[k]], Hopped(x),
                                         NextHop(Lookup(trie, x.dst), x))
    <3>1. ASSUME cared(done.interfaces, done.out) PROVE cared(ifs, done.out)
      <4>1. CASE k = n
        <5>1. /\ done.interfaces[k].pending = ifs[k].pending
              /\ done.interfaces[k].request_times = ifs[k].request_times
          BY <1>4, <1>6, <4>1
        <5> QED BY <3>1, <5>1 DEF Cared
      <4>2. CASE k \in ports \ {n}
        <5>1. ifs[k] = done.interfaces[k]
          BY <1>6, <4>2
        <5> QED BY <3>1, <5>1
      <4>3. CASE k \notin ports
        <5>1. ifs[k] = done.interfaces[k]
          BY <4>3 DEF ifs
        <5> QED BY <3>1, <5>1
      <4> QED BY <4>1, <4>2, <4>3
    <3> QED BY <1>7, <2>2, <3>1 DEF Handled
  <2> QED BY <1>1, <2>1, <2>2
<1>11. next \in UnderWay(trie, start, W, {d})
  BY <1>1, <1>7, <1>9, <1>10 DEF UnderWay
<1> QED BY <1>4, <1>6, <1>7, <1>8, <1>11 DEF d, rest, next

LEMMA HoppedFacts ==
  ASSUME NEW d \in Datagram, ~Expired(d), NEW route \in RouteEntry
  PROVE  /\ Hopped(d) \in Datagram /\ Hopped(d).id = d.id /\ Hopped(d).ttl = d.ttl - 1
         /\ Hopped(d).dst = d.dst /\ d.dst \in Ip /\ NextHop(route, d) \in Ip
BY DEF Hopped, Expired, Datagram, NextHop, RouteEntry

(* What was taken care of stays so when another datagram is sent.            *)
LEMMA CaredStays ==
  ASSUME NEW nic \in Interface, NEW out \in Seq(Frame), NEW dgram \in Datagram, NEW ip \in Ip,
         NEW x, NEW hop \in Ip, Cared([nic |-> nic, out |-> out], x, hop)
  PROVE  LET sent == SendDatagram(nic, dgram, ip)
         IN  Cared([nic |-> sent.nic, out |-> out \o sent.out], x, hop)
<1> DEFINE sent == SendDatagram(nic, dgram, ip)
<1>1. /\ sent.out \in Seq(Frame)
      /\ nic.request_times[hop] > 0 =>
           /\ sent.nic.request_times[hop] > 0
           /\ ToSet(nic.pending[hop]) \subseteq ToSet(sent.nic.pending[hop])
  <2>1. Sent(nic, dgram, ip, sent)
    BY SendFacts
  <2> HIDE DEF sent
  <2> QED BY <2>1 DEF Sent
<1> HIDE DEF sent
<1>2. CASE x \in ToSet(nic.pending[hop]) /\ nic.request_times[hop] > 0
  <2>1. ToSet(nic.pending[hop]) \subseteq ToSet(sent.nic.pending[hop])
    BY <1>1, <1>2
  <2>2. x \in ToSet(sent.nic.pending[hop])
    BY <1>2, <2>1
  <2>3. sent.nic.request_times[hop] > 0
    BY <1>1, <1>2, Zenon
  <2> DEFINE result == [nic |-> sent.nic, out |-> out \o sent.out]
  <2>4. result.nic = sent.nic
    OBVIOUS
  <2> HIDE DEF result
  <2>5. Cared(result, x, hop)
    BY <2>2, <2>3, <2>4 DEF Cared
  <2> QED BY <2>5 DEF result, sent
<1>3. CASE \E i \in 1 .. Len(out) : out[i].type = "IPv4" /\ out[i].payload = x
  <2>1. PICK i \in 1 .. Len(out) : out[i].type = "IPv4" /\ out[i].payload = x
    BY <1>3
  <2>2. i \in 1 .. Len(out \o sent.out) /\ (out \o sent.out)[i] = out[i]
    BY <1>1
  <2> QED BY <2>1, <2>2 DEF Cared
<1> QED BY <1>2, <1>3 DEF Cared, sent

(* One datagram is routed.                                                   *)
LEMMA DatagramStep ==
  ASSUME NEW trie, NEW start, Leads(trie, DOMAIN start), NEW W \in SUBSET Datagram, NEW d \in W,
         NEW done \in UnderWay(trie, start, W, {d})
  PROVE  LET next == RouteDatagram(trie, done, d)
         IN  /\ next \in UnderWay(trie, start, W, {})
             /\ \A m \in DOMAIN start : next.interfaces[m].received = done.interfaces[m].received
<1> DEFINE route == Lookup(trie, d.dst)
           n == route.interface_num
           ports == DOMAIN start
           next == RouteDatagram(trie, done, d)
<1>1. /\ done \in Routing(ports) /\ done.interfaces \in [ports -> Interface]
      /\ done.out \in [ports -> Seq(Frame)]
      /\ \A m \in ports :
          /\ Requeued(start[m], done.interfaces[m])
          /\ ToSet(done.interfaces[m].received) \subseteq W
          /\ \A ip \in Ip : \A x \in ToSet(done.interfaces[m].pending[ip]) :
               x \in ToSet(start[m].pending[ip]) \/ Routed(trie, W, m, ip, x)
          /\ \A i \in 1 .. Len(done.out[m]) : done.out[m][i].type = "IPv4" =>
               \E ip \in Ip : /\ Knows(start[m], ip)
                              /\ done.out[m][i].dst = start[m].arp_cache[ip].mac
                              /\ Routed(trie, W, m, ip, done.out[m][i].payload)
      /\ \A x \in W : \/ x = d \/ Handled(trie, done, x)
                      \/ \E m \in ports : x \in ToSet(done.interfaces[m].received)
  BY DEF UnderWay, Routing
<1>2. d \in Datagram /\ d.dst \in Ip
  BY DEF Datagram
<1>3. route \in RouteEntry /\ (route # NoRoute => n \in ports)
  BY <1>2 DEF Leads
<1>4. CASE Expired(d) \/ route = NoRoute
  <2>1. next = done
    BY <1>4 DEF RouteDatagram
  <2>2. Handled(trie, done, d)
    BY <1>4 DEF Handled
  <2>3. done \in UnderWay(trie, start, W, {})
    BY <1>1, <2>2 DEF UnderWay
  <2> QED BY <2>1, <2>3
<1>5. CASE ~Expired(d) /\ route # NoRoute
  <2> DEFINE nic == done.interfaces[n]
             hop == NextHop(route, d)
             x == Hopped(d)
             sent == SendDatagram(nic, x, hop)
             ifs == [done.interfaces EXCEPT ![n] = sent.nic]
             out == [done.out EXCEPT ![n] = @ \o sent.out]
  <2>1. next = [interfaces |-> ifs, out |-> out]
    BY <1>5 DEF RouteDatagram
  <2>2. n \in ports /\ nic \in Interface /\ x \in Datagram /\ hop \in Ip
        /\ Routed(trie, W, n, hop, x)
    BY <1>1, <1>2, <1>3, <1>5, HoppedFacts DEF Routed
  <2> HIDE DEF nic, hop, x
  <2>3. /\ Requeued(nic, sent.nic) /\ sent.nic.received = nic.received
        /\ sent.out \in Seq(Frame)
        /\ \A ip \in Ip : \A y \in ToSet(sent.nic.pending[ip]) :
             y \in ToSet(nic.pending[ip]) \/ (ip = hop /\ y = x)
        /\ \A i \in 1 .. Len(sent.out) : sent.out[i].type = "IPv4" =>
             /\ Knows(nic, hop) /\ sent.out[i].dst = nic.arp_cache[hop].mac
             /\ sent.out[i].payload = x
        /\ Cared(sent, x, hop)
    <3>1. Sent(nic, x, hop, sent)
      BY <2>2, SendFacts
    <3> HIDE DEF sent
    <3> QED BY <3>1 DEF Sent
  <2>4. \A y : \A ip \in Ip : Cared([nic |-> nic, out |-> done.out[n]], y, ip) =>
          Cared([nic |-> sent.nic, out |-> done.out[n] \o sent.out], y, ip)
    BY <1>1, <2>2, CaredStays
  <2> HIDE DEF sent
  <2>5. /\ ifs \in [ports -> Interface] /\ ifs[n] = sent.nic
        /\ \A m \in ports \ {n} : ifs[m] = done.interfaces[m]
        /\ out \in [ports -> Seq(Frame)] /\ out[n] = done.out[n] \o sent.out
        /\ \A m \in ports \ {n} : out[m] = done.out[m]
    <3>1. sent.nic \in Interface
      BY <2>3 DEF Requeued
    <3>2. done.out[n] \in Seq(Frame)
      BY <1>1, <2>2
    <3>3. done.out[n] \o sent.out \in Seq(Frame)
      BY <2>3, <3>2
    <3> QED BY <1>1, <2>2, <3>1, <3>3
  <2> HIDE DEF ifs, out, next
  <2>6. next \in Routing(ports) /\ next.interfaces = ifs /\ next.out = out
    BY <2>1, <2>5 DEF Routing
  <2>7. \A m \in ports : ifs[m].received = done.interfaces[m].received
    BY <2>3, <2>5 DEF nic
  <2>8. \A m \in ports : Requeued(start[m], ifs[m])
    <3> TAKE m \in ports
    <3>1. CASE m = n
      BY <1>1, <2>3, <2>5, <3>1 DEF Requeued, nic
    <3>2. CASE m # n
      BY <1>1, <2>5, <3>2
    <3> QED BY <3>1, <3>2
  <2>9. ASSUME NEW m \in ports, NEW ip \in Ip, NEW y \in ToSet(ifs[m].pending[ip])
        PROVE  y \in ToSet(start[m].pending[ip]) \/ Routed(trie, W, m, ip, y)
    <3>1. CASE m = n
      <4>1. y \in ToSet(nic.pending[ip]) \/ (ip = hop /\ y = x)
        <5>1. ifs[m].pending[ip] = sent.nic.pending[ip]
          BY <2>5, <3>1
        <5>2. y \in ToSet(sent.nic.pending[ip])
          BY <2>9, <5>1
        <5> QED BY <2>3, <5>2
      <4> QED BY <1>1, <2>2, <3>1, <4>1 DEF nic
    <3>2. CASE m # n
      BY <1>1, <2>5, <2>9, <3>2
    <3> QED BY <3>1, <3>2
  <2>10. ASSUME NEW m \in ports, NEW i \in 1 .. Len(out[m]), out[m][i].type = "IPv4"
         PROVE  \E ip \in Ip : /\ Knows(start[m], ip)
                               /\ out[m][i].dst = start[m].arp_cache[ip].mac
                               /\ Routed(trie, W, m, ip, out[m][i].payload)
    <3>1. CASE m = n
      <4> DEFINE old == done.out[n]
                 new == sent.out
      <4>1. old \in Seq(Frame) /\ new \in Seq(Frame) /\ out[m] = old \o new
        BY <1>1, <2>2, <2>3, <2>5, <3>1
      <4> HIDE DEF old, new
      <4>2. \/ i \in 1 .. Len(old) /\ out[m][i] = old[i]
            \/ i - Len(old) \in 1 .. Len(new) /\ out[m][i] = new[i - Len(old)]
        BY <2>10, <4>1
      <4>3. CASE i \in 1 .. Len(old) /\ out[m][i] = old[i]
        BY <1>1, <2>2, <2>10, <3>1, <4>3 DEF old
      <4>4. CASE i - Len(old) \in 1 .. Len(new) /\ out[m][i] = new[i - Len(old)]
        <5>1. Knows(nic, hop) /\ out[m][i].dst = nic.arp_cache[hop].mac /\ out[m][i].payload = x
          BY <2>3, <2>10, <4>4 DEF new
        <5>2. nic.arp_cache = start[n].arp_cache
          BY <1>1, <2>2 DEF Requeued, nic
        <5>3. Knows(start[n], hop)
          BY <5>1, <5>2 DEF Knows
        <5> QED BY <2>2, <3>1, <5>1, <5>2, <5>3
      <4> QED BY <4>2, <4>3, <4>4
    <3>2. CASE m # n
      BY <1>1, <2>5, <2>10, <3>2
    <3> QED BY <3>1, <3>2
  <2>11. Handled(trie, next, d)
    <3>1. CASE x \in ToSet(sent.nic.pending[hop]) /\ sent.nic.request_times[hop] > 0
      <4>1. Cared([nic |-> ifs[n], out |-> out[n]], x, hop)
        BY <2>5, <3>1 DEF Cared
      <4> QED BY <2>6, <4>1 DEF Handled, x, hop
    <3>2. CASE \E i \in 1 .. Len(sent.out) : sent.out[i].type = "IPv4" /\ sent.out[i].payload = x
      <4> DEFINE old == done.out[n]
                 new == sent.out
      <4>1. PICK i \in 1 .. Len(new) : new[i].type = "IPv4" /\ new[i].payload = x
        BY <3>2
      <4>2. old \in Seq(Frame) /\ new \in Seq(Frame) /\ out[n] = old \o new
        BY <1>1, <2>2, <2>3, <2>5
      <4> HIDE DEF old, new
      <4>3. Len(old) + i \in 1 .. Len(out[n]) /\ out[n][Len(old) + i] = new[i]
        BY <4>2
      <4>4. Cared([nic |-> ifs[n], out |-> out[n]], x, hop)
        BY <4>1, <4>3 DEF Cared
      <4> QED BY <2>6, <4>4 DEF Handled, x, hop
    <3> QED BY <2>3, <3>1, <3>2 DEF Cared
  <2>12. ASSUME NEW y \in W, Handled(trie, done, y)
         PROVE  Handled(trie, next, y)
    <3> DEFINE r == Lookup(trie, y.dst)
               k == r.interface_num
    <3>1. CASE Expired(y) \/ r = NoRoute
      BY <3>1 DEF Handled
    <3>2. CASE ~Expired(y) /\ r # NoRoute
      <4>1. y \in Datagram /\ y.dst \in Ip
        BY DEF Datagram
      <4>2. r \in RouteEntry /\ k \in ports
        BY <3>2, <4>1 DEF Leads
      <4>3. NextHop(r, y) \in Ip
        BY <3>2, <4>1, <4>2, HoppedFacts
      <4>4. Cared([nic |-> done.interfaces[k], out |-> done.out[k]], Hopped(y), NextHop(r, y))
        BY <2>12, <3>2 DEF Handled
      <4> HIDE DEF r, k
      <4>5. Cared([nic |-> ifs[k], out |-> out[k]], Hopped(y), NextHop(r, y))
        <5>1. CASE k = n
          BY <2>4, <2>5, <4>3, <4>4, <5>1 DEF nic
        <5>2. CASE k # n
          BY <2>5, <4>2, <4>4, <5>2
        <5> QED BY <5>1, <5>2
      <4> QED BY <2>6, <4>5 DEF Handled, r, k
    <3> QED BY <3>1, <3>2
  <2>13. ASSUME NEW y \in W
         PROVE  \/ Handled(trie, next, y)
                \/ \E m \in ports : y \in ToSet(ifs[m].received)
    BY <1>1, <2>7, <2>11, <2>12
  <2>14. next \in UnderWay(trie, start, W, {})
    <3>1. \A m \in ports : ToSet(ifs[m].received) \subseteq W
      BY <1>1, <2>7
    <3> QED BY <2>6, <2>8, <2>9, <2>10, <2>13, <3>1 DEF UnderWay
  <2> QED BY <2>6, <2>7, <2>14 DEF next
<1> QED BY <1>4, <1>5

(* One pass of the inner loop.                                               *)
LEMMA ServePassStep ==
  ASSUME NEW trie, NEW start, Leads(trie, DOMAIN start), NEW W \in SUBSET Datagram,
         NEW n \in DOMAIN start, NEW done \in UnderWay(trie, start, W, {})
  PROVE  LET next == ServePass(trie, n, done)
         IN  /\ next \in UnderWay(trie, start, W, {})
             /\ next.interfaces[n].received =
                  IF done.interfaces[n].received = <<>> THEN <<>> ELSE Tail(done.interfaces[n].received)
             /\ \A m \in DOMAIN start \ {n} : next.interfaces[m].received = done.interfaces[m].received
<1> DEFINE next == ServePass(trie, n, done)
<1>1. CASE done.interfaces[n].received = <<>>
  BY <1>1 DEF ServePass
<1>2. CASE done.interfaces[n].received # <<>>
  <2> DEFINE d == Head(done.interfaces[n].received)
             popped == Popped(done, n)
  <2>1. next = RouteDatagram(trie, popped, d)
    BY <1>2 DEF ServePass, Popped
  <2>2. /\ d \in W /\ popped \in UnderWay(trie, start, W, {d})
        /\ popped.interfaces[n].received = Tail(done.interfaces[n].received)
        /\ \A m \in DOMAIN start \ {n} : popped.interfaces[m] = done.interfaces[m]
    BY <1>2, PopStep
  <2> HIDE DEF d, popped, next
  <2>3. /\ next \in UnderWay(trie, start, W, {})
        /\ \A m \in DOMAIN start : next.interfaces[m].received = popped.interfaces[m].received
    BY <2>1, <2>2, DatagramStep
  <2> QED BY <1>2, <2>2, <2>3 DEF next
<1> QED BY <1>1, <1>2

(* The inner loop empties the queue of its interface.                        *)
LEMMA ServeFacts ==
  ASSUME NEW trie, NEW start, Leads(trie, DOMAIN start), NEW W \in SUBSET Datagram,
         NEW n \in DOMAIN start, NEW done \in UnderWay(trie, start, W, {})
  PROVE  LET next == Serve(trie, n, done)
         IN  /\ next \in UnderWay(trie, start, W, {}) /\ next.interfaces[n].received = <<>>
             /\ \A m \in DOMAIN start \ {n} : next.interfaces[m].received = done.interfaces[m].received
<1> DEFINE Step == [d \in Routing(DOMAIN done.interfaces) |-> ServePass(trie, n, d)]
           U == {d \in UnderWay(trie, start, W, {}) :
                   \A m \in DOMAIN start \ {n} :
                     d.interfaces[m].received = done.interfaces[m].received}
           At(i) == Iterate(Step, done, i)
           size == Len(done.interfaces[n].received)
<1>1. DOMAIN done.interfaces = DOMAIN start
  BY DEF UnderWay, Routing
<1>2. done \in U
  OBVIOUS
<1>3. ASSUME NEW d \in U
      PROVE  /\ Step[d] \in U
             /\ Step[d].interfaces[n].received =
                  IF d.interfaces[n].received = <<>> THEN <<>> ELSE Tail(d.interfaces[n].received)
  <2> DEFINE next == ServePass(trie, n, d)
  <2>1. d \in UnderWay(trie, start, W, {}) /\ d \in Routing(DOMAIN done.interfaces)
    BY <1>1 DEF UnderWay
  <2>2. Step[d] = next
    BY <2>1
  <2>3. /\ next \in UnderWay(trie, start, W, {})
        /\ next.interfaces[n].received =
             IF d.interfaces[n].received = <<>> THEN <<>> ELSE Tail(d.interfaces[n].received)
        /\ \A m \in DOMAIN start \ {n} : next.interfaces[m].received = d.interfaces[m].received
    BY <2>1, ServePassStep
  <2> HIDE DEF next, Step
  <2> QED BY <2>2, <2>3
<1> HIDE DEF Step
<1>4. /\ At(0) = done /\ \A i \in Nat : At(i + 1) = Step[At(i)]
      /\ \A i \in Nat : At(i) \in U
  <2> HIDE DEF U
  <2> QED BY <1>2, <1>3, IterateDef
<1>5. \A d \in U : d.interfaces[n].received \in Seq(Datagram)
  BY InterfaceParts DEF UnderWay, Routing
<1>6. size \in Nat
  BY <1>2, <1>5
<1> DEFINE G == {i \in Nat : i <= size => Len(At(i).interfaces[n].received) = size - i}
<1> HIDE DEF At, U
<1>7. 0 \in G
  BY <1>4, <1>6
<1>8. ASSUME NEW i \in Nat, i \in G PROVE i + 1 \in G
  <2> SUFFICES ASSUME i + 1 <= size PROVE Len(At(i + 1).interfaces[n].received) = size - (i + 1)
    OBVIOUS
  <2> DEFINE s == At(i).interfaces[n].received
             t == At(i + 1).interfaces[n].received
  <2>1. s \in Seq(Datagram) /\ Len(s) = size - i
    <3>1. i <= size
      BY <1>6
    <3> QED BY <1>4, <1>5, <1>8, <3>1
  <2>2. t = IF s = <<>> THEN <<>> ELSE Tail(s)
    BY <1>3, <1>4
  <2> HIDE DEF s, t, size
  <2>3. s # <<>>
    BY <1>6, <2>1
  <2>4. Len(t) = size - (i + 1)
    BY <1>6, <2>1, <2>2, <2>3
  <2> QED BY <2>4 DEF t
<1>9. Len(At(size).interfaces[n].received) = 0
  <2> HIDE DEF G, size
  <2>1. Nat \subseteq G
    BY <1>7, <1>8, NatSetInduction
  <2> QED BY <1>6, <2>1 DEF G
<1>10. At(size) \in U /\ At(size).interfaces[n].received = <<>>
  BY <1>4, <1>5, <1>6, <1>9
<1>11. Serve(trie, n, done) = At(size)
  BY DEF Serve, At, Step
<1> QED BY <1>10, <1>11 DEF U

(* A queue for each interface of the router.                                 *)
LEMMA PortFacts ==
  /\ Len(InterfaceIps) \in Nat /\ Port = 1 .. Len(InterfaceIps)
  /\ \A S : \A f \in [Port -> S] : Len(f) = Len(InterfaceIps)
<1>1. Len(InterfaceIps) \in Nat /\ Port = 1 .. Len(InterfaceIps)
  BY NeighbourhoodAssumption DEF Port
<1>2. ASSUME NEW S, NEW f \in [Port -> S] PROVE Len(f) = Len(InterfaceIps)
  <2>1. f \in Seq(S) /\ DOMAIN f = 1 .. Len(InterfaceIps)
    BY <1>1, SeqDef
  <2> QED BY <1>1, <2>1, LenProperties
<1> QED BY <1>1, <1>2

AllReceived(r) == UNION {ToSet(r.interfaces[n].received) : n \in Port}

(* A call of route empties the queues of all the interfaces.                 *)
LEMMA RouteFacts ==
  ASSUME NEW r, r = [interfaces |-> r.interfaces, trie |-> r.trie],
         r.interfaces \in [Port -> Interface], Leads(r.trie, Port)
  PROVE  \E end \in UnderWay(r.trie, r.interfaces, AllReceived(r), {}) :
           /\ Route(r) = [router |-> [interfaces |-> end.interfaces, trie |-> r.trie],
                          out |-> end.out]
           /\ \A n \in Port : end.interfaces[n].received = <<>>
<1> DEFINE N == Len(InterfaceIps)
           trie == r.trie
           ports == DOMAIN r.interfaces
           W == AllReceived(r)
           U == UnderWay(trie, r.interfaces, W, {})
           Step == [at \in [n : Nat, done : Routing(ports)] |-> RoutePass(trie, at)]
           start == [interfaces |-> r.interfaces, out |-> [n \in ports |-> <<>>]]
           first == [n |-> 1, done |-> start]
           P == {at \in [n : 1 .. N + 1, done : U] :
                   \A m \in 1 .. at.n - 1 : at.done.interfaces[m].received = <<>>}
           At(i) == Iterate(Step, first, i)
<1>1. /\ N \in Nat /\ ports = 1 .. N /\ Port = 1 .. N
      /\ \A S : \A f \in [1 .. N -> S] : Len(f) = N
  BY PortFacts
<1>2. W \in SUBSET Datagram
  <2>1. ASSUME NEW n \in Port PROVE ToSet(r.interfaces[n].received) \subseteq Datagram
    <3>1. r.interfaces[n].received \in Seq(Datagram)
      BY InterfaceParts
    <3> QED BY <3>1 DEF ToSet
  <2> QED BY <2>1 DEF AllReceived
<1>3. start \in U
  <2>1. /\ start \in Routing(ports) /\ start.interfaces = r.interfaces
        /\ \A n \in ports : start.out[n] = <<>>
    BY <1>1 DEF Routing
  <2> HIDE DEF start, ports
  <2>2. ASSUME NEW n \in ports
        PROVE  /\ Requeued(r.interfaces[n], start.interfaces[n])
               /\ ToSet(start.interfaces[n].received) \subseteq W
               /\ \A i \in 1 .. Len(start.out[n]) : FALSE
    <3>1. n \in Port /\ r.interfaces[n] \in Interface
      BY <1>1
    <3>2. Requeued(r.interfaces[n], start.interfaces[n])
      BY <2>1, <3>1 DEF Requeued
    <3>3. ToSet(start.interfaces[n].received) \subseteq W
      BY <2>1, <3>1 DEF AllReceived
    <3> QED BY <2>1, <3>2, <3>3
  <2>3. ASSUME NEW d \in W PROVE \E n \in ports : d \in ToSet(start.interfaces[n].received)
    BY <1>1, <2>1 DEF AllReceived
  <2> HIDE DEF W
  <2> QED BY <2>1, <2>2, <2>3 DEF UnderWay, ports
<1>4. first \in P
  <2>1. first \in [n : 1 .. N + 1, done : U] /\ first.n = 1
    BY <1>1, <1>3
  <2> HIDE DEF first, U
  <2> QED BY <2>1
<1>5. ASSUME NEW at \in P
      PROVE  Step[at] \in P /\ Step[at].n = IF at.n > N THEN at.n ELSE at.n + 1
  <2>1. /\ at.n \in 1 .. N + 1 /\ at.done \in U /\ at = [n |-> at.n, done |-> at.done]
        /\ \A m \in 1 .. at.n - 1 : at.done.interfaces[m].received = <<>>
    BY <1>1
  <2>2. at.done \in Routing(ports) /\ at.done.interfaces \in [ports -> Interface]
    BY <2>1 DEF UnderWay, Routing
  <2>3. Len(at.done.interfaces) = N
    BY <1>1, <2>2
  <2> DEFINE next == Serve(trie, at.n, at.done)
  <2>4. Step[at] = RoutePass(trie, at)
    <3>1. at \in [n : Nat, done : Routing(ports)]
      BY <1>1, <2>1, <2>2
    <3> HIDE DEF ports
    <3> QED BY <3>1
  <2>5. Step[at] = IF at.n > N THEN at ELSE [n |-> at.n + 1, done |-> next]
    BY <2>3, <2>4 DEF RoutePass
  <2> HIDE DEF Step
  <2>6. CASE at.n > N
    BY <2>5, <2>6
  <2>7. CASE ~(at.n > N)
    <3>1. at.n \in ports
      BY <1>1, <2>1, <2>7
    <3>2. Leads(trie, ports)
      BY <1>1
    <3>3. /\ next \in U /\ next.interfaces[at.n].received = <<>>
          /\ \A m \in ports \ {at.n} : next.interfaces[m].received = at.done.interfaces[m].received
      BY <1>2, <2>1, <3>1, <3>2, ServeFacts
    <3> HIDE DEF next, U
    <3>4. \A m \in 1 .. (at.n + 1) - 1 :
            m = at.n \/ (m \in 1 .. at.n - 1 /\ m \in ports \ {at.n})
      BY <1>1, <2>1, <2>7
    <3>5. \A m \in 1 .. (at.n + 1) - 1 : next.interfaces[m].received = <<>>
      BY <2>1, <3>3, <3>4
    <3>6. at.n + 1 \in 1 .. N + 1
      BY <1>1, <2>1, <2>7
    <3> QED BY <2>5, <2>7, <3>3, <3>5, <3>6
  <2> QED BY <2>6, <2>7
<1> HIDE DEF Step, first
<1>6. /\ At(0) = first /\ \A i \in Nat : At(i + 1) = Step[At(i)]
      /\ \A i \in Nat : At(i) \in P
  <2>1. \A at \in P : Step[at] \in P
    BY <1>5
  <2> HIDE DEF P
  <2> QED BY <1>4, <2>1, IterateDef
<1> DEFINE G == {i \in Nat : i <= N => At(i).n = i + 1}
<1>7. N \in G
  <2> HIDE DEF At, P
  <2>1. 0 \in G
    BY <1>6 DEF first
  <2>2. ASSUME NEW i \in Nat, i \in G PROVE i + 1 \in G
    <3> SUFFICES ASSUME i + 1 <= N PROVE At(i + 1).n = (i + 1) + 1
      OBVIOUS
    <3>1. i <= N /\ ~(i + 1 > N)
      BY <1>1
    <3>2. At(i).n = i + 1
      BY <2>2, <3>1
    <3>3. At(i + 1).n = IF At(i).n > N THEN At(i).n ELSE At(i).n + 1
      BY <1>5, <1>6
    <3> QED BY <3>1, <3>2, <3>3
  <2> HIDE DEF G
  <2>3. Nat \subseteq G
    BY <2>1, <2>2, NatSetInduction
  <2> QED BY <1>1, <2>3
<1> DEFINE end == At(N).done
<1>8. end \in U /\ \A n \in Port : end.interfaces[n].received = <<>>
  <2>1. At(N).n = N + 1 /\ At(N) \in P
    BY <1>1, <1>6, <1>7
  <2> HIDE DEF At, U
  <2>2. end \in U /\ \A m \in 1 .. (N + 1) - 1 : end.interfaces[m].received = <<>>
    BY <2>1
  <2>3. (N + 1) - 1 = N
    BY <1>1
  <2> QED BY <1>1, <2>2, <2>3
<1>9. Route(r) = [router |-> [interfaces |-> end.interfaces, trie |-> r.trie], out |-> end.out]
  <2>1. Len(r.interfaces) = N
    BY <1>1
  <2>2. Route(r) = [router |-> [r EXCEPT !.interfaces = end.interfaces], out |-> end.out]
    BY <2>1 DEF Route, At, Step, first
  <2> HIDE DEF end
  <2>3. [r EXCEPT !.interfaces = end.interfaces] = [interfaces |-> end.interfaces, trie |-> r.trie]
    OBVIOUS
  <2> QED BY <2>2, <2>3
<1> HIDE DEF end
<1> QED BY <1>8, <1>9
-----------------------------------------------------------------------------
(* What the interfaces do with frames and with time.                         *)

DatagramOf(n, dgram) ==
  [src |-> NoEthernet, dst |-> EthernetOf(InterfaceIps[n]), type |-> "IPv4", payload |-> dgram]

AnswerOf(n, ip) ==
  [src |-> EthernetOf(ip), dst |-> EthernetOf(InterfaceIps[n]), type |-> "ARP",
   payload |-> [supported |-> TRUE, opcode |-> "REPLY",
                sender_ethernet |-> EthernetOf(ip), sender_ip |-> ip,
                target_ethernet |-> EthernetOf(InterfaceIps[n]), target_ip |-> InterfaceIps[n]]]

(* A new datagram goes to the end of the queue of those received.            *)
LEMMA ArrivalFacts ==
  ASSUME NEW n \in Port, NEW nic \in Interface, nic.ethernet_address = EthernetOf(InterfaceIps[n]),
         NEW id \in Nat, NEW dst \in Ip, NEW ttl \in Nat,
         NEW dgram, dgram = NewDatagram(id, dst, ttl)
  PROVE  LET result == RecvFrame(nic, DatagramOf(n, dgram))
         IN  /\ dgram \in Datagram /\ dgram.id = id /\ dgram.dst = dst /\ dgram.ttl = ttl
             /\ Requeued(nic, result.nic) /\ result.nic.received = Append(nic.received, dgram)
             /\ result.nic.pending = nic.pending /\ result.out = <<>>
<1> DEFINE frame == DatagramOf(n, dgram)
           more == Append(nic.received, dgram)
           next == [nic EXCEPT !.received = more]
<1>1. /\ dgram \in Datagram /\ dgram.id = id /\ dgram.dst = dst /\ dgram.ttl = ttl
      /\ ParseDatagram(dgram) = dgram
  BY DEF NewDatagram, Datagram, ParseDatagram
<1>2. Addressed(nic, frame) /\ frame.type = "IPv4" /\ frame.payload = dgram
  BY DEF Addressed, DatagramOf
<1> HIDE DEF frame
<1>3. RecvFrame(nic, frame) = [nic |-> next, out |-> <<>>]
  BY <1>1, <1>2 DEF RecvFrame
<1>4. more \in Seq(Datagram)
  BY <1>1, InterfaceParts
<1> HIDE DEF more
<1>5. /\ Requeued(nic, next) /\ next.received = more
      /\ next.pending = nic.pending /\ next.request_times = nic.request_times
  BY <1>4, ReceivedReplaced
<1> HIDE DEF next
<1>6. /\ RecvFrame(nic, frame).nic = next /\ RecvFrame(nic, frame).out = <<>>
  BY <1>3
<1> QED BY <1>1, <1>5, <1>6 DEF frame, more

(* An answer makes an address known and releases what waits for it.          *)
LEMMA AnswerFacts ==
  ASSUME NEW n \in Port, NEW nic \in Interface, nic.ethernet_address = EthernetOf(InterfaceIps[n]),
         NEW ip \in Ip
  PROVE  LET result == RecvFrame(nic, AnswerOf(n, ip))
         IN  /\ result.nic \in Interface /\ result.nic.ethernet_address = nic.ethernet_address
             /\ result.nic.received = nic.received
             /\ result.nic.pending = [nic.pending EXCEPT ![ip] = <<>>]
             /\ result.nic.arp_cache =
                  [nic.arp_cache EXCEPT ![ip] = [mac |-> EthernetOf(ip), left |-> MAPPING_TTL]]
             /\ \A frame \in DatagramFrames(result.out) :
                  /\ frame \in Frame /\ frame.dst = EthernetOf(ip)
                  /\ frame.payload \in ToSet(nic.pending[ip])
<1> DEFINE frame == AnswerOf(n, ip)
           msg == frame.payload
           mapping == [mac |-> EthernetOf(ip), left |-> MAPPING_TTL]
           cache == [nic.arp_cache EXCEPT ![ip] = mapping]
           known == [nic EXCEPT !.arp_cache = cache]
           empty == [nic.pending EXCEPT ![ip] = <<>>]
           next == [known EXCEPT !.pending = empty]
           queue == nic.pending[ip]
           out == [i \in 1 .. Len(queue) |-> DatagramFrame(known, queue[i], ip)]
           result == RecvFrame(nic, frame)
<1>1. /\ Addressed(nic, frame) /\ frame.type = "ARP" /\ ParseARP(msg) = msg
      /\ msg.sender_ip = ip /\ msg.sender_ethernet = EthernetOf(ip) /\ msg.opcode = "REPLY"
  BY DEF AnswerOf, Addressed, ParseARP
<1>2. /\ nic.arp_cache \in [Ip -> Mapping] /\ nic.pending \in [Ip -> Seq(Datagram)]
      /\ nic.ethernet_address \in EthernetAddress
      /\ EthernetOf(ip) \in EthernetAddress /\ MAPPING_TTL \in Nat \ {0}
  BY InterfaceParts, NeighbourhoodAssumption, InterfaceAssumption
<1>3. mapping \in Mapping
  BY <1>2 DEF Mapping
<1> HIDE DEF frame, mapping
<1>4. cache \in [Ip -> Mapping] /\ cache[ip] = mapping /\ empty \in [Ip -> Seq(Datagram)]
  BY <1>2, <1>3
<1>5. Learn(nic, msg) = known
  BY <1>1 DEF Learn, mapping
<1> HIDE DEF msg, cache, empty
<1>6. /\ known \in Interface /\ known.arp_cache = cache /\ known.pending = nic.pending
      /\ known.ethernet_address = nic.ethernet_address /\ known.received = nic.received
  BY <1>4 DEF Interface
<1> HIDE DEF known
<1>7. /\ next \in Interface /\ next.arp_cache = cache /\ next.pending = empty
      /\ next.ethernet_address = nic.ethernet_address /\ next.received = nic.received
  BY <1>4, <1>6 DEF Interface
<1>8. Release(known, ip) = [nic |-> next, out |-> out]
  BY <1>6 DEF Release, empty
<1>9. Answer(nic, msg) = <<>>
  BY <1>1 DEF Answer
<1>10. queue \in Seq(Datagram) /\ ToSet(queue) = {queue[i] : i \in 1 .. Len(queue)}
  BY <1>2 DEF ToSet
<1>11. ASSUME NEW i \in 1 .. Len(queue)
       PROVE  DatagramFrame(known, queue[i], ip) \in Frame
  <2>1. queue[i] \in Datagram
    BY <1>10
  <2>2. known.arp_cache[ip].mac \in EthernetAddress
    BY <1>2, <1>4, <1>6 DEF mapping
  <2> HIDE DEF queue
  <2> QED BY <1>2, <1>6, <2>1, <2>2 DEF DatagramFrame, Frame
<1> HIDE DEF queue
<1>12. /\ out \in Seq(Frame) /\ Len(out) = Len(queue)
       /\ \A i \in 1 .. Len(queue) : out[i] = DatagramFrame(known, queue[i], ip)
  BY <1>10, <1>11
<1> HIDE DEF out, next
<1>13. result = [nic |-> next, out |-> out \o <<>>]
  <2>1. result = RecvARP(nic, msg)
    BY <1>1 DEF RecvFrame, msg
  <2>2. RecvARP(nic, msg) = [nic |-> Release(known, ip).nic, out |-> Release(known, ip).out \o <<>>]
    BY <1>1, <1>5, <1>9 DEF RecvARP
  <2> QED BY <1>8, <2>1, <2>2
<1>14. result.nic = next /\ result.out = out
  BY <1>12, <1>13
<1> HIDE DEF result
<1>15. ASSUME NEW f \in DatagramFrames(out)
       PROVE  f \in Frame /\ f.dst = EthernetOf(ip) /\ f.payload \in ToSet(queue)
  <2>1. PICK i \in 1 .. Len(queue) : f = out[i]
    BY <1>12 DEF DatagramFrames, ToSet
  <2>2. f = DatagramFrame(known, queue[i], ip)
    BY <1>12, <2>1
  <2>3. f.dst = EthernetOf(ip) /\ f.payload = queue[i]
    BY <1>4, <1>6, <2>2 DEF DatagramFrame, mapping
  <2> QED BY <1>10, <1>11, <2>1, <2>2, <2>3
<1> QED BY <1>7, <1>14, <1>15 DEF result, frame, mapping, cache, empty, queue

(* Time takes mappings away and changes none.                                *)
LEMMA TickFacts ==
  ASSUME NEW nic \in Interface
  PROVE  LET next == TickInterface(nic, 1)
         IN  /\ next \in Interface /\ next.ethernet_address = nic.ethernet_address
             /\ next.received = nic.received /\ next.pending = nic.pending
             /\ \A ip \in Ip : Knows(next, ip) =>
                  Knows(nic, ip) /\ next.arp_cache[ip].mac = nic.arp_cache[ip].mac
<1> DEFINE cache == [ip \in Ip |-> Aged(nic.arp_cache[ip], 1)]
           times == [ip \in Ip |-> IF nic.request_times[ip] > 1 THEN nic.request_times[ip] - 1 ELSE 0]
           next == TickInterface(nic, 1)
<1>1. /\ nic.arp_cache \in [Ip -> Mapping] /\ nic.request_times \in [Ip -> 0 .. REQUEST_THROTTLE]
      /\ REQUEST_THROTTLE \in Nat /\ MAPPING_TTL \in Nat
  BY InterfaceParts, InterfaceAssumption
<1>2. ASSUME NEW m \in Mapping
      PROVE  /\ Aged(m, 1) \in Mapping
             /\ Aged(m, 1) # NoMapping => m # NoMapping /\ Aged(m, 1).mac = m.mac
  <2>1. CASE m.left > 1
    <3>1. m # NoMapping
      BY <2>1 DEF NoMapping
    <3>2. m \in [mac : EthernetAddress, left : 1 .. MAPPING_TTL]
      BY <3>1 DEF Mapping
    <3>3. m.left - 1 \in 1 .. MAPPING_TTL
      BY <1>1, <2>1, <3>2
    <3>4. Aged(m, 1) = [m EXCEPT !.left = m.left - 1]
      BY <2>1 DEF Aged
    <3>5. Aged(m, 1) \in [mac : EthernetAddress, left : 1 .. MAPPING_TTL] /\ Aged(m, 1).mac = m.mac
      BY <3>2, <3>3, <3>4
    <3> QED BY <3>1, <3>5 DEF Mapping
  <2>2. CASE ~(m.left > 1)
    BY <2>2 DEF Aged, Mapping
  <2> QED BY <2>1, <2>2
<1>3. cache \in [Ip -> Mapping] /\ times \in [Ip -> 0 .. REQUEST_THROTTLE]
  BY <1>1, <1>2
<1>4. next = [nic EXCEPT !.arp_cache = cache, !.request_times = times]
  BY DEF TickInterface
<1>5. \A ip \in Ip : cache[ip] = Aged(nic.arp_cache[ip], 1)
  OBVIOUS
<1> HIDE DEF cache, times, next
<1>6. /\ next \in Interface /\ next.ethernet_address = nic.ethernet_address
      /\ next.received = nic.received /\ next.pending = nic.pending /\ next.arp_cache = cache
  BY <1>3, <1>4 DEF Interface
<1>7. ASSUME NEW ip \in Ip, Knows(next, ip)
      PROVE  Knows(nic, ip) /\ next.arp_cache[ip].mac = nic.arp_cache[ip].mac
  <2>1. nic.arp_cache[ip] \in Mapping
    BY <1>1
  <2>2. next.arp_cache[ip] = Aged(nic.arp_cache[ip], 1)
    BY <1>5, <1>6
  <2> QED BY <1>2, <1>7, <2>1, <2>2 DEF Knows
<1> QED BY <1>6, <1>7 DEF next
-----------------------------------------------------------------------------
(* The inductive invariant.                                                  *)

\* The trie holds the routes that were added, each to an interface there is.
TableOK ==
  /\ router = [interfaces |-> router.interfaces, trie |-> router.trie]
  /\ router.interfaces \in [Port -> Interface]
  /\ Records(router.trie, routes)
  /\ \A i \in 1 .. Len(routes) : routes[i].route.interface_num \in Port

\* The datagrams are numbered in the order they arrived.
HistoryOK ==
  /\ arrived \in Seq(Datagram)
  /\ \A i \in 1 .. Len(arrived) : arrived[i].id = i
  /\ DOMAIN decided \subseteq 1 .. Len(arrived)

\* A datagram that has arrived and has not been routed.
Unrouted(d) ==
  /\ d.id \in 1 .. Len(arrived) /\ d.id \notin DOMAIN decided
  /\ d.dst = arrived[d.id].dst /\ d.ttl = arrived[d.id].ttl

\* A datagram whose route leads through interface n to the next hop ip.
OnItsWay(x, n, ip) ==
  x.id \in DOMAIN decided /\ decided[x.id].interface_num = n /\ HopOf(x.id) = ip

\* Interface n knows no wrong mapping, and what it received, keeps and has
\* transmitted is where it belongs.
PortOK(n) ==
  LET nic == router.interfaces[n]
  IN  /\ nic.ethernet_address = EthernetOf(InterfaceIps[n])
      /\ \A ip \in Ip : Knows(nic, ip) => nic.arp_cache[ip].mac = EthernetOf(ip)
      /\ \A d \in ToSet(nic.received) : Unrouted(d)
      /\ \A ip \in Ip : \A x \in ToSet(nic.pending[ip]) : OnItsWay(x, n, ip)
      /\ \A frame \in transmitted[n] :
           \E ip \in Ip : frame.dst = EthernetOf(ip) /\ OnItsWay(frame.payload, n, ip)

IInv ==
  /\ TableOK /\ HistoryOK
  /\ transmitted \in [Port -> SUBSET Frame]
  /\ \A n \in Port : PortOK(n)

(* A queue that no action has touched is as it was when nothing was routed   *)
(* and only new datagrams arrived.                                           *)
LEMMA StillThere ==
  ASSUME IInv, arrived' \in Seq(Datagram), Len(arrived) <= Len(arrived'), decided' = decided,
         \A i \in 1 .. Len(arrived) : arrived'[i] = arrived[i]
  PROVE  /\ \A d : Unrouted(d) => Unrouted(d)'
         /\ \A n \in Port : \A ip \in Ip : \A x : OnItsWay(x, n, ip) => OnItsWay(x, n, ip)'
<1>1. /\ DOMAIN decided \subseteq 1 .. Len(arrived)
      /\ Len(arrived) \in Nat /\ Len(arrived') \in Nat
  BY DEF IInv, HistoryOK
<1>2. ASSUME NEW d, Unrouted(d) PROVE Unrouted(d)'
  <2>1. d.id \in 1 .. Len(arrived)
    BY <1>2 DEF Unrouted
  <2>2. d.id \in 1 .. Len(arrived') /\ arrived'[d.id] = arrived[d.id]
    BY <1>1, <2>1
  <2> QED BY <1>2, <2>2 DEF Unrouted
<1>3. ASSUME NEW n \in Port, NEW ip \in Ip, NEW x, OnItsWay(x, n, ip) PROVE OnItsWay(x, n, ip)'
  <2>1. x.id \in 1 .. Len(arrived)
    BY <1>1, <1>3 DEF OnItsWay
  <2>2. arrived'[x.id] = arrived[x.id]
    BY <2>1
  <2> QED BY <1>3, <2>2 DEF OnItsWay, HopOf
<1> QED BY <1>2, <1>3

(* A route is added.                                                         *)
LEMMA AddRouteKeeps ==
  ASSUME IInv, DoAddRoute
  PROVE  IInv'
<1>n. PICK n \in Port : \E hop \in Gateways[n] \cup {NoHop} : \E prefix \in Prefix :
        LET route == [next_hop |-> hop, interface_num |-> n]
            route_prefix == [i \in 1 .. AddressBits |-> IF i <= Len(prefix) THEN prefix[i] ELSE 1]
        IN  /\ router' = [router EXCEPT !.trie = AddRoute(@, route_prefix, Len(prefix), route)]
            /\ routes' = Append(routes, [prefix |-> prefix, route |-> route])
  BY DEF DoAddRoute
<1>1. PICK hop \in Gateways[n] \cup {NoHop}, prefix \in Prefix :
        LET route == [next_hop |-> hop, interface_num |-> n]
            route_prefix == [i \in 1 .. AddressBits |-> IF i <= Len(prefix) THEN prefix[i] ELSE 1]
        IN  /\ router' = [router EXCEPT !.trie = AddRoute(@, route_prefix, Len(prefix), route)]
            /\ routes' = Append(routes, [prefix |-> prefix, route |-> route])
  BY <1>n
<1> DEFINE route == [next_hop |-> hop, interface_num |-> n]
           route_prefix == [i \in 1 .. AddressBits |-> IF i <= Len(prefix) THEN prefix[i] ELSE 1]
           new == [prefix |-> prefix, route |-> route]
           next == AddRoute(router.trie, route_prefix, Len(prefix), route)
<1>2. /\ TableOK /\ HistoryOK /\ transmitted \in [Port -> SUBSET Frame]
      /\ \A m \in Port : PortOK(m)
      /\ routes \in Seq([prefix : Prefix, route : RouteEntry \ {NoRoute}])
  BY DEF IInv, TableOK, Records
<1>3. Len(routes) \in Nat /\ prefix \in Seq(Bit) /\ Len(prefix) <= AddressBits /\ AddressBits \in Nat
  BY <1>2, PrefixSeq, RouterAssumption
<1>4. route \in RouteEntry \ {NoRoute} /\ route.interface_num \in Port
  <2>1. n \in Nat /\ n # 0
    BY PortFacts
  <2>2. Gateways[n] \subseteq Ip
    BY NeighbourhoodAssumption DEF Port
  <2> QED BY <2>1, <2>2 DEF RouteEntry, NoRoute
<1>5. SubSeq(route_prefix, 1, Len(prefix)) = prefix
  BY <1>3
<1>6. /\ router' = [interfaces |-> router.interfaces, trie |-> next]
      /\ routes' = Append(routes, new)
  BY <1>1, <1>2 DEF TableOK
<1> HIDE DEF route, route_prefix
<1>7. Records(next, Append(routes, new))
  BY <1>2, <1>4, <1>5, AddRouteRecords DEF TableOK
<1>8. \A i \in 1 .. Len(routes') : routes'[i].route.interface_num \in Port
  <2>1. /\ Len(routes') = Len(routes) + 1 /\ routes'[Len(routes) + 1] = new
        /\ \A i \in 1 .. Len(routes) : routes'[i] = routes[i]
    BY <1>2, <1>3, <1>6
  <2>2. \A i \in 1 .. Len(routes') : i \in 1 .. Len(routes) \/ i = Len(routes) + 1
    BY <1>3, <2>1
  <2> QED BY <1>2, <1>4, <2>1, <2>2 DEF TableOK
<1> HIDE DEF new, next
<1>9. TableOK'
  BY <1>2, <1>6, <1>7, <1>8 DEF TableOK
<1>10. UNCHANGED <<arrived, decided, transmitted>> /\ router'.interfaces = router.interfaces
  BY <1>6 DEF DoAddRoute
<1>11. ASSUME NEW m \in Port PROVE PortOK(m)'
  BY <1>2, <1>10 DEF PortOK, Unrouted, OnItsWay, HopOf
<1>12. HistoryOK' /\ transmitted' \in [Port -> SUBSET Frame]
  BY <1>2, <1>10 DEF HistoryOK
<1> QED BY <1>9, <1>11, <1>12 DEF IInv

(* A frame arrives at interface n and neither a route nor what was decided   *)
(* changes.                                                                  *)
LEMMA ReceiveParts ==
  ASSUME IInv, NEW n \in Port, NEW frame, Receive(n, frame),
         RecvFrame(router.interfaces[n], frame).nic \in Interface,
         DatagramFrames(RecvFrame(router.interfaces[n], frame).out) \subseteq Frame
  PROVE  LET result == RecvFrame(router.interfaces[n], frame)
         IN  /\ TableOK' /\ transmitted' \in [Port -> SUBSET Frame]
             /\ router'.interfaces[n] = result.nic
             /\ transmitted'[n] = transmitted[n] \cup DatagramFrames(result.out)
             /\ \A m \in Port \ {n} : /\ router'.interfaces[m] = router.interfaces[m]
                                      /\ transmitted'[m] = transmitted[m]
<1> DEFINE result == RecvFrame(router.interfaces[n], frame)
           frames == DatagramFrames(result.out)
           ifs == [router.interfaces EXCEPT ![n] = result.nic]
<1>1. /\ router = [interfaces |-> router.interfaces, trie |-> router.trie]
      /\ router.interfaces \in [Port -> Interface] /\ transmitted \in [Port -> SUBSET Frame]
      /\ Records(router.trie, routes)
      /\ \A i \in 1 .. Len(routes) : routes[i].route.interface_num \in Port
  BY DEF IInv, TableOK
<1>2. /\ router' = [router EXCEPT !.interfaces[n] = result.nic]
      /\ transmitted' = [transmitted EXCEPT ![n] = @ \cup frames]
      /\ routes' = routes
  BY DEF Receive
<1> HIDE DEF result
<1>3. router' = [interfaces |-> ifs, trie |-> router.trie]
  BY <1>1, <1>2
<1>4. result.nic \in Interface /\ frames \subseteq Frame
  BY DEF result
<1> HIDE DEF frames
<1>5. /\ ifs \in [Port -> Interface] /\ ifs[n] = result.nic
      /\ \A m \in Port \ {n} : ifs[m] = router.interfaces[m]
  BY <1>1, <1>4
<1>6. /\ transmitted' \in [Port -> SUBSET Frame] /\ transmitted'[n] = transmitted[n] \cup frames
      /\ \A m \in Port \ {n} : transmitted'[m] = transmitted[m]
  BY <1>1, <1>2, <1>4
<1> HIDE DEF ifs
<1>7. TableOK'
  BY <1>1, <1>2, <1>3, <1>5 DEF TableOK
<1> QED BY <1>3, <1>5, <1>6, <1>7 DEF result, frames

LEMMA ArrivesKeeps ==
  ASSUME IInv, NEW n \in Port, DatagramArrives(n)
  PROVE  IInv'
<1>1. PICK dst \in Destinations, ttl \in Ttls :
        LET dgram == NewDatagram(Len(arrived) + 1, dst, ttl)
        IN  /\ Receive(n, DatagramOf(n, dgram)) /\ arrived' = Append(arrived, dgram)
  BY DEF DatagramArrives, DatagramOf
<1>d. PICK dgram : dgram = NewDatagram(Len(arrived) + 1, dst, ttl)
  OBVIOUS
<1> DEFINE nic == router.interfaces[n]
           result == RecvFrame(nic, DatagramOf(n, dgram))
<1>2. /\ TableOK /\ HistoryOK /\ transmitted \in [Port -> SUBSET Frame]
      /\ \A m \in Port : PortOK(m)
      /\ nic \in Interface /\ nic.ethernet_address = EthernetOf(InterfaceIps[n])
      /\ arrived \in Seq(Datagram) /\ Len(arrived) \in Nat
      /\ DOMAIN decided \subseteq 1 .. Len(arrived)
      /\ \A i \in 1 .. Len(arrived) : arrived[i].id = i
  BY DEF IInv, TableOK, HistoryOK, PortOK
<1>3. dst \in Ip /\ ttl \in Nat /\ Len(arrived) + 1 \in Nat
  BY <1>2, NeighbourhoodAssumption
<1>4. /\ dgram \in Datagram /\ dgram.id = Len(arrived) + 1 /\ dgram.dst = dst /\ dgram.ttl = ttl
      /\ Requeued(nic, result.nic) /\ result.nic.received = Append(nic.received, dgram)
      /\ result.nic.pending = nic.pending /\ result.out = <<>>
  <2> DEFINE id == Len(arrived) + 1
  <2>1. id \in Nat /\ dst \in Ip /\ ttl \in Nat /\ dgram = NewDatagram(id, dst, ttl)
    BY <1>d, <1>3
  <2>2. id = Len(arrived) + 1 /\ nic \in Interface /\ nic.ethernet_address = EthernetOf(InterfaceIps[n])
    BY <1>2
  <2> HIDE DEF id, nic
  <2>3. /\ dgram \in Datagram /\ dgram.id = id /\ dgram.dst = dst /\ dgram.ttl = ttl
        /\ Requeued(nic, result.nic) /\ result.nic.received = Append(nic.received, dgram)
        /\ result.nic.pending = nic.pending /\ result.out = <<>>
    BY <2>1, <2>2, ArrivalFacts
  <2> QED BY <2>2, <2>3
<1>5. Receive(n, DatagramOf(n, dgram)) /\ arrived' = Append(arrived, dgram) /\ decided' = decided
  BY <1>1, <1>d DEF Receive
<1> HIDE DEF result
<1>6. result.nic \in Interface /\ DatagramFrames(result.out) = {}
  BY <1>4 DEF Requeued, DatagramFrames, ToSet
<1>7. /\ TableOK' /\ transmitted' \in [Port -> SUBSET Frame]
      /\ router'.interfaces[n] = result.nic
      /\ transmitted'[n] = transmitted[n] \cup {}
      /\ \A m \in Port \ {n} : /\ router'.interfaces[m] = router.interfaces[m]
                               /\ transmitted'[m] = transmitted[m]
  BY <1>5, <1>6, ReceiveParts DEF result
<1>8. /\ arrived' \in Seq(Datagram) /\ Len(arrived') = Len(arrived) + 1
      /\ arrived'[Len(arrived) + 1] = dgram
      /\ \A i \in 1 .. Len(arrived) : arrived'[i] = arrived[i]
  BY <1>2, <1>4, <1>5
<1>9. HistoryOK'
  <2>1. \A i \in 1 .. Len(arrived') : i \in 1 .. Len(arrived) \/ i = Len(arrived) + 1
    BY <1>2, <1>8
  <2>2. DOMAIN decided \subseteq 1 .. Len(arrived')
    BY <1>2, <1>8
  <2> QED BY <1>2, <1>4, <1>5, <1>8, <2>1, <2>2 DEF HistoryOK
<1>10. /\ \A d : Unrouted(d) => Unrouted(d)'
       /\ \A m \in Port : \A ip \in Ip : \A x : OnItsWay(x, m, ip) => OnItsWay(x, m, ip)'
  <2>1. Len(arrived) <= Len(arrived')
    BY <1>2, <1>8
  <2> QED BY <1>5, <1>8, <2>1, StillThere
<1>11. Unrouted(dgram)'
  <2>1. Len(arrived) + 1 \in 1 .. Len(arrived') /\ Len(arrived) + 1 \notin DOMAIN decided
    BY <1>2, <1>8
  <2> QED BY <1>4, <1>5, <1>8, <2>1 DEF Unrouted
<1>12. \A d \in ToSet(result.nic.received) : d \in ToSet(nic.received) \/ d = dgram
  <2> DEFINE old == nic.received
             new == Append(old, dgram)
  <2>1. old \in Seq(Datagram)
    BY <1>2, InterfaceParts
  <2> HIDE DEF old
  <2>2. /\ Len(new) = Len(old) + 1 /\ Len(old) \in Nat /\ new[Len(old) + 1] = dgram
        /\ \A i \in 1 .. Len(old) : new[i] = old[i]
        /\ DOMAIN new = 1 .. Len(old) + 1 /\ DOMAIN old = 1 .. Len(old)
    BY <1>4, <2>1
  <2> HIDE DEF new
  <2>3. ToSet(new) = {new[i] : i \in 1 .. Len(old) + 1} /\ ToSet(old) = {old[i] : i \in 1 .. Len(old)}
    BY <2>2 DEF ToSet
  <2>4. \A i \in 1 .. Len(old) + 1 : i \in 1 .. Len(old) \/ i = Len(old) + 1
    BY <2>2
  <2>5. \A d \in ToSet(new) : d \in ToSet(old) \/ d = dgram
    BY <2>2, <2>3, <2>4
  <2> QED BY <1>4, <2>5 DEF old, new
<1>13. ASSUME NEW m \in Port PROVE PortOK(m)'
  <2>1. PortOK(m)
    BY <1>2
  <2>2. CASE m # n
    <3>1. router'.interfaces[m] = router.interfaces[m] /\ transmitted'[m] = transmitted[m]
      BY <1>7, <2>2
    <3> QED BY <1>10, <2>1, <3>1 DEF PortOK
  <2>3. CASE m = n
    <3> DEFINE next == router'.interfaces[m]
    <3>1. /\ next.ethernet_address = nic.ethernet_address /\ next.arp_cache = nic.arp_cache
          /\ next.pending = nic.pending /\ transmitted'[m] = transmitted[m]
          /\ next.received = result.nic.received
      BY <1>4, <1>7, <2>3 DEF Requeued
    <3>2. \A d \in ToSet(next.received) : Unrouted(d)'
      BY <1>10, <1>11, <1>12, <2>1, <2>3, <3>1 DEF PortOK
    <3> HIDE DEF next
    <3>3. /\ next.ethernet_address = EthernetOf(InterfaceIps[m])
          /\ \A ip \in Ip : Knows(next, ip) => next.arp_cache[ip].mac = EthernetOf(ip)
      BY <2>1, <2>3, <3>1 DEF PortOK, Knows
    <3>4. /\ \A ip \in Ip : \A x \in ToSet(next.pending[ip]) : OnItsWay(x, m, ip)'
          /\ \A frame \in transmitted'[m] :
               \E ip \in Ip : frame.dst = EthernetOf(ip) /\ OnItsWay(frame.payload, m, ip)'
      BY <1>10, <2>1, <2>3, <3>1 DEF PortOK
    <3> QED BY <3>2, <3>3, <3>4 DEF PortOK, next
  <2> QED BY <2>2, <2>3
<1> QED BY <1>7, <1>9, <1>13 DEF IInv

LEMMA AnswersKeeps ==
  ASSUME IInv, NEW n \in Port, NeighbourAnswers(n)
  PROVE  IInv'
<1>1. PICK hop \in Neighbours[n] : Receive(n, AnswerOf(n, hop))
  BY DEF NeighbourAnswers, AnswerOf
<1> DEFINE nic == router.interfaces[n]
           result == RecvFrame(nic, AnswerOf(n, hop))
           mapping == [mac |-> EthernetOf(hop), left |-> MAPPING_TTL]
<1>2. /\ TableOK /\ HistoryOK /\ transmitted \in [Port -> SUBSET Frame]
      /\ \A m \in Port : PortOK(m)
      /\ nic \in Interface /\ nic.ethernet_address = EthernetOf(InterfaceIps[n])
      /\ arrived \in Seq(Datagram)
  BY DEF IInv, TableOK, HistoryOK, PortOK
<1>3. hop \in Ip
  BY NeighbourhoodAssumption DEF Port
<1>4. /\ result.nic \in Interface /\ result.nic.ethernet_address = nic.ethernet_address
      /\ result.nic.received = nic.received
      /\ result.nic.pending = [nic.pending EXCEPT ![hop] = <<>>]
      /\ result.nic.arp_cache = [nic.arp_cache EXCEPT ![hop] = mapping]
      /\ \A frame \in DatagramFrames(result.out) :
           /\ frame \in Frame /\ frame.dst = EthernetOf(hop)
           /\ frame.payload \in ToSet(nic.pending[hop])
  BY <1>2, <1>3, AnswerFacts
<1>5. UNCHANGED <<arrived, decided>>
  BY <1>1 DEF NeighbourAnswers, Receive
<1> HIDE DEF result
<1>6. /\ TableOK' /\ transmitted' \in [Port -> SUBSET Frame]
      /\ router'.interfaces[n] = result.nic
      /\ transmitted'[n] = transmitted[n] \cup DatagramFrames(result.out)
      /\ \A m \in Port \ {n} : /\ router'.interfaces[m] = router.interfaces[m]
                               /\ transmitted'[m] = transmitted[m]
  <2>1. DatagramFrames(result.out) \subseteq Frame
    BY <1>4
  <2> QED BY <1>1, <1>4, <2>1, ReceiveParts DEF result
<1>7. HistoryOK'
  BY <1>2, <1>5 DEF HistoryOK
<1>8. /\ \A d : Unrouted(d) => Unrouted(d)'
      /\ \A m \in Port : \A ip \in Ip : \A x : OnItsWay(x, m, ip) => OnItsWay(x, m, ip)'
  BY <1>5 DEF Unrouted, OnItsWay, HopOf
<1>9. ASSUME NEW m \in Port PROVE PortOK(m)'
  <2>1. PortOK(m)
    BY <1>2
  <2>2. CASE m # n
    <3>1. router'.interfaces[m] = router.interfaces[m] /\ transmitted'[m] = transmitted[m]
      BY <1>6, <2>2
    <3> QED BY <1>8, <2>1, <3>1 DEF PortOK
  <2>3. CASE m = n
    <3> DEFINE next == router'.interfaces[m]
    <3>1. next = result.nic
      BY <1>6, <2>3
    <3> HIDE DEF next, mapping
    <3>2. /\ next.ethernet_address = EthernetOf(InterfaceIps[m])
          /\ \A d \in ToSet(next.received) : Unrouted(d)'
      BY <1>4, <1>8, <2>1, <2>3, <3>1 DEF PortOK
    <3>3. ASSUME NEW ip \in Ip, Knows(next, ip) PROVE next.arp_cache[ip].mac = EthernetOf(ip)
      <4>1. nic.arp_cache \in [Ip -> Mapping]
        BY <1>2, InterfaceParts
      <4>2. CASE ip = hop
        <5>1. next.arp_cache[ip] = mapping
          BY <1>3, <1>4, <3>1, <4>1, <4>2
        <5> QED BY <4>2, <5>1 DEF mapping
      <4>3. CASE ip # hop
        <5>1. next.arp_cache[ip] = nic.arp_cache[ip]
          BY <1>3, <1>4, <3>1, <4>1, <4>3
        <5>2. Knows(nic, ip)
          BY <3>3, <5>1 DEF Knows
        <5> QED BY <2>1, <2>3, <5>1, <5>2 DEF PortOK
      <4> QED BY <4>2, <4>3
    <3>4. ASSUME NEW ip \in Ip, NEW x \in ToSet(next.pending[ip]) PROVE OnItsWay(x, m, ip)'
      <4>1. nic.pending \in [Ip -> Seq(Datagram)]
        BY <1>2, InterfaceParts
      <4>2. CASE ip = hop
        <5>1. next.pending[ip] = <<>>
          BY <1>3, <1>4, <3>1, <4>1, <4>2
        <5> QED BY <3>4, <5>1 DEF ToSet
      <4>3. CASE ip # hop
        <5>1. next.pending[ip] = nic.pending[ip]
          BY <1>3, <1>4, <3>1, <4>1, <4>3
        <5> QED BY <1>8, <2>1, <2>3, <3>4, <5>1 DEF PortOK
      <4> QED BY <4>2, <4>3
    <3>5. ASSUME NEW frame \in transmitted'[m]
          PROVE  \E ip \in Ip : frame.dst = EthernetOf(ip) /\ OnItsWay(frame.payload, m, ip)'
      <4>1. CASE frame \in transmitted[n]
        BY <1>8, <2>1, <2>3, <4>1 DEF PortOK
      <4>2. CASE frame \in DatagramFrames(result.out)
        <5>1. frame.dst = EthernetOf(hop) /\ frame.payload \in ToSet(nic.pending[hop])
          BY <1>4, <4>2
        <5>2. OnItsWay(frame.payload, m, hop)
          BY <1>3, <2>1, <2>3, <5>1 DEF PortOK
        <5> QED BY <1>3, <1>8, <5>1, <5>2
      <4> QED BY <1>6, <2>3, <3>5, <4>1, <4>2
    <3> QED BY <3>2, <3>3, <3>4, <3>5 DEF PortOK, next
  <2> QED BY <2>2, <2>3
<1> QED BY <1>6, <1>7, <1>9 DEF IInv

LEMMA TickKeeps ==
  ASSUME IInv, Tick
  PROVE  IInv'
<1> DEFINE ifs == [n \in Port |-> TickInterface(router.interfaces[n], 1)]
<1>1. /\ TableOK /\ HistoryOK /\ transmitted \in [Port -> SUBSET Frame]
      /\ \A n \in Port : PortOK(n)
      /\ router = [interfaces |-> router.interfaces, trie |-> router.trie]
      /\ router.interfaces \in [Port -> Interface]
  BY DEF IInv, TableOK
<1>2. router' = [interfaces |-> ifs, trie |-> router.trie]
  BY <1>1 DEF Tick
<1>3. UNCHANGED <<routes, arrived, decided, transmitted>>
  BY DEF Tick
<1>4. ASSUME NEW n \in Port
      PROVE  LET nic  == router.interfaces[n]
                 next == TickInterface(nic, 1)
             IN  /\ next \in Interface /\ next.ethernet_address = nic.ethernet_address
                 /\ next.received = nic.received /\ next.pending = nic.pending
                 /\ \A ip \in Ip : Knows(next, ip) =>
                      Knows(nic, ip) /\ next.arp_cache[ip].mac = nic.arp_cache[ip].mac
  BY <1>1, TickFacts
<1>5. ifs \in [Port -> Interface] /\ \A n \in Port : ifs[n] = TickInterface(router.interfaces[n], 1)
  BY <1>4
<1> HIDE DEF ifs
<1>6. router'.interfaces = ifs /\ router'.trie = router.trie
  BY <1>2
<1>7. TableOK'
  BY <1>1, <1>2, <1>3, <1>5, <1>6 DEF TableOK
<1>8. HistoryOK' /\ transmitted' \in [Port -> SUBSET Frame]
  BY <1>1, <1>3 DEF HistoryOK
<1>9. ASSUME NEW n \in Port PROVE PortOK(n)'
  <2> DEFINE nic == router.interfaces[n]
             next == router'.interfaces[n]
  <2>1. PortOK(n) /\ transmitted'[n] = transmitted[n]
    BY <1>1, <1>3
  <2>2. next = TickInterface(nic, 1)
    BY <1>5, <1>6
  <2>3. /\ next.ethernet_address = nic.ethernet_address
        /\ next.received = nic.received /\ next.pending = nic.pending
        /\ \A ip \in Ip : Knows(next, ip) =>
             Knows(nic, ip) /\ next.arp_cache[ip].mac = nic.arp_cache[ip].mac
    BY <1>4, <2>2
  <2>4. /\ \A d : Unrouted(d) => Unrouted(d)'
        /\ \A ip : \A x : OnItsWay(x, n, ip) => OnItsWay(x, n, ip)'
    BY <1>3 DEF Unrouted, OnItsWay, HopOf
  <2> HIDE DEF next
  <2>5. /\ next.ethernet_address = EthernetOf(InterfaceIps[n])
        /\ \A ip \in Ip : Knows(next, ip) => next.arp_cache[ip].mac = EthernetOf(ip)
    BY <2>1, <2>3 DEF PortOK
  <2>6. /\ \A d \in ToSet(next.received) : Unrouted(d)'
        /\ \A ip \in Ip : \A x \in ToSet(next.pending[ip]) : OnItsWay(x, n, ip)'
        /\ \A frame \in transmitted'[n] :
             \E ip \in Ip : frame.dst = EthernetOf(ip) /\ OnItsWay(frame.payload, n, ip)'
    BY <2>1, <2>3, <2>4 DEF PortOK
  <2> QED BY <2>5, <2>6 DEF PortOK, next
<1> QED BY <1>7, <1>8, <1>9 DEF IInv

(* Every route leads to an interface there is.                               *)
LEMMA RoutesLead ==
  ASSUME TableOK
  PROVE  Leads(router.trie, Port)
<1> DEFINE trie == router.trie
<1>1. Trie(trie) /\ AddressBits \in Nat
  BY RouterAssumption DEF TableOK, Records
<1>2. ASSUME NEW dst \in Ip
      PROVE  LET route == Lookup(trie, dst)
             IN  route \in RouteEntry /\ (route # NoRoute => route.interface_num \in Port)
  <2> DEFINE route == Lookup(trie, dst)
  <2>1. route \in RouteEntry /\ BestUpTo(trie, dst, AddressBits, route)
    BY <1>1, LookupFinds
  <2> HIDE DEF route, trie
  <2>2. ASSUME route # NoRoute PROVE route.interface_num \in Port
    <3>1. PICK k \in 0 .. AddressBits : RouteAt(trie, Cut(dst, k)) = route
      BY <2>1, <2>2 DEF BestUpTo
    <3>2. Cut(dst, k) \in Prefix
      BY AddressFacts, CutFacts
    <3>3. \E i \in 1 .. Len(routes) : routes[i].route = RouteAt(trie, Cut(dst, k))
      BY <2>2, <3>1, <3>2 DEF TableOK, Records, trie
    <3> QED BY <3>1, <3>3 DEF TableOK
  <2> QED BY <2>1, <2>2 DEF route
<1> QED BY <1>2 DEF Leads

\* What a call of route has made of the router.
RoutedTo(end) ==
  /\ end \in UnderWay(router.trie, router.interfaces, Waiting, {})
  /\ router' = [interfaces |-> end.interfaces, trie |-> router.trie]
  /\ \A n \in Port : end.interfaces[n].received = <<>>
  /\ transmitted' = [n \in Port |-> transmitted[n] \cup DatagramFrames(end.out[n])]

LEMMA RouteParts ==
  ASSUME IInv, DoRoute
  PROVE  /\ \E end : RoutedTo(end)
         /\ UNCHANGED <<routes, arrived>>
         /\ \A d \in Waiting : d \in Datagram /\ Unrouted(d)
         /\ DOMAIN decided' = DOMAIN decided \cup {d.id : d \in Waiting}
         /\ \A id \in DOMAIN decided : decided'[id] = decided[id]
         /\ \A d \in Waiting : decided'[d.id] = Lookup(router.trie, d.dst)
<1>1. /\ TableOK /\ \A n \in Port : PortOK(n)
      /\ router = [interfaces |-> router.interfaces, trie |-> router.trie]
      /\ router.interfaces \in [Port -> Interface] /\ Records(router.trie, routes)
  BY DEF IInv, TableOK
<1>2. Waiting = AllReceived(router)
  BY DEF Waiting, AllReceived
<1>3. PICK end \in UnderWay(router.trie, router.interfaces, Waiting, {}) :
        /\ Route(router) = [router |-> [interfaces |-> end.interfaces, trie |-> router.trie],
                            out |-> end.out]
        /\ \A n \in Port : end.interfaces[n].received = <<>>
  BY <1>1, <1>2, RoutesLead, RouteFacts
<1>4. RoutedTo(end)
  <2>1. /\ router' = Route(router).router
        /\ transmitted' = [n \in Port |-> transmitted[n] \cup DatagramFrames(Route(router).out[n])]
    BY DEF DoRoute
  <2>2. /\ Route(router).router = [interfaces |-> end.interfaces, trie |-> router.trie]
        /\ Route(router).out = end.out
    BY <1>3
  <2> QED BY <1>3, <2>1, <2>2 DEF RoutedTo
<1>5. ASSUME NEW d \in Waiting PROVE d \in Datagram /\ Unrouted(d)
  <2>1. PICK n \in Port : d \in ToSet(router.interfaces[n].received)
    BY DEF Waiting
  <2>2. router.interfaces[n].received \in Seq(Datagram)
    BY <1>1, InterfaceParts
  <2> QED BY <1>1, <2>1, <2>2 DEF PortOK, ToSet
<1>6. /\ DOMAIN decided' = DOMAIN decided \cup {d.id : d \in Waiting}
      /\ \A id \in DOMAIN decided : decided'[id] = decided[id]
      /\ \A id \in DOMAIN decided' \ DOMAIN decided : decided'[id] = LongestMatch(arrived[id].dst)
  BY DEF DoRoute
<1>7. ASSUME NEW d \in Waiting PROVE decided'[d.id] = Lookup(router.trie, d.dst)
  <2>1. d.id \in DOMAIN decided' \ DOMAIN decided /\ arrived[d.id].dst = d.dst
    BY <1>5, <1>6 DEF Unrouted
  <2>2. d.dst \in Ip
    BY <1>5 DEF Datagram
  <2>3. Lookup(router.trie, d.dst) = LongestMatch(d.dst)
    BY <1>1, <2>2, LookupMatches
  <2> QED BY <1>6, <2>1, <2>3
<1> QED BY <1>4, <1>5, <1>6, <1>7 DEF DoRoute

(* What has been routed is where its route leads, with one hop less.         *)
LEMMA RoutedFacts ==
  ASSUME IInv, DoRoute, NEW n \in Port, NEW ip \in Ip, NEW x,
         Routed(router.trie, Waiting, n, ip, x)
  PROVE  /\ OnItsWay(x, n, ip)' /\ x.id \notin DOMAIN decided
         /\ arrived[x.id].ttl > 1 /\ decided'[x.id] # NoRoute /\ x.ttl = arrived[x.id].ttl - 1
<1>1. /\ arrived' = arrived /\ \A d \in Waiting : d \in Datagram /\ Unrouted(d)
      /\ DOMAIN decided' = DOMAIN decided \cup {d.id : d \in Waiting}
      /\ \A d \in Waiting : decided'[d.id] = Lookup(router.trie, d.dst)
  BY RouteParts
<1>2. PICK d \in Waiting :
        LET route == Lookup(router.trie, d.dst)
        IN  /\ ~Expired(d) /\ route # NoRoute
            /\ n = route.interface_num /\ ip = NextHop(route, d) /\ x = Hopped(d)
  BY DEF Routed
<1> DEFINE route == Lookup(router.trie, d.dst)
<1>3. /\ ~Expired(d) /\ route # NoRoute
      /\ n = route.interface_num /\ ip = NextHop(route, d) /\ x = Hopped(d)
      /\ d \in Datagram /\ Unrouted(d) /\ decided'[d.id] = route
  BY <1>1, <1>2
<1>4. route \in RouteEntry
  <2>1. d.dst \in Ip
    BY <1>3 DEF Datagram
  <2> QED BY <2>1, RoutesLead DEF Leads, IInv
<1> HIDE DEF route
<1>5. x.id = d.id /\ x.ttl = d.ttl - 1 /\ d.ttl \in Nat
  BY <1>3, <1>4, HoppedFacts DEF Datagram
<1>6. /\ d.id \notin DOMAIN decided /\ arrived[d.id].dst = d.dst /\ arrived[d.id].ttl = d.ttl
  BY <1>3 DEF Unrouted
<1>7. d.ttl > 1
  BY <1>3, <1>5 DEF Expired
<1>8. HopOf(d.id)' = ip
  BY <1>1, <1>3, <1>6 DEF HopOf, NextHop
<1>9. OnItsWay(x, n, ip)'
  <2>1. x.id \in DOMAIN decided'
    BY <1>1, <1>5
  <2>2. HopOf(x.id)' = ip
    BY <1>5, <1>8 DEF HopOf
  <2> QED BY <1>3, <1>5, <2>1, <2>2 DEF OnItsWay
<1> QED BY <1>3, <1>5, <1>6, <1>7, <1>9

\* Where the datagrams are after the call.
LEMMA RouteQueues ==
  ASSUME IInv, DoRoute
  PROVE  /\ router' = [interfaces |-> router'.interfaces, trie |-> router.trie]
         /\ router'.interfaces \in [Port -> Interface]
         /\ transmitted' \in [Port -> SUBSET Frame]
         /\ \A n \in Port :
              /\ Requeued(router.interfaces[n], router'.interfaces[n])
              /\ router'.interfaces[n].received = <<>>
              /\ \A ip \in Ip : \A x \in ToSet(router'.interfaces[n].pending[ip]) :
                   x \in ToSet(router.interfaces[n].pending[ip])
                     \/ Routed(router.trie, Waiting, n, ip, x)
              /\ \A frame \in transmitted'[n] :
                   frame \in transmitted[n]
                     \/ \E ip \in Ip : /\ Knows(router.interfaces[n], ip)
                                       /\ frame.dst = router.interfaces[n].arp_cache[ip].mac
                                       /\ Routed(router.trie, Waiting, n, ip, frame.payload)
         /\ \A d \in Waiting :
              LET route == Lookup(router.trie, d.dst)
                  n     == route.interface_num
              IN  \/ Expired(d) \/ route = NoRoute
                  \/ Hopped(d) \in ToSet(router'.interfaces[n].pending[NextHop(route, d)])
                  \/ \E frame \in transmitted'[n] : frame.payload = Hopped(d)
<1> DEFINE trie == router.trie
           start == router.interfaces
<1>1. start \in [Port -> Interface] /\ DOMAIN start = Port /\ transmitted \in [Port -> SUBSET Frame]
  BY DEF IInv, TableOK
<1>2. PICK end : RoutedTo(end)
  BY RouteParts
<1>3. /\ end \in UnderWay(trie, start, Waiting, {})
      /\ router' = [interfaces |-> end.interfaces, trie |-> trie]
      /\ \A n \in Port : end.interfaces[n].received = <<>>
      /\ transmitted' = [n \in Port |-> transmitted[n] \cup DatagramFrames(end.out[n])]
  BY <1>2 DEF RoutedTo
<1>4. router'.interfaces = end.interfaces
  BY <1>3
<1> HIDE DEF trie, start
<1>5. /\ end.interfaces \in [Port -> Interface] /\ end.out \in [Port -> Seq(Frame)]
      /\ \A n \in Port :
          /\ Requeued(start[n], end.interfaces[n])
          /\ ToSet(end.interfaces[n].received) \subseteq Waiting
          /\ \A ip \in Ip : \A x \in ToSet(end.interfaces[n].pending[ip]) :
               x \in ToSet(start[n].pending[ip]) \/ Routed(trie, Waiting, n, ip, x)
          /\ \A i \in 1 .. Len(end.out[n]) : end.out[n][i].type = "IPv4" =>
               \E ip \in Ip : /\ Knows(start[n], ip)
                              /\ end.out[n][i].dst = start[n].arp_cache[ip].mac
                              /\ Routed(trie, Waiting, n, ip, end.out[n][i].payload)
      /\ \A d \in Waiting : \/ Handled(trie, end, d)
                            \/ \E n \in Port : d \in ToSet(end.interfaces[n].received)
  BY <1>1, <1>3 DEF UnderWay, Routing
<1>6. ASSUME NEW n \in Port
      PROVE  /\ transmitted'[n] = transmitted[n] \cup DatagramFrames(end.out[n])
             /\ \A frame : frame \in DatagramFrames(end.out[n]) <=>
                  \E i \in 1 .. Len(end.out[n]) : frame = end.out[n][i] /\ end.out[n][i].type = "IPv4"
             /\ DatagramFrames(end.out[n]) \subseteq Frame
  <2> DEFINE out == end.out[n]
  <2>1. out \in Seq(Frame)
    BY <1>5
  <2>2. transmitted'[n] = transmitted[n] \cup DatagramFrames(out)
    BY <1>3
  <2> HIDE DEF out
  <2>3. ToSet(out) = {out[i] : i \in 1 .. Len(out)}
    BY <2>1 DEF ToSet
  <2>4. \A frame : frame \in DatagramFrames(out) <=>
          \E i \in 1 .. Len(out) : frame = out[i] /\ out[i].type = "IPv4"
    BY <2>3 DEF DatagramFrames
  <2>5. DatagramFrames(out) \subseteq Frame
    BY <2>1, <2>4
  <2> QED BY <2>2, <2>4, <2>5 DEF out
<1>7. transmitted' \in [Port -> SUBSET Frame]
  <2>1. \A n \in Port : transmitted[n] \cup DatagramFrames(end.out[n]) \in SUBSET Frame
    BY <1>1, <1>6
  <2> QED BY <1>3, <2>1
<1>8. ASSUME NEW n \in Port, NEW frame \in transmitted'[n]
      PROVE  \/ frame \in transmitted[n]
             \/ \E ip \in Ip : /\ Knows(start[n], ip)
                               /\ frame.dst = start[n].arp_cache[ip].mac
                               /\ Routed(trie, Waiting, n, ip, frame.payload)
  <2>1. CASE frame \in transmitted[n]
    BY <2>1
  <2>2. CASE frame \in DatagramFrames(end.out[n])
    <3>1. PICK i \in 1 .. Len(end.out[n]) : frame = end.out[n][i] /\ end.out[n][i].type = "IPv4"
      BY ZenonT(60), <1>6, <2>2
    <3> QED BY <1>5, <3>1
  <2> QED BY <1>6, <1>8, <2>1, <2>2
<1>9. ASSUME NEW d \in Waiting
      PROVE  LET route == Lookup(trie, d.dst)
                 n     == route.interface_num
             IN  \/ Expired(d) \/ route = NoRoute
                 \/ Hopped(d) \in ToSet(end.interfaces[n].pending[NextHop(route, d)])
                 \/ \E frame \in transmitted'[n] : frame.payload = Hopped(d)
  <2> DEFINE route == Lookup(trie, d.dst)
             n == route.interface_num
             result == [nic |-> end.interfaces[n], out |-> end.out[n]]
  <2>1. Handled(trie, end, d)
    <3>1. \A m \in Port : d \notin ToSet(end.interfaces[m].received)
      BY <1>3 DEF ToSet
    <3> QED BY <1>5, <3>1
  <2>2. route # NoRoute => n \in Port
    <3>1. d.dst \in Ip
      BY RouteParts DEF Datagram
    <3> QED BY <3>1, RoutesLead DEF Leads, IInv, trie
  <2>3. result.nic = end.interfaces[n] /\ result.out = end.out[n]
    OBVIOUS
  <2>4. Expired(d) \/ route = NoRoute \/ Cared(result, Hopped(d), NextHop(route, d))
    BY <2>1 DEF Handled
  <2> HIDE DEF result, route
  <2>5. CASE Hopped(d) \in ToSet(result.nic.pending[NextHop(route, d)])
    BY <2>3, <2>5 DEF route
  <2>6. CASE /\ \E i \in 1 .. Len(result.out) :
                  result.out[i].type = "IPv4" /\ result.out[i].payload = Hopped(d)
             /\ route # NoRoute
    <3>1. PICK i \in 1 .. Len(end.out[n]) :
            end.out[n][i].type = "IPv4" /\ end.out[n][i].payload = Hopped(d)
      BY <2>3, <2>6
    <3>2. end.out[n][i] \in transmitted'[n]
      BY <1>6, <2>2, <2>6, <3>1
    <3> QED BY <3>1, <3>2 DEF route
  <2> QED BY <2>4, <2>5, <2>6 DEF Cared, route
<1> QED BY <1>3, <1>4, <1>5, <1>7, <1>8, <1>9 DEF trie, start

LEMMA RouteKeeps ==
  ASSUME IInv, DoRoute
  PROVE  IInv'
<1>1. /\ TableOK /\ HistoryOK /\ \A n \in Port : PortOK(n)
      /\ router.interfaces \in [Port -> Interface]
      /\ DOMAIN decided \subseteq 1 .. Len(arrived)
  BY DEF IInv, TableOK, HistoryOK
<1>2. /\ UNCHANGED <<routes, arrived>> /\ \A d \in Waiting : Unrouted(d)
      /\ DOMAIN decided' = DOMAIN decided \cup {d.id : d \in Waiting}
      /\ \A id \in DOMAIN decided : decided'[id] = decided[id]
  BY RouteParts
<1>3. /\ router' = [interfaces |-> router'.interfaces, trie |-> router.trie]
      /\ router'.interfaces \in [Port -> Interface] /\ transmitted' \in [Port -> SUBSET Frame]
  BY RouteQueues
<1>4. TableOK'
  <2>1. router'.trie = router.trie
    BY <1>3
  <2> QED BY <1>1, <1>2, <1>3, <2>1 DEF TableOK
<1>5. HistoryOK'
  <2>1. \A d \in Waiting : d.id \in 1 .. Len(arrived)
    BY <1>2 DEF Unrouted
  <2> QED BY <1>1, <1>2, <2>1 DEF HistoryOK
<1>6. \A n : \A ip : \A x : OnItsWay(x, n, ip) => OnItsWay(x, n, ip)'
  BY <1>2 DEF OnItsWay, HopOf
<1>7. ASSUME NEW n \in Port PROVE PortOK(n)'
  <2> DEFINE nic == router.interfaces[n]
             next == router'.interfaces[n]
  <2>1. /\ Requeued(nic, next) /\ next.received = <<>>
        /\ \A ip \in Ip : \A x \in ToSet(next.pending[ip]) :
             x \in ToSet(nic.pending[ip]) \/ Routed(router.trie, Waiting, n, ip, x)
        /\ \A frame \in transmitted'[n] :
             frame \in transmitted[n]
               \/ \E ip \in Ip : /\ Knows(nic, ip) /\ frame.dst = nic.arp_cache[ip].mac
                                 /\ Routed(router.trie, Waiting, n, ip, frame.payload)
    BY RouteQueues
  <2>2. PortOK(n)
    BY <1>1
  <2>3. \A ip \in Ip : \A x : Routed(router.trie, Waiting, n, ip, x) => OnItsWay(x, n, ip)'
    BY RoutedFacts
  <2> HIDE DEF next
  <2>4. /\ next.ethernet_address = EthernetOf(InterfaceIps[n])
        /\ \A ip \in Ip : Knows(next, ip) => next.arp_cache[ip].mac = EthernetOf(ip)
    BY <2>1, <2>2 DEF PortOK, Requeued, Knows
  <2>5. \A d \in ToSet(next.received) : Unrouted(d)'
    BY <2>1 DEF ToSet
  <2>6. \A ip \in Ip : \A x \in ToSet(next.pending[ip]) : OnItsWay(x, n, ip)'
    BY <1>6, <2>1, <2>2, <2>3 DEF PortOK
  <2>7. ASSUME NEW frame \in transmitted'[n]
        PROVE  \E ip \in Ip : frame.dst = EthernetOf(ip) /\ OnItsWay(frame.payload, n, ip)'
    <3>1. CASE frame \in transmitted[n]
      BY <1>6, <2>2, <3>1 DEF PortOK
    <3>2. CASE \E ip \in Ip : /\ Knows(nic, ip) /\ frame.dst = nic.arp_cache[ip].mac
                              /\ Routed(router.trie, Waiting, n, ip, frame.payload)
      <4>1. PICK ip \in Ip : /\ Knows(nic, ip) /\ frame.dst = nic.arp_cache[ip].mac
                             /\ Routed(router.trie, Waiting, n, ip, frame.payload)
        BY <3>2
      <4>2. nic.arp_cache[ip].mac = EthernetOf(ip)
        BY <2>2, <4>1 DEF PortOK
      <4> QED BY <2>3, <4>1, <4>2
    <3> QED BY <2>1, <2>7, <3>1, <3>2
  <2> QED BY <2>4, <2>5, <2>6, <2>7 DEF PortOK, next
<1> QED BY <1>3, <1>4, <1>5, <1>7 DEF IInv

LEMMA InitHolds ==
  ASSUME Init
  PROVE  IInv
<1> DEFINE new(n) == NewInterface(EthernetOf(InterfaceIps[n]), InterfaceIps[n])
           ifs == [n \in Port |-> new(n)]
<1>1. router = [interfaces |-> ifs, trie |-> EmptyTrie]
  BY DEF Init, NewRouter
<1>2. /\ routes = <<>> /\ arrived = <<>> /\ decided = <<>>
      /\ transmitted = [n \in Port |-> {}]
  BY DEF Init
<1>3. ASSUME NEW n \in Port
      PROVE  /\ new(n) \in Interface /\ new(n).ethernet_address = EthernetOf(InterfaceIps[n])
             /\ new(n).received = <<>>
             /\ \A ip \in Ip : new(n).pending[ip] = <<>> /\ ~Knows(new(n), ip)
  <2>1. InterfaceIps[n] \in Ip /\ EthernetOf(InterfaceIps[n]) \in EthernetAddress
    BY NeighbourhoodAssumption DEF Port
  <2>2. NoMapping \in Mapping /\ REQUEST_THROTTLE \in Nat
    BY InterfaceAssumption DEF Mapping
  <2>3. 0 \in 0 .. REQUEST_THROTTLE /\ <<>> \in Seq(Datagram)
    BY <2>2
  <2> QED BY <2>1, <2>2, <2>3 DEF NewInterface, Interface, Knows
<1>4. /\ ifs \in [Port -> Interface]
      /\ \A n \in Port : /\ ifs[n].ethernet_address = EthernetOf(InterfaceIps[n])
                         /\ ifs[n].received = <<>>
                         /\ \A ip \in Ip : ifs[n].pending[ip] = <<>> /\ ~Knows(ifs[n], ip)
  <2> HIDE DEF new
  <2> QED BY <1>3
<1> HIDE DEF ifs
<1>5. Records(EmptyTrie, <<>>)
  <2>1. /\ DOMAIN EmptyTrie = {<<>>} /\ EmptyTrie[<<>>] = NoRoute /\ NoRoute \in RouteEntry
        /\ EmptyTrie \in [DOMAIN EmptyTrie -> RouteEntry]
    BY DEF EmptyTrie, NoRoute, RouteEntry
  <2>2. <<>> \in Prefix /\ Len(<<>>) = 0
    <3>1. <<>> \in Seq(Bit) /\ Len(<<>>) = 0
      OBVIOUS
    <3>2. Len(<<>>) <= AddressBits
      BY <3>1, RouterAssumption
    <3> QED BY <3>1, <3>2, PrefixSeq
  <2>3. Cut(<<>>, 0) = <<>>
    BY <2>2, CutFacts
  <2>4. Trie(EmptyTrie)
    <3>1. \A k \in 0 .. 0 : k = 0
      OBVIOUS
    <3> QED BY <2>1, <2>2, <2>3, <3>1 DEF Trie
  <2>5. \A p : RouteAt(EmptyTrie, p) = NoRoute
    BY <2>1 DEF RouteAt
  <2> QED BY <2>2, <2>4, <2>5 DEF Records
<1>6. TableOK
  <2>1. \A i \in 1 .. Len(routes) : FALSE
    BY <1>2
  <2> QED BY <1>1, <1>2, <1>4, <1>5, <2>1 DEF TableOK
<1>7. HistoryOK
  BY <1>2 DEF HistoryOK
<1>8. ASSUME NEW n \in Port PROVE PortOK(n)
  <2>1. ToSet(<<>>) = {}
    BY DEF ToSet
  <2>2. router.interfaces = ifs /\ transmitted[n] = {}
    BY <1>1, <1>2
  <2> QED BY <1>4, <2>1, <2>2 DEF PortOK
<1>9. transmitted \in [Port -> SUBSET Frame]
  BY <1>2
<1> QED BY <1>6, <1>7, <1>8, <1>9 DEF IInv

(* Every behaviour of the router keeps the invariant.                        *)
THEOREM RouterInvariant == Spec => []IInv
<1>1. Init => IInv
  BY InitHolds
<1>2. IInv /\ [Next]_vars => IInv'
  <2> SUFFICES ASSUME IInv, [Next]_vars PROVE IInv'
    OBVIOUS
  <2>1. CASE DoAddRoute
    BY <2>1, AddRouteKeeps
  <2>2. CASE DoRoute
    BY <2>2, RouteKeeps
  <2>3. CASE Tick
    BY <2>3, TickKeeps
  <2>4. ASSUME NEW n \in Port, DatagramArrives(n) PROVE IInv'
    BY <2>4, ArrivesKeeps
  <2>5. ASSUME NEW n \in Port, NeighbourAnswers(n) PROVE IInv'
    BY <2>5, AnswersKeeps
  <2>6. CASE UNCHANGED vars
    BY <2>6 DEF vars, IInv, TableOK, HistoryOK, PortOK, Unrouted, OnItsWay, HopOf
  <2> QED BY <2>1, <2>2, <2>3, <2>4, <2>5, <2>6 DEF Next
<1> QED BY <1>1, <1>2, PTL DEF Spec

(* For every address, the search of the trie finds the route that the        *)
(* definition of longest-prefix matching names, whatever routes were added   *)
(* and in whatever order (router.cc, add_route and lookup).                  *)
THEOREM LookupCorrect == Spec => []LookupIsLongestMatch
<1>1. IInv => LookupIsLongestMatch
  BY LookupMatches DEF IInv, TableOK, LookupIsLongestMatch
<1> QED BY <1>1, RouterInvariant, PTL

(* Each datagram waits for, and is sent to, the next hop and through the     *)
(* interface that its route named when it was routed (router.cc, route).     *)
THEOREM RouteFollowed == Spec => []FollowsItsRoute
<1>1. IInv => FollowsItsRoute
  <2> SUFFICES ASSUME IInv, NEW n \in Port
               PROVE  /\ \A ip \in Ip : \A i \in 1 .. Len(router.interfaces[n].pending[ip]) :
                           LET id == router.interfaces[n].pending[ip][i].id
                           IN  decided[id].interface_num = n /\ HopOf(id) = ip
                      /\ \A frame \in transmitted[n] :
                           /\ decided[frame.payload.id].interface_num = n
                           /\ frame.dst = EthernetOf(HopOf(frame.payload.id))
    BY DEF FollowsItsRoute
  <2>1. PortOK(n) /\ router.interfaces[n] \in Interface
    BY DEF IInv, TableOK
  <2>2. ASSUME NEW ip \in Ip, NEW i \in 1 .. Len(router.interfaces[n].pending[ip])
        PROVE  LET id == router.interfaces[n].pending[ip][i].id
               IN  decided[id].interface_num = n /\ HopOf(id) = ip
    <3> DEFINE queue == router.interfaces[n].pending[ip]
    <3>1. queue \in Seq(Datagram)
      BY <2>1, InterfaceParts
    <3>2. \A x \in ToSet(queue) : OnItsWay(x, n, ip)
      BY <2>1 DEF PortOK
    <3>3. i \in 1 .. Len(queue)
      BY <2>2
    <3> HIDE DEF queue
    <3>4. queue[i] \in ToSet(queue)
      BY <3>1, <3>3 DEF ToSet
    <3>5. OnItsWay(queue[i], n, ip)
      BY <3>2, <3>4
    <3> QED BY <3>5 DEF OnItsWay, queue
  <2>3. ASSUME NEW frame \in transmitted[n]
        PROVE  /\ decided[frame.payload.id].interface_num = n
               /\ frame.dst = EthernetOf(HopOf(frame.payload.id))
    <3>1. PICK ip \in Ip : frame.dst = EthernetOf(ip) /\ OnItsWay(frame.payload, n, ip)
      BY <2>1 DEF PortOK
    <3> QED BY <3>1 DEF OnItsWay
  <2> QED BY <2>2, <2>3
<1> QED BY <1>1, RouterInvariant, PTL

(* A call of route takes every datagram that has arrived: each with a route  *)
(* and hops left makes one hop, and each other none (router.cc, route).      *)
THEOREM AllRouted == Spec => RoutesAll
<1> DEFINE Fate(id) == {dgram.ttl : dgram \in {d \in Forwarded' : d.id = id}}
           Due(id) == IF arrived[id].ttl > 1 /\ decided'[id] # NoRoute THEN {arrived[id].ttl - 1} ELSE {}
           Step == \A id \in DOMAIN decided' \ DOMAIN decided : Fate(id) = Due(id)
<1>1. ASSUME IInv, [Next]_vars PROVE Step
  <2>1. CASE ~DoRoute
    <3>1. decided' = decided
      BY <1>1, <2>1 DEF Next, vars, DoAddRoute, Tick, DatagramArrives, NeighbourAnswers, Receive
    <3> QED BY <3>1
  <2>2. CASE DoRoute
    <3> SUFFICES ASSUME NEW id \in DOMAIN decided', id \notin DOMAIN decided
                 PROVE  Fate(id) = Due(id)
      OBVIOUS
    <3>1. /\ \A n \in Port : PortOK(n)
          /\ \A d \in Waiting : d \in Datagram /\ Unrouted(d)
          /\ DOMAIN decided' = DOMAIN decided \cup {d.id : d \in Waiting}
          /\ \A d \in Waiting : decided'[d.id] = Lookup(router.trie, d.dst)
      BY <1>1, <2>2, RouteParts DEF IInv
    <3>2. PICK d \in Waiting : d.id = id
      BY <3>1
    <3> DEFINE route == Lookup(router.trie, d.dst)
               out == route.interface_num
    <3>3. /\ d \in Datagram /\ arrived[id].ttl = d.ttl /\ decided'[id] = route
          /\ d.dst \in Ip /\ d.ttl \in Nat
      BY <3>1, <3>2 DEF Unrouted, Datagram
    <3>4. route \in RouteEntry /\ (route # NoRoute => out \in Port)
      BY <1>1, <3>3, RoutesLead DEF Leads, IInv
    <3>5. \A n \in Port :
            /\ \A ip \in Ip : \A x \in ToSet(router'.interfaces[n].pending[ip]) :
                 x \in ToSet(router.interfaces[n].pending[ip])
                   \/ Routed(router.trie, Waiting, n, ip, x)
            /\ \A frame \in transmitted'[n] :
                 frame \in transmitted[n]
                   \/ \E ip \in Ip : Routed(router.trie, Waiting, n, ip, frame.payload)
      BY <1>1, <2>2, RouteQueues
    <3>f. \A x : x \in Forwarded' <=>
            \/ \E n \in Port : \E ip \in Ip : x \in ToSet(router'.interfaces[n].pending[ip])
            \/ \E n \in Port : \E frame \in transmitted'[n] : x = frame.payload
      <4> DEFINE kept == UNION {ToSet(router'.interfaces[n].pending[ip]) : n \in Port, ip \in Ip}
                 gone == UNION {transmitted'[n] : n \in Port}
      <4>1. \A x : x \in Forwarded' <=> x \in kept \/ x \in {frame.payload : frame \in gone}
        BY DEF Forwarded, Port
      <4>2. \A x : x \in kept <=>
              \E n \in Port : \E ip \in Ip : x \in ToSet(router'.interfaces[n].pending[ip])
        OBVIOUS
      <4>3. \A frame : frame \in gone <=> \E n \in Port : frame \in transmitted'[n]
        OBVIOUS
      <4> HIDE DEF kept, gone
      <4>4. \A x : x \in Forwarded' <=> x \in kept \/ \E frame \in gone : x = frame.payload
        BY <4>1
      <4>5. \A x : (\E frame \in gone : x = frame.payload) <=>
                   \E n \in Port : \E frame \in transmitted'[n] : x = frame.payload
        BY <4>3
      <4> QED BY <4>2, <4>4, <4>5
    <3>6. ASSUME NEW n \in Port, NEW ip \in Ip, NEW x, x.id = id,
                 OnItsWay(x, n, ip) \/ Routed(router.trie, Waiting, n, ip, x)
          PROVE  x.ttl \in Due(id)
      <4>1. Routed(router.trie, Waiting, n, ip, x)
        BY <3>6 DEF OnItsWay
      <4>2. arrived[x.id].ttl > 1 /\ decided'[x.id] # NoRoute /\ x.ttl = arrived[x.id].ttl - 1
        BY <1>1, <2>2, <4>1, RoutedFacts
      <4> QED BY <3>6, <4>2
    <3>7. ASSUME NEW x \in Forwarded', x.id = id PROVE x.ttl \in Due(id)
      <4>1. \/ \E n \in Port : \E ip \in Ip : x \in ToSet(router'.interfaces[n].pending[ip])
            \/ \E n \in Port : \E frame \in transmitted'[n] : x = frame.payload
        BY <3>7, <3>f
      <4>2. CASE \E n \in Port : \E ip \in Ip : x \in ToSet(router'.interfaces[n].pending[ip])
        <5>1. PICK n \in Port, ip \in Ip : x \in ToSet(router'.interfaces[n].pending[ip])
          BY <4>2
        <5>2. OnItsWay(x, n, ip) \/ Routed(router.trie, Waiting, n, ip, x)
          BY <3>1, <3>5, <5>1 DEF PortOK
        <5> HIDE DEF Due
        <5> QED BY <3>6, <3>7, <5>2
      <4>3. CASE \E n \in Port : \E frame \in transmitted'[n] : x = frame.payload
        <5>1. PICK n \in Port : \E frame \in transmitted'[n] : x = frame.payload
          BY <4>3
        <5>2. PICK frame \in transmitted'[n] : x = frame.payload
          BY <5>1
        <5>3. \E ip \in Ip : OnItsWay(x, n, ip) \/ Routed(router.trie, Waiting, n, ip, x)
          BY <3>1, <3>5, <5>2 DEF PortOK
        <5> HIDE DEF Due
        <5> QED BY <3>6, <3>7, <5>3
      <4> QED BY <4>1, <4>2, <4>3
    <3>8. ASSUME arrived[id].ttl > 1, decided'[id] # NoRoute
          PROVE  \E x \in Forwarded' : x.id = id /\ x.ttl = arrived[id].ttl - 1
      <4>1. ~Expired(d) /\ route # NoRoute
        BY <3>3, <3>8 DEF Expired
      <4>2. /\ Hopped(d).id = id /\ Hopped(d).ttl = arrived[id].ttl - 1
            /\ NextHop(route, d) \in Ip /\ out \in Port
        BY <3>2, <3>3, <3>4, <4>1, HoppedFacts
      <4>3. \/ Hopped(d) \in ToSet(router'.interfaces[out].pending[NextHop(route, d)])
            \/ \E frame \in transmitted'[out] : frame.payload = Hopped(d)
        BY <1>1, <2>2, <4>1, RouteQueues
      <4>4. Hopped(d) \in Forwarded'
        BY <4>2, <4>3, <3>f
      <4> QED BY <4>2, <4>4
    <3>9. Fate(id) \subseteq Due(id)
      <4> HIDE DEF Due
      <4> QED BY <3>7
    <3>10. Due(id) \subseteq Fate(id)
      BY <3>8
    <3> QED BY <3>9, <3>10
  <2> QED BY <2>1, <2>2
<1>2. IInv /\ [Next]_vars => [Step]_vars
  <2> HIDE DEF Step
  <2> QED BY <1>1
<1> QED BY <1>2, RouterInvariant, PTL DEF Spec, RoutesAll
=============================================================================
