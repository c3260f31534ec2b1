---------------------------- MODULE TCPPeerProofs ----------------------------
(* The operations of a TCPPeer and of its two halves, for every word size,   *)
(* capacity, window, payload size, timeout and stream.  Loops and sequence   *)
(* numbers: what a loop preserves, and that unwrap gives back what was       *)
(* wrapped.  TCPSender: the queue of outstanding segments, the timer and the *)
(* position in the stream stay consistent, and each segment carries what     *)
(* belongs at its position.  TCPReceiver and its Reassembler: the map stays  *)
(* in order, nothing that it counts or keeps is lost or misplaced, and it    *)
(* gives out the bytes that were sent, in order, as soon as it can.  A       *)
(* sender and the receiver of the other side, whatever is between them.      *)
EXTENDS TCPPeer, TLAPS, WellFoundedInduction, FiniteSetTheorems, SequenceTheorems
-----------------------------------------------------------------------------
(* Loops.                                                                    *)

\* h records the states of the first n passes of Step from x.
IsRun(h, Step, x, n) == /\ h[0] = x
                        /\ \A i \in 1..n : h[i] = Step[h[i-1]]

(* Induction over the naturals, stated with a set: a set that contains 0 and *)
(* is closed under successor contains every natural number.                  *)
THEOREM NatSetInduction ==
  ASSUME NEW S, 0 \in S, \A n \in Nat : n \in S => n+1 \in S
  PROVE  Nat \subseteq S
<1> DEFINE T == Nat \ S
           R == OpToRel(<, Nat)
<1> SUFFICES ASSUME T # {} PROVE FALSE
  OBVIOUS
<1>1. PICK x \in T : \A y \in T : ~(<<y, x>> \in R)
  <2>1. IsWellFoundedOn(R, Nat)
    BY NatLessThanWellFounded
  <2> HIDE DEF R
  <2> QED BY <2>1, WFMin
<1>2. x \in Nat /\ x # 0 /\ x \notin S
  BY <1>1
<1>3. x-1 \in Nat /\ x-1 < x /\ (x-1)+1 = x
  BY <1>2
<1>4. <<x-1, x>> \in R
  BY <1>2, <1>3 DEF OpToRel
<1>5. x-1 \in S
  BY <1>1, <1>3, <1>4
<1> QED BY <1>2, <1>3, <1>5

(* A loop of n passes has a record of its states, whatever the number n.     *)
LEMMA RunExists ==
  ASSUME NEW S, NEW x \in S, NEW Step, \A s \in S : Step[s] \in S
  PROVE  \A n \in Nat : \E h \in [0..n -> S] : IsRun(h, Step, x, n)
<1> DEFINE G == {n \in Nat : \E h \in [0..n -> S] : IsRun(h, Step, x, n)}
<1>1. 0 \in G
  <2>1. [i \in 0..0 |-> x] \in [0..0 -> S] /\ IsRun([i \in 0..0 |-> x], Step, x, 0)
    BY DEF IsRun
  <2> QED BY <2>1
<1>2. ASSUME NEW n \in Nat, n \in G PROVE n+1 \in G
  <2>1. PICK h \in [0..n -> S] : IsRun(h, Step, x, n)
    BY <1>2
  <2> DEFINE k == [i \in 0..n+1 |-> IF i = n+1 THEN Step[h[n]] ELSE h[i]]
  <2>2. k \in [0..n+1 -> S]
    BY <2>1
  <2>3. IsRun(k, Step, x, n+1)
    <3>1. k[0] = x
      BY <2>1 DEF IsRun
    <3>2. ASSUME NEW i \in 1..n+1 PROVE k[i] = Step[k[i-1]]
      <4>1. CASE i = n+1
        BY <4>1
      <4>2. CASE i # n+1
        <5>1. i \in 1..n /\ i \in 0..n+1 /\ i-1 \in 0..n+1 /\ i-1 # n+1
          BY <4>2
        <5> QED BY <5>1, <4>2, <2>1 DEF IsRun
      <4> QED BY <4>1, <4>2
    <3> HIDE DEF k
    <3> QED BY <3>1, <3>2 DEF IsRun
  <2>4. n+1 \in Nat
    OBVIOUS
  <2> HIDE DEF k
  <2> QED BY <2>2, <2>3, <2>4
<1> HIDE DEF G
<1>3. Nat \subseteq G
  BY <1>1, <1>2, NatSetInduction
<1> QED BY <1>3 DEF G

(* Two records of the same loop agree wherever both are defined.             *)
LEMMA RunUnique ==
  ASSUME NEW S, NEW x \in S, NEW Step,
         NEW n \in Nat, NEW m \in Nat,
         NEW h \in [0..n -> S], IsRun(h, Step, x, n),
         NEW k \in [0..m -> S], IsRun(k, Step, x, m)
  PROVE  \A i \in Nat : (i <= n /\ i <= m) => h[i] = k[i]
<1> DEFINE G == {i \in Nat : (i <= n /\ i <= m) => h[i] = k[i]}
<1>1. 0 \in G
  BY DEF IsRun
<1>2. ASSUME NEW i \in Nat, i \in G PROVE i+1 \in G
  <2> SUFFICES ASSUME i+1 <= n, i+1 <= m PROVE h[i+1] = k[i+1]
    OBVIOUS
  <2>1. i+1 \in 1..n /\ i+1 \in 1..m /\ (i+1)-1 = i
    OBVIOUS
  <2>2. h[i] = k[i]
    BY <1>2
  <2>3. h[i+1] = Step[h[i]] /\ k[i+1] = Step[k[i]]
    BY <2>1 DEF IsRun
  <2> QED BY <2>2, <2>3
<1> HIDE DEF G
<1>3. Nat \subseteq G
  BY <1>1, <1>2, NatSetInduction
<1> QED BY <1>3 DEF G

(* What Iterate computes: x after no pass, Step of the previous state after  *)
(* one pass more; and it stays in the set of states.                         *)
THEOREM IterateDef ==
  ASSUME NEW S, NEW x \in S, NEW Step, \A s \in S : Step[s] \in S
  PROVE  /\ Iterate(Step, x, 0) = x
         /\ \A n \in Nat : Iterate(Step, x, n+1) = Step[Iterate(Step, x, n)]
         /\ \A n \in Nat : Iterate(Step, x, n) \in S
<1> DEFINE Run(n) == CHOOSE h \in [0..n -> S] : IsRun(h, Step, x, n)
           g == [n \in Nat |-> Run(n)[n]]
           IsIterate(f) == f = [i \in Nat |-> IF i = 0 THEN x ELSE Step[f[i-1]]]
<1>1. \A n \in Nat : Run(n) \in [0..n -> S] /\ IsRun(Run(n), Step, x, n)
  BY RunExists
<1>2. \A n \in Nat : g[n] \in S
  <2>1. \A n \in Nat : n \in 0..n
    OBVIOUS
  <2> HIDE DEF Run
  <2> QED BY ZenonT(30), <1>1, <2>1
<1>3. g[0] = x
  BY <1>1 DEF IsRun
<1>4. ASSUME NEW n \in Nat PROVE g[n+1] = Step[g[n]]
  <2>1. n+1 \in Nat /\ n+1 \in 1..n+1 /\ (n+1)-1 = n /\ n <= n /\ n <= n+1
    OBVIOUS
  <2>2. Run(n+1)[n+1] = Step[Run(n+1)[n]]
    <3>1. IsRun(Run(n+1), Step, x, n+1)
      BY <1>1, <2>1
    <3> HIDE DEF Run
    <3> QED BY <2>1, <3>1 DEF IsRun
  <2>3. Run(n+1)[n] = Run(n)[n]
    <3>1. /\ Run(n) \in [0..n -> S] /\ IsRun(Run(n), Step, x, n)
          /\ Run(n+1) \in [0..n+1 -> S] /\ IsRun(Run(n+1), Step, x, n+1)
      BY <1>1, <2>1
    <3> HIDE DEF Run
    <3> QED BY <3>1, <2>1, RunUnique
  <2> QED BY <2>1, <2>2, <2>3
<1>5. IsIterate(g)
  <2>1. ASSUME NEW n \in Nat PROVE g[n] = IF n = 0 THEN x ELSE Step[g[n-1]]
    <3>1. CASE n = 0
      BY <1>3, <3>1
    <3>2. CASE n # 0
      <4>1. n-1 \in Nat /\ (n-1)+1 = n
        BY <3>2
      <4> HIDE DEF g
      <4> QED BY <4>1, <1>4, <3>2
    <3> QED BY <3>1, <3>2
  <2> HIDE DEF Run
  <2> QED BY <2>1
<1> DEFINE c == CHOOSE f : IsIterate(f)
<1>6. IsIterate(c)
  <2> HIDE DEF IsIterate, g
  <2> QED BY <1>5
<1>7. \A n \in Nat : c[n] = g[n]
  <2> DEFINE G == {n \in Nat : c[n] = g[n]}
  <2>1. 0 \in G
    <3>1. c[0] = x
      <4> HIDE DEF c
      <4> QED BY <1>6
    <3> HIDE DEF c, g
    <3> QED BY <3>1, <1>3
  <2>2. ASSUME NEW n \in Nat, n \in G PROVE n+1 \in G
    <3>1. n+1 \in Nat /\ n+1 # 0 /\ (n+1)-1 = n
      OBVIOUS
    <3>2. c[n+1] = Step[c[n]]
      <4> HIDE DEF c
      <4> QED BY <1>6, <3>1
    <3>3. c[n] = g[n]
      BY <2>2
    <3> HIDE DEF c, g
    <3> QED BY <3>1, <3>2, <3>3, <1>4
  <2> HIDE DEF G
  <2>3. Nat \subseteq G
    BY <2>1, <2>2, NatSetInduction
  <2> QED BY <2>3 DEF G
<1>8. \A n \in Nat : Iterate(Step, x, n) = c[n]
  BY DEF Iterate
<1> HIDE DEF c, g
<1>9. 0 \in Nat /\ \A n \in Nat : n+1 \in Nat
  OBVIOUS
<1> QED BY <1>2, <1>3, <1>4, <1>7, <1>8, <1>9

(* The loop-invariant rule: a set of states that contains the first one and  *)
(* that one pass does not leave contains the state after any number of them. *)
THEOREM IterateInvariant ==
  ASSUME NEW Inv, NEW x \in Inv, NEW Step, \A s \in Inv : Step[s] \in Inv
  PROVE  \A n \in Nat : Iterate(Step, x, n) \in Inv
BY IterateDef
-----------------------------------------------------------------------------
(* Division with remainder, as the provers can use it.                       *)
LEMMA DivMod ==
  ASSUME NEW a \in Int
  PROVE  \E q \in Int : a = q * Modulus + (a % Modulus) /\ (a % Modulus) \in Wrap32
<1>1. Modulus \in Int /\ Modulus > 0
  BY ModulusAssumption
<1>2. a = (a \div Modulus) * Modulus + (a % Modulus) /\ (a % Modulus) \in 0 .. Modulus - 1
  BY <1>1
<1>3. a \div Modulus \in Int
  BY <1>1
<1> QED BY <1>2, <1>3 DEF Wrap32

(* Two multiples of the word size less than one word apart are the same.     *)
LEMMA SameMultiple ==
  ASSUME NEW p \in Int, NEW q \in Int,
         (p - q) * Modulus < Modulus, (q - p) * Modulus < Modulus
  PROVE  p = q
<1>1. Modulus \in Int /\ Modulus > 0
  BY ModulusAssumption
<1>2. ASSUME NEW k \in Int, k > 0 PROVE k * Modulus >= Modulus
  BY <1>1, <1>2
<1>3. ~(p - q > 0) /\ ~(q - p > 0)
  BY <1>1, <1>2
<1> QED BY <1>3

(* A remainder is unique.                                                    *)
LEMMA ModUnique ==
  ASSUME NEW a \in Int, NEW q \in Int, NEW r \in Wrap32, a = q * Modulus + r
  PROVE  a % Modulus = r
<1>1. Modulus \in Int /\ Modulus > 0 /\ r \in Int /\ 0 <= r /\ r < Modulus
  BY ModulusAssumption DEF Wrap32
<1>2. PICK p \in Int : a = p * Modulus + (a % Modulus) /\ (a % Modulus) \in Wrap32
  BY DivMod
<1>3. (a % Modulus) \in Int /\ 0 <= (a % Modulus) /\ (a % Modulus) < Modulus
  BY <1>1, <1>2 DEF Wrap32
<1>4. (p - q) * Modulus = r - (a % Modulus) /\ (q - p) * Modulus = (a % Modulus) - r
  BY <1>1, <1>2, <1>3
<1>5. p = q
  BY <1>1, <1>3, <1>4, SameMultiple
<1> QED BY <1>1, <1>2, <1>3, <1>4, <1>5

(* Wrapping then subtracting the zero point leaves the position modulo the   *)
(* word size: the zero point drops out.                                      *)
LEMMA WrapOffset ==
  ASSUME NEW n \in Nat, NEW zero_point \in Wrap32
  PROVE  (Wrap(n, zero_point) - zero_point) % Modulus = n % Modulus
<1>1. Modulus \in Int /\ Modulus > 0 /\ zero_point \in Int
  BY ModulusAssumption DEF Wrap32
<1>2. PICK p \in Int : n = p * Modulus + (n % Modulus) /\ (n % Modulus) \in Wrap32
  BY DivMod
<1>3. PICK q \in Int : /\ zero_point + n = q * Modulus + ((zero_point + n) % Modulus)
                       /\ ((zero_point + n) % Modulus) \in Wrap32
  <2>1. zero_point + n \in Int
    BY <1>1
  <2> QED BY <2>1, DivMod
<1>4. (n % Modulus) \in Int /\ ((zero_point + n) % Modulus) \in Int
  BY <1>1, <1>2, <1>3 DEF Wrap32
<1>5. Wrap(n, zero_point) - zero_point = (p - q) * Modulus + (n % Modulus)
  BY <1>1, <1>2, <1>3, <1>4 DEF Wrap
<1>6. Wrap(n, zero_point) - zero_point \in Int /\ p - q \in Int
  BY <1>1, <1>4 DEF Wrap
<1> QED BY <1>2, <1>5, <1>6, ModUnique

(* Wrapped numbers are words, and unwrapping gives a natural number.         *)
LEMMA WrapType ==
  ASSUME NEW n \in Nat, NEW zero_point \in Wrap32
  PROVE  Wrap(n, zero_point) \in Wrap32
BY ModulusAssumption DEF Wrap, Wrap32

LEMMA UnwrapType ==
  ASSUME NEW raw \in Wrap32, NEW zero_point \in Wrap32, NEW checkpoint \in Nat
  PROVE  Unwrap(raw, zero_point, checkpoint) \in Nat
<1>1. Modulus \in Int /\ Modulus > 0 /\ raw - zero_point \in Int /\ checkpoint \in Int
  BY ModulusAssumption DEF Wrap32
<1>2. ((raw - zero_point) % Modulus) \in 0 .. Modulus - 1
  BY <1>1
<1>3. (checkpoint % Modulus) \in 0 .. Modulus - 1
  BY <1>1
<1>4. checkpoint - (checkpoint % Modulus) \in Nat
  <2>1. PICK q \in Int : checkpoint = q * Modulus + (checkpoint % Modulus)
    BY <1>1, DivMod
  <2>2. q >= 0
    <3>1. ASSUME NEW k \in Int, k < 0 PROVE k * Modulus <= - Modulus
      BY <1>1, <3>1
    <3> QED BY <1>1, <1>3, <2>1, <3>1
  <2>3. q * Modulus \in Nat
    BY <1>1, <2>2
  <2> QED BY <1>1, <1>3, <2>1, <2>3
<1> QED BY <1>1, <1>2, <1>3, <1>4 DEF Unwrap

(* The round trip of Wrap32::wrap and Wrap32::unwrap: a position less than   *)
(* half the word size away from the checkpoint comes back unchanged, however *)
(* often the stream has wrapped.  Sender and receiver rely on it for every   *)
(* segment and every acknowledgment.                                         *)
THEOREM UnwrapRoundTrip ==
  ASSUME NEW n \in Nat, NEW checkpoint \in Nat, NEW zero_point \in Wrap32,
         Distance(n, checkpoint) < HalfModulus
  PROVE  Unwrap(Wrap(n, zero_point), zero_point, checkpoint) = n
<1>1. /\ Modulus \in Int /\ Modulus > 0
      /\ HalfModulus \in Int /\ HalfModulus + HalfModulus = Modulus
  BY ModulusAssumption DEF HalfModulus
<1>2. PICK p \in Int : n = p * Modulus + (n % Modulus) /\ (n % Modulus) \in Wrap32
  BY DivMod
<1>3. PICK q \in Int : /\ checkpoint = q * Modulus + (checkpoint % Modulus)
                       /\ (checkpoint % Modulus) \in Wrap32
  BY DivMod
<1> DEFINE r == n % Modulus
           s == checkpoint % Modulus
           candidate == r + (checkpoint - s)
<1>4. r \in Int /\ 0 <= r /\ r < Modulus /\ s \in Int /\ 0 <= s /\ s < Modulus
  BY <1>1, <1>2, <1>3 DEF Wrap32
<1>5. candidate = r + q * Modulus /\ n = r + p * Modulus
  BY <1>1, <1>2, <1>3, <1>4
<1>6. n - checkpoint < HalfModulus /\ checkpoint - n < HalfModulus
  BY <1>1 DEF Distance
<1>7. Unwrap(Wrap(n, zero_point), zero_point, checkpoint)
        = CASE /\ candidate > checkpoint
               /\ candidate - checkpoint > HalfModulus
               /\ candidate > Modulus                    -> candidate - Modulus
            [] /\ candidate < checkpoint
               /\ checkpoint - candidate > HalfModulus   -> candidate + Modulus
            [] OTHER                                     -> candidate
  BY WrapOffset DEF Unwrap
<1> HIDE DEF candidate, r, s
<1>8. candidate \in Int
  BY <1>4, <1>5, <1>1
<1>9. p = q \/ p = q - 1 \/ p = q + 1
  <2>1. ASSUME NEW k \in Int, k >= 2 PROVE k * Modulus >= Modulus + Modulus
    BY <1>1, <2>1
  <2>2. (p - q) * Modulus = (n - r) - (checkpoint - s)
    BY <1>1, <1>2, <1>3, <1>4 DEF r, s
  <2>3. (q - p) * Modulus = (checkpoint - s) - (n - r)
    BY <1>1, <1>2, <1>3, <1>4 DEF r, s
  <2>4. (p - q) * Modulus < Modulus + Modulus /\ (q - p) * Modulus < Modulus + Modulus
    BY <1>1, <1>4, <1>6, <2>2, <2>3
  <2>5. ~(p - q >= 2) /\ ~(q - p >= 2)
    BY <2>1, <2>4, <1>1
  <2> QED BY <2>5
<1>10. CASE p = q
  BY <1>1, <1>5, <1>6, <1>7, <1>8, <1>10
<1>11. CASE p = q - 1
  <2>1. candidate = n + Modulus
    BY <1>1, <1>4, <1>5, <1>11
  <2>2. n > 0
    <3>1. CASE n = 0
      <4>1. checkpoint < HalfModulus
        BY <1>6, <3>1, <1>1
      <4>2. checkpoint = 0 * Modulus + checkpoint /\ checkpoint \in Wrap32
        BY <4>1, <1>1 DEF Wrap32
      <4>3. s = checkpoint
        BY <4>2, ModUnique DEF s
      <4>4. candidate = r
        BY <4>3, <1>4, <1>5, <1>3, <1>1 DEF s
      <4> QED BY <1>1, <4>4, <2>1, <1>4, <3>1
    <3> QED BY <3>1
  <2> QED BY <1>1, <1>6, <1>7, <2>1, <2>2
<1>12. CASE p = q + 1
  <2>1. candidate = n - Modulus
    BY <1>1, <1>4, <1>5, <1>12
  <2> QED BY <1>1, <1>6, <1>7, <2>1
<1> QED BY <1>9, <1>10, <1>11, <1>12

(* A multiple of the word size is zero, or at least one or two words away.   *)
LEMMA Multiples ==
  ASSUME NEW j \in Int
  PROVE  /\ j * Modulus \in Int
         /\ j = 0 => j * Modulus = 0
         /\ j = -1 => j * Modulus = -Modulus
         /\ j = 1 => j * Modulus = Modulus
         /\ j >= 2 => j * Modulus >= Modulus + Modulus
         /\ j <= -2 => j * Modulus <= -(Modulus + Modulus)
<1>1. Modulus \in Int /\ Modulus > 0
  BY ModulusAssumption
<1>2. ASSUME NEW k \in Int, k >= 2 PROVE k * Modulus >= Modulus + Modulus
  BY <1>1, <1>2
<1>3. j <= -2 => j * Modulus <= -(Modulus + Modulus)
  <2>1. ASSUME j <= -2 PROVE (-j) * Modulus >= Modulus + Modulus
    <3>1. -j \in Int /\ -j >= 2
      BY <2>1
    <3> QED BY <3>1, <1>2
  <2>2. (-j) * Modulus = -(j * Modulus) /\ j * Modulus \in Int
    BY <1>1
  <2> QED BY <1>1, <2>1, <2>2
<1> QED BY <1>1, <1>2, <1>3

(* The positions of a word: those that are a whole number of words away from *)
(* one of them.                                                              *)
LEMMA PositionsOfWord ==
  ASSUME NEW raw \in Wrap32, NEW zero_point \in Wrap32, NEW n \in Int, NEW q \in Int,
         n = ((raw - zero_point) % Modulus) + q * Modulus
  PROVE  /\ (zero_point + n) % Modulus = raw
         /\ \A m \in Nat : Wrap(m, zero_point) = raw => \E j \in Int : m = n + j * Modulus
<1>1. /\ Modulus \in Int /\ Modulus > 0 /\ raw \in Int /\ zero_point \in Int
      /\ raw - zero_point \in Int /\ zero_point + n \in Int
  BY ModulusAssumption DEF Wrap32
<1>2. PICK k \in Int : /\ raw - zero_point = k * Modulus + ((raw - zero_point) % Modulus)
                       /\ ((raw - zero_point) % Modulus) \in Wrap32
  BY <1>1, DivMod
<1>3. ((raw - zero_point) % Modulus) \in Int
  BY <1>2 DEF Wrap32
<1>4. zero_point + n = (q - k) * Modulus + raw
  BY <1>1, <1>2, <1>3
<1>5. (zero_point + n) % Modulus = raw
  <2>1. q - k \in Int
    OBVIOUS
  <2> QED BY <1>1, <1>4, <2>1, ModUnique, Zenon
<1>6. ASSUME NEW m \in Nat, Wrap(m, zero_point) = raw
      PROVE  \E j \in Int : m = n + j * Modulus
  <2>1. zero_point + m \in Int
    BY <1>1
  <2>2. PICK l \in Int : zero_point + m = l * Modulus + ((zero_point + m) % Modulus)
    BY <2>1, DivMod
  <2>3. zero_point + m = l * Modulus + raw
    BY <1>6, <2>2 DEF Wrap
  <2>4. m = n + (l - (q - k)) * Modulus
    BY <1>1, <1>4, <2>3
  <2> QED BY <2>4
<1> QED BY <1>5, <1>6

(* unwrap() returns a position that wraps to the given number, and none that *)
(* does so is closer to the checkpoint: what the comment on Wrap32::unwrap   *)
(* promises, for every number, zero point and checkpoint.                    *)
THEOREM UnwrapClosest ==
  ASSUME NEW raw \in Wrap32, NEW zero_point \in Wrap32, NEW checkpoint \in Nat
  PROVE  /\ Wrap(Unwrap(raw, zero_point, checkpoint), zero_point) = raw
         /\ \A m \in Nat : Wrap(m, zero_point) = raw =>
              Distance(Unwrap(raw, zero_point, checkpoint), checkpoint) <= Distance(m, checkpoint)
<1>1. /\ Modulus \in Int /\ Modulus > 0 /\ zero_point \in Int /\ raw - zero_point \in Int
      /\ HalfModulus \in Int /\ HalfModulus + HalfModulus = Modulus
  BY ModulusAssumption DEF HalfModulus, Wrap32
<1>2. PICK q \in Int : /\ checkpoint = q * Modulus + (checkpoint % Modulus)
                       /\ (checkpoint % Modulus) \in Wrap32
  BY DivMod
<1>3. ((raw - zero_point) % Modulus) \in Wrap32
  BY <1>1, DivMod
<1> DEFINE offset == (raw - zero_point) % Modulus
           candidate == offset + (checkpoint - (checkpoint % Modulus))
           result == Unwrap(raw, zero_point, checkpoint)
<1>4. /\ offset \in Int /\ 0 <= offset /\ offset < Modulus
      /\ (checkpoint % Modulus) \in Int
      /\ 0 <= (checkpoint % Modulus) /\ (checkpoint % Modulus) < Modulus
  BY <1>1, <1>2, <1>3 DEF Wrap32
<1>5. candidate \in Int /\ candidate = offset + q * Modulus
  BY <1>1, <1>2, <1>4
<1>6. candidate - checkpoint < Modulus /\ checkpoint - candidate < Modulus
  BY <1>1, <1>4
<1>7. result = CASE /\ candidate > checkpoint
                    /\ candidate - checkpoint > HalfModulus
                    /\ candidate > Modulus                    -> candidate - Modulus
                 [] /\ candidate < checkpoint
                    /\ checkpoint - candidate > HalfModulus   -> candidate + Modulus
                 [] OTHER                                     -> candidate
  BY DEF Unwrap
<1>8. result \in Nat
  BY UnwrapType
<1>9. \A m \in Nat : Wrap(m, zero_point) = raw => \E j \in Int : m = candidate + j * Modulus
  BY <1>5, PositionsOfWord
<1>10. Wrap(result, zero_point) = raw
  <2>1. PICK d \in {-1, 0, 1} : result = candidate + d * Modulus
    BY <1>1, <1>5, <1>7
  <2>2. result = offset + (q + d) * Modulus
    BY <1>1, <1>4, <1>5, <2>1
  <2>3. q + d \in Int /\ result \in Int
    BY <1>8, <2>1
  <2> QED BY <2>2, <2>3, PositionsOfWord DEF Wrap
<1>11. candidate > checkpoint => candidate # Modulus
  <2>1. SUFFICES ASSUME candidate = Modulus, candidate > checkpoint PROVE FALSE
    OBVIOUS
  <2>2. checkpoint = 0 * Modulus + checkpoint /\ checkpoint \in Wrap32
    BY <1>1, <2>1 DEF Wrap32
  <2>3. checkpoint % Modulus = checkpoint
    BY <2>2, ModUnique
  <2>4. candidate = offset
    BY <1>4, <2>3
  <2> QED BY <1>1, <1>4, <2>1, <2>4
<1> HIDE DEF offset, candidate, result
<1>12. ASSUME NEW m \in Nat, Wrap(m, zero_point) = raw
       PROVE  Distance(result, checkpoint) <= Distance(m, checkpoint)
  <2>1. PICK j \in Int : m = candidate + j * Modulus
    BY <1>9, <1>12
  <2> DEFINE shift == j * Modulus
  <2>2. /\ shift \in Int
        /\ \/ shift = 0 \/ shift = Modulus \/ shift = -Modulus
           \/ shift >= Modulus + Modulus \/ shift <= -(Modulus + Modulus)
    <3>1. j = 0 \/ j = 1 \/ j = -1 \/ j >= 2 \/ j <= -2
      OBVIOUS
    <3> QED BY <3>1, Multiples
  <2>3. m = candidate + shift
    BY <2>1
  <2> HIDE DEF shift
  <2>4. CASE shift = 0 \/ shift = Modulus \/ shift = -Modulus
    BY <1>1, <1>5, <1>6, <1>7, <1>8, <1>11, <2>2, <2>3, <2>4 DEF Distance
  <2>5. CASE shift >= Modulus + Modulus \/ shift <= -(Modulus + Modulus)
    BY <1>1, <1>5, <1>6, <1>7, <1>8, <1>11, <2>2, <2>3, <2>5 DEF Distance
  <2> QED BY <2>2, <2>4, <2>5
<1> QED BY <1>10, <1>12 DEF result
-----------------------------------------------------------------------------
(* What every operation keeps.                                               *)

\* pos gives the absolute sequence number of each outstanding segment, and of
\* the next one, which the code only keeps modulo the word size.
Layout(snd, pos) ==
  LET n == Len(snd.outstanding)
  IN  /\ pos \in [1 .. n + 1 -> Nat]
      /\ pos[n + 1] = snd.next_seqno
      /\ \A i \in 1..n : /\ snd.outstanding[i].seqno = Wrap(pos[i], snd.isn)
                         /\ pos[i + 1] = pos[i] + SequenceLength(snd.outstanding[i])
                         /\ pos[i] < pos[i + 1]
      /\ \A i, j \in 1 .. n + 1 : i <= j => pos[i] <= pos[j]
      /\ snd.flight = snd.next_seqno - pos[1]
      /\ snd.flight <= MAX_WINDOW

\* The acknowledged position lies in the oldest outstanding segment, or at
\* its beginning.
Settled(snd, pos) ==
  /\ pos[1] <= snd.ackno
  /\ snd.ackno <= snd.next_seqno
  /\ \A i \in 1 .. Len(snd.outstanding) : pos[i + 1] > snd.ackno

Timer(snd) ==
  /\ snd.timer_running <=> snd.outstanding # <<>>
  /\ ~snd.timer_running => snd.time_elapsed = 0
  /\ snd.time_elapsed < snd.current_RTO

Position(snd) ==
  /\ snd.next_seqno = Count(snd.syn_sent) + snd.input.total_poped + Count(snd.fin_sent)
  /\ snd.input.total_pushed = snd.input.total_poped + Len(snd.input.buffer)
  /\ snd.input.total_pushed - snd.input.total_poped <= snd.input.capacity
  /\ snd.fin_sent => snd.input.closed /\ snd.input.buffer = <<>>

\* Until the SYN is sent nothing can shrink the congestion window, so the SYN
\* is never held back by silly window avoidance.
Window(snd) ==
  /\ snd.cwnd >= MSS /\ snd.ssthresh >= MSS
  /\ ~snd.syn_sent => snd.cwnd > MSS /\ snd.next_seqno = 0

Good(snd) ==
  /\ snd \in Sender
  /\ Timer(snd)
  /\ Position(snd)
  /\ Window(snd)
  /\ \E pos : Layout(snd, pos) /\ Settled(snd, pos)
-----------------------------------------------------------------------------
(* Layout and Settled see only the queue and its position.                   *)
LEMMA LayoutCongruence ==
  ASSUME NEW r, NEW s, NEW pos, Layout(r, pos),
         s.outstanding = r.outstanding, s.isn = r.isn,
         s.next_seqno = r.next_seqno, s.flight = r.flight
  PROVE  Layout(s, pos)
<1>1. Len(s.outstanding) = Len(r.outstanding)
  OBVIOUS
<1>2. /\ pos \in [1 .. Len(s.outstanding) + 1 -> Nat]
      /\ pos[Len(s.outstanding) + 1] = s.next_seqno
      /\ s.flight = s.next_seqno - pos[1] /\ s.flight <= MAX_WINDOW
  BY <1>1 DEF Layout
<1>3. \A i, j \in 1 .. Len(s.outstanding) + 1 : i <= j => pos[i] <= pos[j]
  BY <1>1 DEF Layout
<1>4. \A i \in 1 .. Len(s.outstanding) :
        /\ s.outstanding[i].seqno = Wrap(pos[i], s.isn)
        /\ pos[i + 1] = pos[i] + SequenceLength(s.outstanding[i])
        /\ pos[i] < pos[i + 1]
  BY <1>1 DEF Layout
<1> QED BY <1>2, <1>3, <1>4 DEF Layout

LEMMA SettledCongruence ==
  ASSUME NEW r, NEW s, NEW pos, Settled(r, pos), s.outstanding = r.outstanding,
         s.next_seqno = r.next_seqno, s.ackno = r.ackno
  PROVE  Settled(s, pos)
BY DEF Settled
-----------------------------------------------------------------------------
(* Types of the helpers.                                                     *)

LEMMA CountType == ASSUME NEW b \in BOOLEAN PROVE Count(b) \in 0..1
BY DEF Count

LEMMA SequenceLengthType ==
  ASSUME NEW msg \in SenderMessage
  PROVE  SequenceLength(msg) \in Nat
<1>1. Len(msg.payload) \in Nat
  BY DEF SenderMessage
<1>2. Count(msg.SYN) \in Nat /\ Count(msg.FIN) \in Nat
  BY DEF Count
<1> QED BY <1>1, <1>2 DEF SequenceLength

LEMMA PopBytesType ==
  ASSUME NEW s \in Stream, NEW len \in Nat
  PROVE  PopBytes(s, len) \in Stream
<1>1. s.buffer \in Seq(Byte) /\ Len(s.buffer) \in Nat /\ s.total_poped \in Nat
  BY DEF Stream
<1>2. SubSeq(s.buffer, len + 1, Len(s.buffer)) \in Seq(Byte) /\ s.total_poped + len \in Nat
  BY <1>1
<1> QED BY <1>2 DEF PopBytes, Stream

(* What popping a prefix of the buffer leaves.                               *)
LEMMA PopBytesPrefix ==
  ASSUME NEW s \in Stream, NEW len \in 0 .. Len(s.buffer)
  PROVE  /\ PopBytes(s, len).total_poped = s.total_poped + len
         /\ Len(PopBytes(s, len).buffer) = Len(s.buffer) - len
         /\ len = Len(s.buffer) => PopBytes(s, len).buffer = <<>>
         /\ PopBytes(s, len).total_pushed = s.total_pushed
         /\ PopBytes(s, len).capacity = s.capacity
         /\ PopBytes(s, len).closed = s.closed
         /\ PopBytes(s, len).error = s.error
<1>1. s.buffer \in Seq(Byte) /\ Len(s.buffer) \in Nat
  BY DEF Stream
<1>2. Len(SubSeq(s.buffer, len + 1, Len(s.buffer))) = Len(s.buffer) - len
  BY <1>1
<1>3. len = Len(s.buffer) => SubSeq(s.buffer, len + 1, Len(s.buffer)) = <<>>
  BY <1>1
<1> QED BY <1>1, <1>2, <1>3 DEF PopBytes, Stream

(* The wrapped number of an outstanding segment unwraps to its position.     *)
LEMMA OutstandingPosition ==
  ASSUME NEW snd \in Sender, NEW pos, Layout(snd, pos),
         NEW i \in 1 .. Len(snd.outstanding)
  PROVE  Unwrap(snd.outstanding[i].seqno, snd.isn, snd.next_seqno) = pos[i]
<1> DEFINE n == Len(snd.outstanding)
<1>1. n \in Nat /\ snd.isn \in Wrap32 /\ snd.next_seqno \in Nat
  BY DEF Sender
<1>2. pos[i] \in Nat /\ pos[1] \in Nat /\ pos[1] <= pos[i] /\ pos[i] <= snd.next_seqno
  <2>1. i \in 1 .. n+1 /\ 1 \in 1 .. n+1 /\ n+1 \in 1 .. n+1 /\ 1 <= i /\ i <= n+1
    BY <1>1
  <2> QED BY <2>1 DEF Layout
<1>3. snd.next_seqno - pos[1] < HalfModulus
  BY <1>1, <1>2, SenderAssumption, WindowAssumption, ModulusAssumption DEF Layout, HalfModulus
<1>4. Distance(pos[i], snd.next_seqno) < HalfModulus
  BY <1>1, <1>2, <1>3, ModulusAssumption DEF Distance, HalfModulus
<1>5. snd.outstanding[i].seqno = Wrap(pos[i], snd.isn)
  BY DEF Layout
<1> QED BY <1>1, <1>2, <1>4, <1>5, UnwrapRoundTrip
-----------------------------------------------------------------------------
(* push                                                                      *)

(* The fields of a sender after a first transmission.                        *)
LEMMA SentFields ==
  ASSUME NEW snd \in Sender, NEW msg \in SenderMessage
  PROVE  LET s == Sent(snd, msg)
         IN  /\ s \in Sender
             /\ s.input = PopBytes(snd.input, Len(msg.payload))
             /\ s.isn = snd.isn /\ s.syn_sent = TRUE
             /\ s.fin_sent = (snd.fin_sent \/ msg.FIN)
             /\ s.outstanding = Append(snd.outstanding, msg)
             /\ s.next_seqno = snd.next_seqno + SequenceLength(msg)
             /\ s.flight = snd.flight + SequenceLength(msg)
             /\ s.timer_running = TRUE
             /\ s.ackno = snd.ackno /\ s.window_size = snd.window_size
             /\ s.time_elapsed = snd.time_elapsed /\ s.current_RTO = snd.current_RTO
             /\ s.retransmissions = snd.retransmissions
             /\ s.cwnd = snd.cwnd /\ s.ssthresh = snd.ssthresh
<1>1. SequenceLength(msg) \in Nat /\ Len(msg.payload) \in Nat
  BY SequenceLengthType DEF SenderMessage
<1>2. snd.input \in Stream /\ snd.next_seqno \in Nat /\ snd.flight \in Nat
      /\ snd.outstanding \in Seq(SenderMessage) /\ snd.fin_sent \in BOOLEAN
  BY DEF Sender
<1>3. PopBytes(snd.input, Len(msg.payload)) \in Stream
  BY <1>1, <1>2, PopBytesType
<1>4. /\ snd.next_seqno + SequenceLength(msg) \in Nat
      /\ snd.flight + SequenceLength(msg) \in Nat
      /\ Append(snd.outstanding, msg) \in Seq(SenderMessage)
      /\ (snd.fin_sent \/ msg.FIN) \in BOOLEAN
  BY <1>1, <1>2
<1>5. Sent(snd, msg) \in Sender
  BY <1>3, <1>4 DEF Sent, Sender
<1> QED BY <1>5 DEF Sent, Sender

(* A new segment at the end of the queue extends the tiling.                 *)
LEMMA AppendKeepsLayout ==
  ASSUME NEW snd \in Sender, NEW msg \in SenderMessage,
         NEW pos, Layout(snd, pos), Settled(snd, pos),
         msg.seqno = Wrap(snd.next_seqno, snd.isn),
         SequenceLength(msg) > 0, snd.flight + SequenceLength(msg) <= MAX_WINDOW
  PROVE  \E q : Layout(Sent(snd, msg), q) /\ Settled(Sent(snd, msg), q)
<1> DEFINE n == Len(snd.outstanding)
           t == Sent(snd, msg)
           last == snd.next_seqno + SequenceLength(msg)
           q == [i \in 1 .. n + 2 |-> IF i = n + 2 THEN last ELSE pos[i]]
<1>1. /\ n \in Nat /\ snd.next_seqno \in Nat /\ SequenceLength(msg) \in Nat
      /\ snd.ackno \in Nat /\ snd.flight \in Nat /\ last \in Nat
  BY SMTT(60), SequenceLengthType DEF Sender
<1>2. /\ t.outstanding = Append(snd.outstanding, msg)
      /\ t.next_seqno = last /\ t.flight = snd.flight + SequenceLength(msg)
      /\ t.ackno = snd.ackno /\ t.isn = snd.isn
  BY SentFields
<1>3. /\ snd.outstanding \in Seq(SenderMessage)
      /\ Len(t.outstanding) = n + 1
      /\ t.outstanding[n + 1] = msg
      /\ \A i \in 1..n : t.outstanding[i] = snd.outstanding[i]
  BY <1>2 DEF Sender
<1>4. /\ pos \in [1 .. n + 1 -> Nat] /\ pos[n + 1] = snd.next_seqno
      /\ \A i, j \in 1 .. n + 1 : i <= j => pos[i] <= pos[j]
      /\ snd.flight = snd.next_seqno - pos[1]
      /\ \A i \in 1..n : /\ snd.outstanding[i].seqno = Wrap(pos[i], snd.isn)
                         /\ pos[i + 1] = pos[i] + SequenceLength(snd.outstanding[i])
                         /\ pos[i] < pos[i + 1]
  BY DEF Layout
<1>5. /\ q \in [1 .. (n + 1) + 1 -> Nat] /\ q[(n + 1) + 1] = last
      /\ q[1] = pos[1] /\ \A i \in 1 .. n + 1 : q[i] = pos[i]
  BY SMTT(60), <1>1, <1>4
<1> HIDE DEF q, t, last
<1>6. \A i \in 1 .. n + 1 : /\ t.outstanding[i].seqno = Wrap(q[i], t.isn)
                            /\ q[i + 1] = q[i] + SequenceLength(t.outstanding[i])
                            /\ q[i] < q[i + 1]
  <2> SUFFICES ASSUME NEW i \in 1 .. n + 1
               PROVE  /\ t.outstanding[i].seqno = Wrap(q[i], t.isn)
                      /\ q[i + 1] = q[i] + SequenceLength(t.outstanding[i])
                      /\ q[i] < q[i + 1]
    OBVIOUS
  <2>1. CASE i = n + 1
    <3>1. n + 1 \in 1 .. n + 1 /\ q[i] = snd.next_seqno /\ q[i + 1] = last
      BY <2>1, <1>1, <1>4, <1>5
    <3>2. t.outstanding[i] = msg /\ t.isn = snd.isn
      BY <2>1, <1>2, <1>3
    <3> QED BY <3>1, <3>2, <1>1 DEF last
  <2>2. CASE i # n + 1
    <3>1. i \in 1..n /\ i + 1 \in 1 .. n + 1 /\ i \in 1 .. n + 1
      BY <2>2, <1>1
    <3>2. q[i] = pos[i] /\ q[i + 1] = pos[i + 1]
      BY <3>1, <1>5
    <3>3. t.outstanding[i] = snd.outstanding[i] /\ t.isn = snd.isn
      BY <3>1, <1>2, <1>3
    <3>4. /\ snd.outstanding[i].seqno = Wrap(pos[i], snd.isn)
          /\ pos[i + 1] = pos[i] + SequenceLength(snd.outstanding[i])
          /\ pos[i] < pos[i + 1]
      BY <3>1, <1>4
    <3> QED BY <3>2, <3>3, <3>4
  <2> QED BY <2>1, <2>2
<1>7. \A i, j \in 1 .. (n + 1) + 1 : i <= j => q[i] <= q[j]
  <2> SUFFICES ASSUME NEW i \in 1 .. (n + 1) + 1, NEW j \in 1 .. (n + 1) + 1, i <= j
               PROVE  q[i] <= q[j]
    OBVIOUS
  <2>1. CASE j \in 1 .. n + 1
    <3>1. i \in 1 .. n + 1
      BY <2>1, <1>1
    <3>2. q[i] = pos[i] /\ q[j] = pos[j]
      BY <2>1, <3>1, <1>5
    <3> QED BY <2>1, <3>1, <3>2, <1>4
  <2>2. CASE j = (n + 1) + 1 /\ i = j
    BY <2>2, <1>1, <1>5
  <2>3. CASE j = (n + 1) + 1 /\ i \in 1 .. n + 1
    <3>1. n + 1 \in 1 .. n + 1 /\ i <= n + 1
      BY <2>3, <1>1
    <3>2. pos[i] <= snd.next_seqno /\ pos[i] \in Nat
      BY <2>3, <3>1, <1>4
    <3> QED BY <2>3, <3>2, <1>1, <1>5 DEF last
  <2> QED BY <2>1, <2>2, <2>3, <1>1
<1>8. t.flight = t.next_seqno - q[1] /\ t.flight <= MAX_WINDOW
  <2>1. pos[1] \in Nat
    BY <1>1, <1>4
  <2> QED BY SMTT(60), <2>1, <1>1, <1>2, <1>4, <1>5 DEF last
<1>9. Layout(t, q)
  BY <1>2, <1>3, <1>5, <1>6, <1>7, <1>8 DEF Layout
<1>10. Settled(t, q)
  <2>1. pos[1] <= snd.ackno /\ snd.ackno <= snd.next_seqno
        /\ \A i \in 1..n : pos[i + 1] > snd.ackno
    BY DEF Settled
  <2>2. \A i \in 1 .. n + 1 : q[i + 1] > snd.ackno
    <3> SUFFICES ASSUME NEW i \in 1 .. n + 1 PROVE q[i + 1] > snd.ackno
      OBVIOUS
    <3>1. CASE i = n + 1
      BY <3>1, <2>1, <1>1, <1>5 DEF last
    <3>2. CASE i # n + 1
      <4>1. i \in 1..n /\ i + 1 \in 1 .. n + 1
        BY <3>2, <1>1
      <4> QED BY <4>1, <2>1, <1>5
    <3> QED BY <3>1, <3>2
  <2> QED BY <2>1, <2>2, <1>1, <1>2, <1>3, <1>5 DEF Settled, last
<1> QED BY <1>9, <1>10 DEF t

LEMMA EffectiveWindowType ==
  ASSUME NEW snd \in Sender
  PROVE  /\ EffectiveWindow(snd) \in Nat /\ EffectiveWindow(snd) > 0
         /\ EffectiveWindow(snd) <= MAX_WINDOW /\ EffectiveWindow(snd) <= snd.cwnd
<1>1. snd.cwnd \in Nat \ {0} /\ snd.window_size \in 0 .. MAX_WINDOW
  BY DEF Sender
<1> QED BY <1>1, SenderAssumption, WindowAssumption DEF EffectiveWindow, Least

(* What a pass of the loop composes when the window has room.                *)
LEMMA NextSegmentFields ==
  ASSUME NEW snd \in Sender, EffectiveWindow(snd) > snd.flight
  PROVE  LET msg == NextSegment(snd)
             len == PayloadLen(snd)
         IN  /\ msg \in SenderMessage
             /\ len \in 0 .. Len(snd.input.buffer) /\ Len(msg.payload) = len
             /\ msg.payload = SubSeq(snd.input.buffer, 1, len)
             /\ msg.SYN = ~snd.syn_sent
             /\ msg.seqno = Wrap(snd.next_seqno, snd.isn)
             /\ msg.FIN = (/\ snd.input.closed /\ ~snd.fin_sent
                           /\ AvailableWindow(snd) > len
                           /\ len = Len(snd.input.buffer))
             /\ snd.flight + SequenceLength(msg) <= EffectiveWindow(snd)
<1> DEFINE msg == NextSegment(snd)
           len == PayloadLen(snd)
<1>1. /\ snd.input.buffer \in Seq(Byte) /\ Len(snd.input.buffer) \in Nat
      /\ snd.input.closed \in BOOLEAN /\ snd.input.error \in BOOLEAN
      /\ snd.syn_sent \in BOOLEAN /\ snd.fin_sent \in BOOLEAN
      /\ snd.flight \in Nat /\ snd.next_seqno \in Nat /\ snd.isn \in Wrap32
  BY SMTT(60) DEF Sender, Stream
<1>2. EffectiveWindow(snd) \in Nat
  BY EffectiveWindowType
<1>3. AvailableWindow(snd) \in Nat
      /\ AvailableWindow(snd) + Count(~snd.syn_sent) = EffectiveWindow(snd) - snd.flight
      /\ Count(~snd.syn_sent) \in 0..1
  BY <1>1, <1>2 DEF AvailableWindow, Count
<1>4. len \in 0 .. Len(snd.input.buffer) /\ len <= AvailableWindow(snd)
  BY <1>1, <1>3, SenderAssumption, WindowAssumption DEF PayloadLen, Least
<1>5. /\ SubSeq(snd.input.buffer, 1, len) \in Seq(Byte)
      /\ Len(SubSeq(snd.input.buffer, 1, len)) = len
  BY <1>1, <1>4
<1>6. Wrap(snd.next_seqno, snd.isn) \in Wrap32
  BY <1>1, WrapType
<1>7. /\ msg.payload = SubSeq(snd.input.buffer, 1, len)
      /\ msg.SYN = ~snd.syn_sent
      /\ msg.seqno = Wrap(snd.next_seqno, snd.isn)
      /\ msg.FIN = (/\ snd.input.closed /\ ~snd.fin_sent
                    /\ AvailableWindow(snd) > len
                    /\ len = Len(snd.input.buffer))
  BY DEF NextSegment, MakeEmptyMessage
<1>8. msg \in SenderMessage
  BY <1>1, <1>5, <1>6 DEF SenderMessage, NextSegment, MakeEmptyMessage, HasError
<1> HIDE DEF msg, len
<1>9. msg.FIN => AvailableWindow(snd) > len
  BY <1>7
<1>10. snd.flight + SequenceLength(msg) <= EffectiveWindow(snd)
  <2>1. SequenceLength(msg) = Count(~snd.syn_sent) + len + Count(msg.FIN)
    BY <1>5, <1>7 DEF SequenceLength
  <2>2. Count(msg.FIN) \in 0..1 /\ (Count(msg.FIN) = 1 => AvailableWindow(snd) > len)
    BY <1>9, <1>7 DEF Count
  <2> QED BY <2>1, <2>2, <1>1, <1>2, <1>3, <1>4
<1> QED BY <1>4, <1>5, <1>7, <1>8, <1>10 DEF msg, len

(* The first transmission of that segment.                                   *)
LEMMA SentKeepsGood ==
  ASSUME NEW snd \in Sender, Good(snd), EffectiveWindow(snd) > snd.flight,
         SequenceLength(NextSegment(snd)) # 0
  PROVE  Good(Sent(snd, NextSegment(snd)))
<1> DEFINE msg == NextSegment(snd)
           len == PayloadLen(snd)
           t   == Sent(snd, msg)
<1>1. /\ msg \in SenderMessage
      /\ len \in 0 .. Len(snd.input.buffer) /\ Len(msg.payload) = len
      /\ msg.SYN = ~snd.syn_sent
      /\ msg.seqno = Wrap(snd.next_seqno, snd.isn)
      /\ msg.FIN => snd.input.closed /\ ~snd.fin_sent /\ len = Len(snd.input.buffer)
      /\ snd.flight + SequenceLength(msg) <= EffectiveWindow(snd)
  BY NextSegmentFields
<1>2. SequenceLength(msg) \in Nat /\ SequenceLength(msg) > 0
  BY <1>1, SequenceLengthType
<1>3. snd.flight + SequenceLength(msg) <= MAX_WINDOW
  <2>1. EffectiveWindow(snd) \in Nat /\ EffectiveWindow(snd) <= MAX_WINDOW
    BY EffectiveWindowType
  <2>2. snd.flight \in Nat /\ MAX_WINDOW \in Nat
    BY SenderAssumption, WindowAssumption DEF Sender
  <2> QED BY <1>1, <1>2, <2>1, <2>2
<1>4. SequenceLength(msg) = Count(~snd.syn_sent) + len + Count(msg.FIN)
  BY <1>1 DEF SequenceLength
<1> HIDE DEF msg, len
<1>5. /\ t \in Sender
      /\ t.input = PopBytes(snd.input, len)
      /\ t.syn_sent = TRUE /\ t.fin_sent = (snd.fin_sent \/ msg.FIN)
      /\ t.outstanding = Append(snd.outstanding, msg)
      /\ t.next_seqno = snd.next_seqno + SequenceLength(msg)
      /\ t.timer_running = TRUE
      /\ t.time_elapsed = snd.time_elapsed /\ t.current_RTO = snd.current_RTO
      /\ t.cwnd = snd.cwnd /\ t.ssthresh = snd.ssthresh
  BY <1>1, SentFields
<1>6. \E q : Layout(t, q) /\ Settled(t, q)
  BY <1>1, <1>2, <1>3, AppendKeepsLayout DEF Good
<1> HIDE DEF t
<1>7. Timer(t)
  <2>1. t.outstanding # <<>>
    <3>1. snd.outstanding \in Seq(SenderMessage)
      BY DEF Sender
    <3> QED BY <3>1, <1>1, <1>5
  <2> QED BY <2>1, <1>5 DEF Good, Timer
<1>8. Position(t)
  <2>1. /\ t.input.total_poped = snd.input.total_poped + len
        /\ Len(t.input.buffer) = Len(snd.input.buffer) - len
        /\ len = Len(snd.input.buffer) => t.input.buffer = <<>>
        /\ t.input.total_pushed = snd.input.total_pushed
        /\ t.input.capacity = snd.input.capacity /\ t.input.closed = snd.input.closed
    <3>1. snd.input \in Stream
      BY DEF Sender
    <3>2. LET s == PopBytes(snd.input, len)
          IN  /\ s.total_poped = snd.input.total_poped + len
              /\ Len(s.buffer) = Len(snd.input.buffer) - len
              /\ len = Len(snd.input.buffer) => s.buffer = <<>>
              /\ s.total_pushed = snd.input.total_pushed
              /\ s.capacity = snd.input.capacity /\ s.closed = snd.input.closed
      BY <3>1, <1>1, PopBytesPrefix
    <3> QED BY <3>2, <1>5
  <2>2. /\ snd.input.total_poped \in Nat /\ Len(snd.input.buffer) \in Nat
        /\ snd.input.total_pushed \in Nat /\ snd.input.capacity \in Nat
        /\ snd.next_seqno \in Nat /\ snd.fin_sent \in BOOLEAN /\ snd.syn_sent \in BOOLEAN
        /\ msg.FIN \in BOOLEAN /\ len \in Nat
    <3>1. /\ snd.input \in Stream /\ snd.next_seqno \in Nat
          /\ snd.fin_sent \in BOOLEAN /\ snd.syn_sent \in BOOLEAN
      BY DEF Sender
    <3>2. /\ snd.input.total_poped \in Nat /\ Len(snd.input.buffer) \in Nat
          /\ snd.input.total_pushed \in Nat /\ snd.input.capacity \in Nat
      BY <3>1 DEF Stream
    <3>3. msg.FIN \in BOOLEAN
      BY <1>1 DEF SenderMessage
    <3> HIDE DEF msg, len
    <3> QED BY <3>1, <3>2, <3>3, <1>1
  <2>3. /\ snd.next_seqno = Count(snd.syn_sent) + snd.input.total_poped + Count(snd.fin_sent)
        /\ snd.input.total_pushed = snd.input.total_poped + Len(snd.input.buffer)
        /\ snd.input.total_pushed - snd.input.total_poped <= snd.input.capacity
        /\ snd.fin_sent => snd.input.closed /\ Len(snd.input.buffer) = 0
    BY DEF Good, Position
  <2>4. Count(snd.syn_sent) + Count(~snd.syn_sent) = 1
    BY <2>2 DEF Count
  <2>5. Count(snd.fin_sent) + Count(msg.FIN) = Count(snd.fin_sent \/ msg.FIN)
    BY <2>2, <1>1 DEF Count
  <2>6. t.next_seqno = Count(t.syn_sent) + t.input.total_poped + Count(t.fin_sent)
    <3>1. /\ Count(snd.syn_sent) \in Nat /\ Count(~snd.syn_sent) \in Nat
          /\ Count(snd.fin_sent) \in Nat /\ Count(msg.FIN) \in Nat
      BY DEF Count
    <3>2. Count(t.syn_sent) = 1
      BY <1>5 DEF Count
    <3>3. Count(t.fin_sent) = Count(snd.fin_sent) + Count(msg.FIN)
      BY <2>5, <1>5
    <3>4. t.next_seqno = snd.next_seqno + (Count(~snd.syn_sent) + len + Count(msg.FIN))
      BY <1>4, <1>5
    <3> DEFINE syn == Count(snd.syn_sent)
               noSyn == Count(~snd.syn_sent)
               fin == Count(snd.fin_sent)
               newFin == Count(msg.FIN)
    <3>5. /\ syn \in Nat /\ noSyn \in Nat /\ fin \in Nat /\ newFin \in Nat /\ len \in Nat
          /\ snd.input.total_poped \in Nat /\ syn + noSyn = 1
          /\ t.next_seqno = (syn + snd.input.total_poped + fin) + (noSyn + len + newFin)
          /\ t.input.total_poped = snd.input.total_poped + len
          /\ Count(t.fin_sent) = fin + newFin
      BY <3>1, <3>3, <3>4, <2>1, <2>2, <2>3, <2>4
    <3> HIDE DEF syn, noSyn, fin, newFin
    <3> QED BY <3>2, <3>5
  <2>7. t.fin_sent => t.input.closed /\ t.input.buffer = <<>>
    <3>1. CASE msg.FIN
      BY <3>1, <2>1, <1>1
    <3>2. CASE snd.fin_sent
      BY <3>2, <2>1, <2>2, <2>3, <1>1
    <3> QED BY <3>1, <3>2, <2>2, <1>5
  <2>8. t.input.total_pushed = t.input.total_poped + Len(t.input.buffer)
        /\ t.input.total_pushed - t.input.total_poped <= t.input.capacity
    <3> DEFINE popped == snd.input.total_poped
               pushed == snd.input.total_pushed
               left == Len(snd.input.buffer)
               left2 == Len(t.input.buffer)
    <3>1. /\ popped \in Nat /\ pushed \in Nat /\ left \in Nat /\ len \in Nat
          /\ snd.input.capacity \in Nat /\ pushed = popped + left
          /\ pushed - popped <= snd.input.capacity /\ left2 = left - len
          /\ t.input.total_poped = popped + len /\ t.input.total_pushed = pushed
          /\ t.input.capacity = snd.input.capacity
      BY <2>1, <2>2, <2>3
    <3> HIDE DEF popped, pushed, left, left2
    <3>2. pushed = (popped + len) + left2 /\ pushed - (popped + len) <= snd.input.capacity
      BY <3>1
    <3> QED BY <3>1, <3>2 DEF left2
  <2> QED BY <2>6, <2>7, <2>8 DEF Position
<1>9. Window(t)
  BY <1>5 DEF Good, Window
<1> QED BY <1>5, <1>6, <1>7, <1>8, <1>9 DEF Good, t, msg

(* Silly window avoidance never holds back the SYN.                          *)
LEMMA SynIsNotHeldBack ==
  ASSUME NEW snd \in Sender, Good(snd), SillyWindow(snd), EffectiveWindow(snd) > snd.flight
  PROVE  snd.syn_sent
<1> SUFFICES ASSUME ~snd.syn_sent PROVE FALSE
  BY DEF Sender
<1>1. snd.cwnd > MSS /\ snd.window_size > 0 /\ snd.cwnd < snd.window_size
  BY DEF Good, Window, SillyWindow
<1>2. /\ snd.cwnd \in Nat /\ snd.window_size \in Nat /\ snd.flight \in Nat
      /\ snd.next_seqno \in Nat
      /\ Len(snd.input.buffer) \in Nat /\ snd.input.total_poped \in Nat
      /\ snd.fin_sent \in BOOLEAN
  BY SMTT(60), SenderAssumption, WindowAssumption DEF Sender, Stream
<1>3. EffectiveWindow(snd) = snd.cwnd
  BY <1>1, <1>2 DEF EffectiveWindow, Least
<1>4. snd.flight = 0
  <2>1. PICK pos : Layout(snd, pos) /\ Settled(snd, pos)
    BY DEF Good
  <2>2. 1 \in 1 .. Len(snd.outstanding) + 1
    BY DEF Sender
  <2>3. pos[1] \in Nat /\ snd.flight = snd.next_seqno - pos[1]
    BY <2>1, <2>2 DEF Layout
  <2>4. snd.next_seqno = 0
    BY DEF Good, Window
  <2> QED BY <2>3, <2>4, <1>2
<1>5. AvailableWindow(snd) >= MSS
  BY <1>1, <1>2, <1>3, <1>4, SenderAssumption, WindowAssumption DEF AvailableWindow, Count, MSS
<1>6. AvailableWindow(snd) \in Int
  BY <1>2, <1>3 DEF AvailableWindow, Count
<1>7. PayloadLen(snd) = MAX_PAYLOAD_SIZE \/ PayloadLen(snd) = Len(snd.input.buffer)
  BY <1>2, <1>5, <1>6, SenderAssumption, WindowAssumption DEF PayloadLen, Least, MSS
<1> QED BY <1>2, <1>7, SenderAssumption, WindowAssumption DEF SillyWindow

\* The loop states that push goes through.
GoodPushState == {p \in PushState : Good(p.snd)}

LEMMA PassKeepsGood ==
  ASSUME NEW p \in GoodPushState
  PROVE  PushPass(p) \in GoodPushState
<1> DEFINE snd == p.snd
           msg == NextSegment(snd)
<1>1. /\ p \in PushState /\ snd \in Sender /\ Good(snd)
      /\ p.out \in Seq(SenderMessage) /\ p.done \in BOOLEAN
  BY DEF GoodPushState, PushState
<1>2. snd.flight \in Nat /\ EffectiveWindow(snd) \in Nat
  BY <1>1, EffectiveWindowType DEF Sender
<1>3. CASE p.done \/ EffectiveWindow(snd) <= snd.flight
  <2>1. PushPass(p) = p \/ PushPass(p) = [p EXCEPT !.done = TRUE]
    BY <1>3 DEF PushPass
  <2> QED BY <2>1, <1>1 DEF GoodPushState, PushState
<1>4. CASE ~p.done /\ EffectiveWindow(snd) > snd.flight /\ SillyWindow(snd)
  <2>1. snd.syn_sent
    BY <1>1, <1>4, SynIsNotHeldBack
  <2>2. [snd EXCEPT !.syn_sent = TRUE] = snd
    BY <2>1, <1>1 DEF Sender
  <2>3. PushPass(p) = [p EXCEPT !.snd = [snd EXCEPT !.syn_sent = TRUE], !.done = TRUE]
    BY <1>2, <1>4 DEF PushPass
  <2> QED BY <2>2, <2>3, <1>1 DEF GoodPushState, PushState
<1>5. CASE /\ ~p.done /\ EffectiveWindow(snd) > snd.flight /\ ~SillyWindow(snd)
           /\ SequenceLength(msg) = 0
  <2>1. PushPass(p) = [p EXCEPT !.done = TRUE]
    BY <1>2, <1>5 DEF PushPass
  <2> QED BY <2>1, <1>1 DEF GoodPushState, PushState
<1>6. CASE /\ ~p.done /\ EffectiveWindow(snd) > snd.flight /\ ~SillyWindow(snd)
           /\ SequenceLength(msg) # 0
  <2>1. PushPass(p) = [snd |-> Sent(snd, msg), out |-> Append(p.out, msg), done |-> msg.FIN]
    BY <1>2, <1>6 DEF PushPass
  <2>2. msg \in SenderMessage
    BY <1>1, <1>6, NextSegmentFields
  <2>3. Append(p.out, msg) \in Seq(SenderMessage) /\ msg.FIN \in BOOLEAN
    BY <2>2, <1>1 DEF SenderMessage
  <2>4. Good(Sent(snd, msg)) /\ Sent(snd, msg) \in Sender
    BY <1>1, <1>6, SentKeepsGood DEF Good
  <2> QED BY <2>1, <2>3, <2>4 DEF GoodPushState, PushState
<1> QED BY <1>1, <1>2, <1>3, <1>4, <1>5, <1>6

(* A change of fields the invariant says nothing of.                         *)
LEMMA GoodIsAboutFields ==
  ASSUME NEW s \in Sender, NEW t \in Sender, Good(s),
         t.input.buffer = s.input.buffer, t.input.total_poped = s.input.total_poped,
         t.input.total_pushed = s.input.total_pushed,
         t.input.capacity = s.input.capacity, s.input.closed => t.input.closed,
         t.isn = s.isn, t.syn_sent = s.syn_sent, t.fin_sent = s.fin_sent,
         t.ackno = s.ackno, t.next_seqno = s.next_seqno,
         t.outstanding = s.outstanding, t.flight = s.flight,
         Timer(t), Window(t)
  PROVE  Good(t)
<1>1. Position(t)
  BY DEF Good, Position
<1>2. PICK pos : Layout(s, pos) /\ Settled(s, pos)
  BY DEF Good
<1>3. Layout(t, pos) /\ Settled(t, pos)
  BY <1>2 DEF Layout, Settled
<1> QED BY <1>1, <1>3 DEF Good

LEMMA PushKeepsGood ==
  ASSUME NEW snd \in Sender, Good(snd)
  PROVE  Push(snd) \in GoodPushState
<1> DEFINE first == IF snd.fast_retransmit /\ snd.outstanding # <<>>
                    THEN <<Head(snd.outstanding)>> ELSE <<>>
           s == [snd EXCEPT !.fast_retransmit = FALSE]
           start == [snd |-> s, out |-> first, done |-> FALSE]
           Step == [p \in PushState |-> PushPass(p)]
<1>1. s \in Sender /\ Good(s)
  <2>1. s \in Sender
    BY DEF Sender
  <2>2. /\ s.input = snd.input /\ s.isn = snd.isn /\ s.syn_sent = snd.syn_sent
        /\ s.fin_sent = snd.fin_sent /\ s.ackno = snd.ackno
        /\ s.next_seqno = snd.next_seqno /\ s.outstanding = snd.outstanding
        /\ s.flight = snd.flight /\ s.timer_running = snd.timer_running
        /\ s.time_elapsed = snd.time_elapsed /\ s.current_RTO = snd.current_RTO
        /\ s.cwnd = snd.cwnd /\ s.ssthresh = snd.ssthresh
    BY DEF Sender
  <2> HIDE DEF s
  <2>3. Timer(s) /\ Window(s)
    BY <2>2 DEF Good, Timer, Window
  <2> QED BY <2>1, <2>2, <2>3, GoodIsAboutFields
<1>2. first \in Seq(SenderMessage)
  <2>1. snd.outstanding \in Seq(SenderMessage)
    BY DEF Sender
  <2> QED BY <2>1
<1>3. start \in GoodPushState
  <2> HIDE DEF s, first
  <2> QED BY <1>1, <1>2 DEF GoodPushState, PushState
<1>4. \A p \in GoodPushState : Step[p] \in GoodPushState
  BY PassKeepsGood DEF GoodPushState
<1>5. MAX_WINDOW + 1 \in Nat
  BY SenderAssumption, WindowAssumption
<1>6. Push(snd) = Iterate(Step, start, MAX_WINDOW + 1)
  BY DEF Push
<1> HIDE DEF Step, start
<1> QED BY <1>3, <1>4, <1>5, <1>6, IterateInvariant
-----------------------------------------------------------------------------
(* receive                                                                   *)

LEMMA QuotientType ==
  ASSUME NEW a \in Nat, NEW b \in Nat \ {0}
  PROVE  a \div b \in Nat
OBVIOUS

LEMMA ProductType ==
  ASSUME NEW a \in Nat, NEW b \in Nat
  PROVE  a * b \in Nat
OBVIOUS

(* Congestion avoidance only widens the window.                              *)
LEMMA AvoidCongestionGrows ==
  ASSUME NEW cwnd \in Nat \ {0}, NEW acked \in Nat
  PROVE  AvoidCongestion(cwnd, acked) \in Nat /\ AvoidCongestion(cwnd, acked) >= cwnd
<1> DEFINE Wider == {w \in Nat \ {0} : w >= cwnd}
           Step == [w \in Nat \ {0} |-> w + (MSS * MSS) \div w]
           grown == Iterate(Step, cwnd, acked \div MSS)
<1>1. MSS \in Nat \ {0} /\ MSS * MSS \in Nat
  BY SenderAssumption, WindowAssumption, ProductType DEF MSS
<1>2. cwnd \in Wider
  OBVIOUS
<1>3. \A w \in Wider : Step[w] \in Wider
  <2> SUFFICES ASSUME NEW w \in Wider PROVE w + (MSS * MSS) \div w \in Wider
    OBVIOUS
  <2>1. w \in Nat \ {0} /\ w >= cwnd /\ (MSS * MSS) \div w \in Nat
    BY <1>1, QuotientType
  <2> HIDE DEF MSS
  <2> QED BY <2>1
<1>4. acked \div MSS \in Nat
  BY <1>1, QuotientType
<1> HIDE DEF Wider, Step
<1>5. grown \in Wider
  BY <1>2, <1>3, <1>4, IterateInvariant
<1>6. grown \in Nat \ {0} /\ grown >= cwnd
  BY <1>5 DEF Wider
<1>7. acked % MSS \in Nat
  BY <1>1
<1>8. ((acked % MSS) * MSS) \div grown \in Nat
  BY <1>1, <1>6, <1>7, ProductType, QuotientType
<1>9. AvoidCongestion(cwnd, acked) = grown + ((acked % MSS) * MSS) \div grown
  BY DEF AvoidCongestion, Step
<1> QED BY <1>6, <1>8, <1>9

\* What receive does to the queue in the middle of the handler: the tiling
\* holds, while the timer and the oldest segment may be out of date.
Popping(s, t) ==
  /\ t \in Sender
  /\ \E q \in Seq(SenderMessage), f \in Nat :
       t = [s EXCEPT !.outstanding = q, !.flight = f]
  /\ \E pos : Layout(t, pos) /\ pos[1] <= t.ackno

(* One pass of the loop that drops acknowledged segments either finds the    *)
(* oldest segment unacknowledged, or drops it.                               *)
LEMMA PopPassStep ==
  ASSUME NEW s \in Sender, NEW t \in Sender, Popping(s, t), NEW ackno \in Nat,
         ackno <= t.ackno
  PROVE  /\ Popping(s, PopPass(t, ackno))
         /\ \/ /\ PopPass(t, ackno) = t
               /\ \A pos : Layout(t, pos) =>
                    \A i \in 1 .. Len(t.outstanding) : pos[i + 1] > ackno
            \/ /\ Len(t.outstanding) > 0
               /\ Len(PopPass(t, ackno).outstanding) = Len(t.outstanding) - 1
<1> DEFINE n == Len(t.outstanding)
           front == Head(t.outstanding)
           u == [t EXCEPT !.outstanding = Tail(@), !.flight = @ - SequenceLength(front)]
<1>1. PICK pos : Layout(t, pos) /\ pos[1] <= t.ackno
  BY DEF Popping
<1>2. /\ t.outstanding \in Seq(SenderMessage) /\ n \in Nat
      /\ t.ackno \in Nat /\ t.next_seqno \in Nat /\ t.flight \in Nat
  BY DEF Sender
<1>3. CASE t.outstanding = <<>>
  <2>1. PopPass(t, ackno) = t
    BY <1>3 DEF PopPass
  <2>2. n = 0
    BY <1>3
  <2>3. \A q : Layout(t, q) => \A i \in 1..n : q[i + 1] > ackno
    BY <2>2
  <2> QED BY <2>1, <2>3
<1>4. CASE t.outstanding # <<>>
  <2>1. n > 0 /\ 1 \in 1..n /\ front = t.outstanding[1] /\ front \in SenderMessage
    BY <1>2, <1>4
  <2>2. SequenceLength(front) \in Nat
    BY <2>1, SequenceLengthType
  <2>3. ASSUME NEW q, Layout(t, q)
        PROVE  /\ Unwrap(front.seqno, t.isn, t.next_seqno) = q[1] /\ q[1] \in Nat
               /\ q[2] = Unwrap(front.seqno, t.isn, t.next_seqno) + SequenceLength(front)
    <3>1. Unwrap(t.outstanding[1].seqno, t.isn, t.next_seqno) = q[1]
      BY <2>1, <2>3, OutstandingPosition
    <3>2. q[1 + 1] = q[1] + SequenceLength(t.outstanding[1]) /\ 1 \in 1 .. n + 1
          /\ q \in [1 .. n + 1 -> Nat]
      BY <1>2, <2>1, <2>3 DEF Layout
    <3>3. q[1] \in Nat
      BY <3>2
    <3> HIDE DEF front
    <3> QED BY <3>1, <3>2, <3>3, <2>1
  <2>4. Unwrap(front.seqno, t.isn, t.next_seqno) \in Nat
    BY <1>1, <2>3
  <2>5. CASE Unwrap(front.seqno, t.isn, t.next_seqno) + SequenceLength(front) > ackno
    <3>1. PopPass(t, ackno) = t
      <4> DEFINE end == Unwrap(front.seqno, t.isn, t.next_seqno) + SequenceLength(front)
      <4>1. end \in Nat /\ end > ackno
        BY <2>2, <2>5, <2>4
      <4>2. ~(end <= ackno)
        <5> HIDE DEF end
        <5> QED BY <4>1
      <4> QED BY <4>2 DEF PopPass
    <3>2. ASSUME NEW q, Layout(t, q), NEW i \in 1..n PROVE q[i + 1] > ackno
      <4>1. q[2] > ackno
        BY <3>2, <2>3, <2>5
      <4>2. 2 \in 1 .. n + 1 /\ i + 1 \in 1 .. n + 1 /\ 2 <= i + 1
        BY <1>2, <2>1
      <4>3. q[2] <= q[i + 1] /\ q[2] \in Nat /\ q[i + 1] \in Nat
        BY <3>2, <4>2 DEF Layout
      <4> QED BY <4>1, <4>3
    <3> QED BY <3>1, <3>2
  <2>6. CASE Unwrap(front.seqno, t.isn, t.next_seqno) + SequenceLength(front) <= ackno
    <3>1. PopPass(t, ackno) = u
      BY <1>4, <2>6 DEF PopPass
    <3> DEFINE q == [i \in 1..n |-> pos[i + 1]]
    <3>2. /\ pos \in [1 .. n + 1 -> Nat] /\ pos[n + 1] = t.next_seqno
          /\ \A i, j \in 1 .. n + 1 : i <= j => pos[i] <= pos[j]
          /\ t.flight = t.next_seqno - pos[1] /\ t.flight <= MAX_WINDOW
          /\ \A i \in 1..n : /\ t.outstanding[i].seqno = Wrap(pos[i], t.isn)
                             /\ pos[i + 1] = pos[i] + SequenceLength(t.outstanding[i])
                             /\ pos[i] < pos[i + 1]
      BY <1>1 DEF Layout
    <3>3. 2 \in 1 .. n + 1 /\ n + 1 \in 1 .. n + 1 /\ 1 \in 1 .. n + 1 /\ 2 <= n + 1
      BY <1>2, <2>1
    <3>4. /\ pos[1] \in Nat /\ pos[2] \in Nat /\ pos[2] = pos[1] + SequenceLength(front)
          /\ pos[2] <= t.next_seqno /\ pos[2] <= ackno
      BY <3>2, <3>3, <2>1, <2>3, <2>6, <1>1
    <3>5. t.flight - SequenceLength(front) = t.next_seqno - pos[2]
          /\ t.flight - SequenceLength(front) \in Nat
          /\ t.flight - SequenceLength(front) <= MAX_WINDOW
      <4> DEFINE len == SequenceLength(front)
      <4>1. /\ len \in Nat /\ MAX_WINDOW \in Nat /\ pos[1] \in Nat /\ pos[2] \in Nat
            /\ pos[2] = pos[1] + len /\ pos[2] <= t.next_seqno
            /\ t.flight = t.next_seqno - pos[1] /\ t.flight <= MAX_WINDOW
        BY <3>2, <3>4, <2>2, SenderAssumption, WindowAssumption
      <4> HIDE DEF len
      <4>2. /\ t.flight - len = t.next_seqno - pos[2] /\ t.flight - len \in Nat
            /\ t.flight - len <= MAX_WINDOW
        BY SMTT(60), <4>1, <1>2
      <4> QED BY <4>2 DEF len
    <3>6. /\ Tail(t.outstanding) \in Seq(SenderMessage)
          /\ Len(Tail(t.outstanding)) = n - 1
          /\ \A i \in 1 .. n - 1 : Tail(t.outstanding)[i] = t.outstanding[i + 1]
      BY <1>2, <2>1
    <3>7. /\ u \in Sender
          /\ u.outstanding = Tail(t.outstanding)
          /\ u.flight = t.flight - SequenceLength(front)
          /\ u.ackno = t.ackno /\ u.next_seqno = t.next_seqno /\ u.isn = t.isn
      BY <3>5, <3>6 DEF Sender
    <3>8. \E p \in Seq(SenderMessage), f \in Nat :
            u = [s EXCEPT !.outstanding = p, !.flight = f]
      <4>1. PICK p \in Seq(SenderMessage), f \in Nat :
              t = [s EXCEPT !.outstanding = p, !.flight = f]
        BY DEF Popping
      <4>2. u = [s EXCEPT !.outstanding = Tail(t.outstanding),
                          !.flight = t.flight - SequenceLength(front)]
        BY <4>1 DEF Sender
      <4> QED BY <4>2, <3>5, <3>6
    <3> HIDE DEF u
    <3>9. Layout(u, q)
      <4>1. /\ q \in [1 .. (n - 1) + 1 -> Nat] /\ q[(n - 1) + 1] = t.next_seqno
            /\ q[1] = pos[2] /\ \A i \in 1..n : q[i] = pos[i + 1] /\ i + 1 \in 1 .. n + 1
        BY SMTT(60), <1>2, <2>1, <3>2
      <4> HIDE DEF q
      <4>2. \A i \in 1 .. n - 1 : /\ u.outstanding[i].seqno = Wrap(q[i], u.isn)
                                  /\ q[i + 1] = q[i] + SequenceLength(u.outstanding[i])
                                  /\ q[i] < q[i + 1]
        <5> SUFFICES ASSUME NEW i \in 1 .. n - 1
                     PROVE  /\ u.outstanding[i].seqno = Wrap(q[i], u.isn)
                            /\ q[i + 1] = q[i] + SequenceLength(u.outstanding[i])
                            /\ q[i] < q[i + 1]
          OBVIOUS
        <5>1. i \in 1..n /\ i + 1 \in 1..n /\ u.outstanding[i] = t.outstanding[i + 1]
          BY <1>2, <3>6, <3>7
        <5> QED BY <5>1, <4>1, <3>2, <3>7
      <4>3. \A i, j \in 1 .. (n - 1) + 1 : i <= j => q[i] <= q[j]
        <5> SUFFICES ASSUME NEW i \in 1..n, NEW j \in 1..n, i <= j PROVE q[i] <= q[j]
          BY <1>2
        <5>1. i + 1 \in 1 .. n + 1 /\ j + 1 \in 1 .. n + 1 /\ i + 1 <= j + 1
          BY <1>2
        <5> QED BY <5>1, <4>1, <3>2
      <4>4. Len(u.outstanding) = n - 1
        BY <3>6, <3>7
      <4>5. u.flight = u.next_seqno - q[1] /\ u.flight <= MAX_WINDOW
        BY <3>5, <3>7, <4>1
      <4> QED BY <3>7, <4>1, <4>2, <4>3, <4>4, <4>5 DEF Layout
    <3>10. q[1] <= u.ackno
      BY <1>2, <2>1, <3>4, <3>7
    <3> HIDE DEF q
    <3>11. Popping(s, u)
      BY <3>7, <3>8, <3>9, <3>10 DEF Popping
    <3>12. Len(u.outstanding) = n - 1
      BY <3>6, <3>7
    <3> QED BY <3>1, <3>11, <3>12, <2>1
  <2> QED BY <2>2, <2>4, <2>5, <2>6
<1> QED BY <1>3, <1>4

(* The whole loop, after an acknowledgment that is up to date: the queue     *)
(* begins with the segment that holds the acknowledged position.             *)
LEMMA DropAckedSettles ==
  ASSUME NEW s \in Sender, s.ackno <= s.next_seqno,
         \E pos : Layout(s, pos) /\ pos[1] <= s.ackno
  PROVE  LET t == DropAcked(s, s.ackno)
         IN  Popping(s, t) /\ \E pos : Layout(t, pos) /\ Settled(t, pos)
<1> DEFINE Step == [r \in Sender |-> PopPass(r, s.ackno)]
           After(n) == Iterate(Step, s, n)
           States == {r \in Sender : Popping(s, r)}
           Done(r) == /\ PopPass(r, s.ackno) = r
                      /\ \A pos : Layout(r, pos) =>
                           \A i \in 1 .. Len(r.outstanding) : pos[i + 1] > s.ackno
           size == Len(s.outstanding)
           G == {n \in Nat : Done(After(n)) \/ Len(After(n).outstanding) + n = size}
<1>1. /\ s.outstanding \in Seq(SenderMessage) /\ s.flight \in Nat /\ s.ackno \in Nat
      /\ size \in Nat
  BY DEF Sender
<1>2. s \in States
  <2>1. s = [s EXCEPT !.outstanding = s.outstanding, !.flight = s.flight]
    BY DEF Sender
  <2> QED BY <2>1, <1>1 DEF Popping
<1>3. \A r \in States : r.ackno = s.ackno /\ r.next_seqno = s.next_seqno
  BY DEF Popping, Sender
<1>4. ASSUME NEW r \in States
      PROVE  /\ Step[r] = PopPass(r, s.ackno) /\ Step[r] \in States
             /\ \/ Done(r)
                \/ Len(PopPass(r, s.ackno).outstanding) = Len(r.outstanding) - 1
  <2>1. r \in Sender /\ Popping(s, r) /\ s.ackno <= r.ackno
    BY <1>1, <1>3
  <2>2. /\ Popping(s, PopPass(r, s.ackno))
        /\ \/ Done(r)
           \/ Len(PopPass(r, s.ackno).outstanding) = Len(r.outstanding) - 1
    BY <2>1, <1>1, PopPassStep
  <2>3. PopPass(r, s.ackno) \in Sender
    BY <2>2 DEF Popping
  <2> QED BY <2>1, <2>2, <2>3
<1> HIDE DEF Step, States
<1>5. /\ After(0) = s
      /\ \A n \in Nat : After(n + 1) = Step[After(n)]
      /\ \A n \in Nat : After(n) \in States
  <2>1. \A r \in States : Step[r] \in States
    BY <1>4
  <2> QED BY <2>1, <1>2, IterateDef
<1> HIDE DEF After
<1>7. 0 \in G
  BY <1>1, <1>5
<1>8. ASSUME NEW n \in Nat, n \in G PROVE n + 1 \in G
  <2>1. After(n) \in States /\ After(n + 1) = PopPass(After(n), s.ackno)
    BY <1>4, <1>5
  <2>2. CASE Done(After(n))
    <3>1. After(n + 1) = After(n)
      BY <2>1, <2>2
    <3> QED BY <3>1, <2>2
  <2>3. CASE ~Done(After(n))
    <3>1. Len(After(n).outstanding) + n = size
      BY <1>8, <2>3
    <3>2. Len(After(n + 1).outstanding) = Len(After(n).outstanding) - 1
      BY <1>4, <2>1, <2>3
    <3>3. Len(After(n).outstanding) \in Nat
      BY <2>1 DEF States, Sender
    <3> DEFINE before == Len(After(n).outstanding)
               after == Len(After(n + 1).outstanding)
    <3>4. after = before - 1 /\ before \in Nat /\ before + n = size
      BY <3>1, <3>2, <3>3
    <3> HIDE DEF before, after, size
    <3>5. after + (n + 1) = size /\ n + 1 \in Nat
      BY <3>4
    <3> QED BY <3>5 DEF after, size
  <2> QED BY <2>2, <2>3
<1> HIDE DEF G
<1>9. size \in G
  BY <1>1, <1>7, <1>8, NatSetInduction
<1>10. DropAcked(s, s.ackno) = After(size)
  BY DEF DropAcked, After, Step
<1> DEFINE t == After(size)
<1>11. t \in Sender /\ Popping(s, t) /\ t.ackno = s.ackno /\ t.next_seqno = s.next_seqno
  BY <1>1, <1>3, <1>5 DEF States
<1>12. PICK pos : Layout(t, pos) /\ pos[1] <= t.ackno
  BY <1>11 DEF Popping
<1>13. \A i \in 1 .. Len(t.outstanding) : pos[i + 1] > s.ackno
  <2>1. CASE Done(t)
    BY <2>1, <1>12
  <2>2. CASE ~Done(t)
    <3>1. Len(t.outstanding) + size = size /\ Len(t.outstanding) \in Nat
      BY <2>2, <1>9, <1>11 DEF G, Sender
    <3> DEFINE left == Len(t.outstanding)
    <3>2. left + size = size /\ left \in Nat /\ size \in Nat
      BY <3>1, <1>1
    <3> HIDE DEF left, size
    <3>3. left = 0
      BY <3>2
    <3> QED BY <3>3 DEF left
  <2> QED BY <2>1, <2>2
<1>14. Settled(t, pos)
  BY <1>11, <1>12, <1>13 DEF Settled
<1> QED BY <1>10, <1>11, <1>12, <1>14

(* The loop after an acknowledgment that is older than what is known.        *)
LEMMA DropAckedOld ==
  ASSUME NEW s \in Sender, NEW pos, Layout(s, pos), Settled(s, pos),
         NEW ackno \in Nat, ackno <= s.ackno
  PROVE  DropAcked(s, ackno) = s
<1> DEFINE Step == [r \in Sender |-> PopPass(r, ackno)]
<1>1. s.ackno \in Nat /\ s.outstanding \in Seq(SenderMessage) /\ Len(s.outstanding) \in Nat
  BY DEF Sender
<1>2. PopPass(s, ackno) = s
  <2>1. CASE s.outstanding = <<>>
    BY <2>1 DEF PopPass
  <2>2. CASE s.outstanding # <<>>
    <3> DEFINE front == Head(s.outstanding)
               end == Unwrap(front.seqno, s.isn, s.next_seqno) + SequenceLength(front)
    <3>1. 1 \in 1 .. Len(s.outstanding) /\ front = s.outstanding[1]
      BY <2>2, <1>1
    <3>2. end = pos[1 + 1]
      <4>1. pos[1 + 1] = pos[1] + SequenceLength(s.outstanding[1])
        BY <3>1 DEF Layout
      <4>2. Unwrap(s.outstanding[1].seqno, s.isn, s.next_seqno) = pos[1]
        BY <3>1, OutstandingPosition
      <4> HIDE DEF front
      <4> QED BY <4>1, <4>2, <3>1
    <3>3. pos[1 + 1] > s.ackno /\ pos[1 + 1] \in Nat
      BY <3>1, <1>1 DEF Layout, Settled
    <3> HIDE DEF end
    <3>4. ~(end <= ackno)
      BY <3>2, <3>3, <1>1
    <3> QED BY <3>4 DEF PopPass, end
  <2> QED BY <2>1, <2>2
<1>3. s \in {s} /\ \A r \in {s} : Step[r] \in {s}
  BY <1>2
<1> HIDE DEF Step
<1>4. Iterate(Step, s, Len(s.outstanding)) \in {s}
  BY <1>1, <1>3, IterateInvariant
<1> QED BY <1>4 DEF DropAcked, Step

(* The end of receive makes the timer agree with the queue.                  *)
LEMMA StopIdleTimerGood ==
  ASSUME NEW s \in Sender, Position(s), Window(s),
         \E pos : Layout(s, pos) /\ Settled(s, pos),
         s.outstanding # <<>> => s.timer_running, s.time_elapsed < s.current_RTO
  PROVE  Good(StopIdleTimer(s))
<1>1. CASE s.outstanding # <<>>
  <2>1. StopIdleTimer(s) = s
    BY <1>1 DEF StopIdleTimer
  <2>2. s.timer_running /\ s.timer_running \in BOOLEAN
    BY <1>1 DEF Sender
  <2>3. Timer(s)
    BY <1>1, <2>2 DEF Timer
  <2> QED BY <2>1, <2>3 DEF Good
<1>2. CASE s.outstanding = <<>>
  <2> DEFINE t == [s EXCEPT !.timer_running = FALSE, !.time_elapsed = 0]
  <2>1. StopIdleTimer(s) = t
    BY <1>2 DEF StopIdleTimer
  <2>2. /\ t \in Sender
        /\ t.input = s.input /\ t.isn = s.isn /\ t.syn_sent = s.syn_sent
        /\ t.fin_sent = s.fin_sent /\ t.ackno = s.ackno /\ t.next_seqno = s.next_seqno
        /\ t.outstanding = s.outstanding /\ t.flight = s.flight
        /\ t.timer_running = FALSE /\ t.time_elapsed = 0
        /\ t.current_RTO = s.current_RTO /\ t.cwnd = s.cwnd /\ t.ssthresh = s.ssthresh
    BY DEF Sender
  <2>3. s.time_elapsed \in Nat /\ s.current_RTO \in Nat
    BY DEF Sender
  <2> HIDE DEF t
  <2>4. Timer(t)
    BY <1>2, <2>2, <2>3 DEF Timer
  <2>5. Position(t) /\ Window(t)
    BY <2>2 DEF Position, Window
  <2>6. PICK pos : Layout(s, pos) /\ Settled(s, pos)
    OBVIOUS
  <2>7. Layout(t, pos) /\ Settled(t, pos)
    BY <2>2, <2>6, LayoutCongruence, SettledCongruence
  <2> QED BY <2>1, <2>2, <2>4, <2>5, <2>7 DEF Good
<1> QED BY <1>1, <1>2

(* Some segment is outstanding only after the SYN.                           *)
LEMMA OutstandingAfterSyn ==
  ASSUME NEW s \in Sender, Good(s), s.outstanding # <<>> \/ s.next_seqno > 0
  PROVE  s.syn_sent
<1> SUFFICES ASSUME ~s.syn_sent PROVE FALSE
  BY DEF Sender
<1>1. s.next_seqno = 0
  BY DEF Good, Window
<1>2. PICK pos : Layout(s, pos)
  BY DEF Good
<1>3. s.outstanding # <<>>
  BY <1>1
<1>4. s.outstanding \in Seq(SenderMessage)
  BY DEF Sender
<1> DEFINE n == Len(s.outstanding)
<1>5. n \in Nat /\ n \in 1..n
  BY <1>3, <1>4
<1>6. pos[n] < pos[n + 1] /\ pos[n + 1] = 0 /\ pos[n] \in Nat
  BY <1>1, <1>2, <1>5 DEF Layout
<1> QED BY <1>6

LEMMA OnNewAckGood ==
  ASSUME NEW snd \in Sender, Good(snd), NEW ackno \in Nat,
         ackno > snd.ackno, ackno <= snd.next_seqno
  PROVE  Good(StopIdleTimer(DropAcked(OnNewAck(snd, ackno), ackno)))
<1> DEFINE s == OnNewAck(snd, ackno)
           t == DropAcked(s, ackno)
<1>1. /\ snd.ackno \in Nat /\ snd.next_seqno \in Nat /\ snd.cwnd \in Nat \ {0}
      /\ snd.ssthresh \in Nat /\ ackno - snd.ackno \in Nat
  BY DEF Sender
<1>2. s.cwnd \in Nat /\ s.cwnd >= snd.cwnd
  <2>1. /\ AvoidCongestion(snd.cwnd, ackno - snd.ackno) \in Nat
        /\ AvoidCongestion(snd.cwnd, ackno - snd.ackno) >= snd.cwnd
    BY <1>1, AvoidCongestionGrows
  <2>2. s.cwnd = IF snd.ackno = 0 /\ ackno = 1 THEN snd.cwnd
                 ELSE IF snd.cwnd < snd.ssthresh THEN snd.cwnd + (ackno - snd.ackno)
                 ELSE AvoidCongestion(snd.cwnd, ackno - snd.ackno)
    BY DEF OnNewAck, Sender
  <2> HIDE DEF s
  <2> QED BY <2>1, <2>2, <1>1
<1>3. /\ s.input = snd.input /\ s.isn = snd.isn /\ s.syn_sent = snd.syn_sent
      /\ s.fin_sent = snd.fin_sent /\ s.ackno = ackno /\ s.next_seqno = snd.next_seqno
      /\ s.outstanding = snd.outstanding /\ s.flight = snd.flight
      /\ s.timer_running = TRUE /\ s.time_elapsed = 0 /\ s.current_RTO = INITIAL_RTO
      /\ s.ssthresh = snd.ssthresh
  BY DEF OnNewAck, Sender
<1>4. s \in Sender
  <2> DEFINE w == s.cwnd
  <2>1. s = [snd EXCEPT !.current_RTO = INITIAL_RTO, !.retransmissions = 0,
                        !.time_elapsed = 0, !.timer_running = TRUE,
                        !.ackno = ackno, !.dup_acks = 0, !.cwnd = w]
    BY DEF OnNewAck, Sender
  <2>2. w \in Nat \ {0}
    BY <1>1, <1>2
  <2> HIDE DEF w, s
  <2> QED BY <2>1, <2>2, SenderAssumption, WindowAssumption DEF Sender
<1> HIDE DEF s
<1>5. snd.syn_sent
  <2>1. snd.next_seqno > 0
    BY <1>1
  <2> QED BY <2>1, OutstandingAfterSyn
<1>6. Position(s)
  BY <1>3 DEF Good, Position
<1>7. Window(s)
  <2>1. snd.cwnd >= MSS /\ snd.ssthresh >= MSS /\ MSS \in Nat
    BY SenderAssumption, WindowAssumption DEF Good, Window, MSS
  <2>2. s.cwnd >= MSS /\ s.ssthresh >= MSS
    BY <2>1, <1>1, <1>2, <1>3
  <2> QED BY <2>2, <1>3, <1>5 DEF Window
<1>8. \E pos : Layout(s, pos) /\ pos[1] <= s.ackno
  <2>1. PICK pos : Layout(snd, pos) /\ Settled(snd, pos)
    BY DEF Good
  <2>2. Layout(s, pos)
    BY <2>1, <1>3, LayoutCongruence
  <2>3. 1 \in 1 .. Len(snd.outstanding) + 1
    BY DEF Sender
  <2>4. pos[1] \in Nat /\ pos[1] <= snd.ackno
    BY <2>1, <2>3 DEF Layout, Settled
  <2> QED BY <2>2, <2>4, <1>1, <1>3
<1>9. Popping(s, t) /\ \E pos : Layout(t, pos) /\ Settled(t, pos)
  BY <1>3, <1>4, <1>8, DropAckedSettles
<1> HIDE DEF t
<1>10. /\ t \in Sender
       /\ t.input = s.input /\ t.syn_sent = s.syn_sent /\ t.fin_sent = s.fin_sent
       /\ t.next_seqno = s.next_seqno /\ t.cwnd = s.cwnd /\ t.ssthresh = s.ssthresh
       /\ t.timer_running = TRUE /\ t.time_elapsed = 0 /\ t.current_RTO = INITIAL_RTO
  BY <1>3, <1>4, <1>9 DEF Popping, Sender
<1>11. Position(t) /\ Window(t)
  BY <1>6, <1>7, <1>10 DEF Position, Window
<1>12. t.time_elapsed < t.current_RTO
  BY <1>10, SenderAssumption, WindowAssumption
<1> QED BY <1>9, <1>10, <1>11, <1>12, StopIdleTimerGood DEF s, t

LEMMA OnDuplicateAckGood ==
  ASSUME NEW snd \in Sender, Good(snd), snd.outstanding # <<>>
  PROVE  Good(OnDuplicateAck(snd)) /\ OnDuplicateAck(snd).ackno = snd.ackno
<1> DEFINE s == OnDuplicateAck(snd)
           half == Greatest(snd.cwnd \div 2, MSS)
<1>1. /\ snd.cwnd \in Nat \ {0} /\ snd.ssthresh \in Nat /\ snd.dup_acks \in Nat
      /\ MSS \in Nat \ {0} /\ snd.fast_retransmit \in BOOLEAN
  BY SenderAssumption, WindowAssumption DEF Sender, MSS
<1>2. half \in Nat /\ half >= MSS
  BY <1>1 DEF Greatest
<1>3. snd.cwnd >= MSS /\ snd.ssthresh >= MSS
  BY DEF Good, Window
<1> HIDE DEF half
<1>4. /\ s.ssthresh = (IF snd.dup_acks = 2 THEN half ELSE snd.ssthresh)
      /\ s.cwnd = CASE snd.dup_acks = 2 -> half + 3 * MSS
                    [] snd.dup_acks > 2 -> snd.cwnd + MSS
                    [] OTHER            -> snd.cwnd
  BY DEF OnDuplicateAck, Sender, half
<1>5. s.cwnd \in Nat \ {0} /\ s.cwnd >= MSS /\ s.ssthresh \in Nat /\ s.ssthresh >= MSS
  <2> HIDE DEF s, MSS
  <2>1. s.ssthresh = half \/ s.ssthresh = snd.ssthresh
    BY <1>4
  <2>2. s.cwnd = half + 3 * MSS \/ s.cwnd = snd.cwnd + MSS \/ s.cwnd = snd.cwnd
    <3>1. CASE snd.dup_acks = 2
      BY <3>1, <1>4
    <3>2. CASE snd.dup_acks > 2
      BY <3>2, <1>4, <1>1
    <3>3. CASE ~(snd.dup_acks = 2) /\ ~(snd.dup_acks > 2)
      BY <3>3, <1>4
    <3> QED BY <3>1, <3>2, <3>3
  <2>3. half + 3 * MSS \in Nat \ {0} /\ half + 3 * MSS >= MSS
    BY <1>1, <1>2
  <2>4. snd.cwnd + MSS \in Nat \ {0} /\ snd.cwnd + MSS >= MSS
    BY <1>1
  <2> QED BY <1>1, <1>2, <1>3, <2>1, <2>2, <2>3, <2>4
<1>6. s \in Sender
  <2> DEFINE w == s.cwnd
             h == s.ssthresh
             d == snd.dup_acks + 1
             f == (snd.fast_retransmit \/ snd.dup_acks = 2)
  <2>1. s = [snd EXCEPT !.dup_acks = d, !.fast_retransmit = f, !.ssthresh = h, !.cwnd = w]
    BY DEF OnDuplicateAck, Sender
  <2>2. w \in Nat \ {0} /\ h \in Nat /\ d \in Nat /\ f \in BOOLEAN
    BY <1>1, <1>5
  <2> HIDE DEF w, h, d, f, s
  <2> QED BY <2>1, <2>2 DEF Sender
<1>7. /\ s.input = snd.input /\ s.isn = snd.isn /\ s.syn_sent = snd.syn_sent
      /\ s.fin_sent = snd.fin_sent /\ s.ackno = snd.ackno
      /\ s.next_seqno = snd.next_seqno /\ s.outstanding = snd.outstanding
      /\ s.flight = snd.flight /\ s.timer_running = snd.timer_running
      /\ s.time_elapsed = snd.time_elapsed /\ s.current_RTO = snd.current_RTO
  BY DEF OnDuplicateAck, Sender
<1> HIDE DEF s
<1>8. Timer(s)
  BY <1>7 DEF Good, Timer
<1>9. Window(s)
  <2>1. snd.syn_sent
    BY OutstandingAfterSyn
  <2> QED BY <2>1, <1>5, <1>7 DEF Window
<1>10. Good(s)
  BY <1>6, <1>7, <1>8, <1>9, GoodIsAboutFields
<1> QED BY <1>7, <1>10 DEF s

LEMMA ReceiveKeepsGood ==
  ASSUME NEW snd \in Sender, Good(snd), NEW msg \in ReceiverMessage
  PROVE  Good(Receive(snd, msg))
<1> DEFINE in    == IF msg.RST THEN SetError(snd.input) ELSE snd.input
           u     == [snd EXCEPT !.input = in, !.window_size = msg.window_size]
           ackno == Unwrap(msg.ackno, snd.isn, snd.next_seqno)
<1>1. in \in Stream /\ msg.window_size \in 0 .. MAX_WINDOW
  BY DEF Sender, Stream, SetError, ReceiverMessage
<1>2. /\ in.buffer = snd.input.buffer /\ in.total_poped = snd.input.total_poped
      /\ in.total_pushed = snd.input.total_pushed /\ in.capacity = snd.input.capacity
      /\ in.closed = snd.input.closed
  BY DEF Sender, Stream, SetError
<1> HIDE DEF in
<1>3. /\ u \in Sender /\ u.input = in
      /\ u.isn = snd.isn /\ u.syn_sent = snd.syn_sent
      /\ u.fin_sent = snd.fin_sent /\ u.ackno = snd.ackno
      /\ u.next_seqno = snd.next_seqno /\ u.outstanding = snd.outstanding
      /\ u.flight = snd.flight /\ u.timer_running = snd.timer_running
      /\ u.time_elapsed = snd.time_elapsed /\ u.current_RTO = snd.current_RTO
      /\ u.cwnd = snd.cwnd /\ u.ssthresh = snd.ssthresh
  BY <1>1 DEF Sender
<1> HIDE DEF u
<1>4. Good(u)
  <2>1. Timer(u) /\ Window(u)
    BY <1>3 DEF Good, Timer, Window
  <2> QED BY <1>2, <1>3, <2>1, GoodIsAboutFields
<1>5. CASE msg.ackno = NoAck \/ ackno > snd.next_seqno
  BY <1>4, <1>5 DEF Receive, u, in
<1>6. CASE ~(msg.ackno = NoAck \/ ackno > snd.next_seqno)
  <2>1. /\ msg.ackno \in Wrap32 /\ snd.isn \in Wrap32 /\ snd.next_seqno \in Nat
        /\ snd.ackno \in Nat
    BY <1>6 DEF ReceiverMessage, Sender
  <2>2. ackno \in Nat
    BY <2>1, UnwrapType
  <2> HIDE DEF ackno
  <2>3. ackno <= snd.next_seqno
    BY <1>6, <2>1, <2>2
  <2>4. CASE ackno > snd.ackno
    <3>1. Receive(snd, msg) = StopIdleTimer(DropAcked(OnNewAck(u, ackno), ackno))
      BY <1>6, <2>4 DEF Receive, u, in, ackno
    <3> QED BY <3>1, <2>2, <2>3, <2>4, <1>3, <1>4, OnNewAckGood
  <2>5. CASE ackno = snd.ackno /\ snd.outstanding # <<>>
    <3> DEFINE s == OnDuplicateAck(u)
    <3>1. Receive(snd, msg) = StopIdleTimer(DropAcked(s, ackno))
      BY <1>6, <2>5, <2>2 DEF Receive, u, in, ackno
    <3>2. Good(s) /\ s.ackno = ackno
      BY <1>3, <1>4, <2>5, OnDuplicateAckGood
    <3> HIDE DEF s
    <3>3. DropAcked(s, ackno) = s
      <4>1. PICK pos : Layout(s, pos) /\ Settled(s, pos)
        BY <3>2 DEF Good
      <4>2. s \in Sender /\ ackno <= s.ackno
        BY <3>2, <2>2 DEF Good
      <4> QED BY <4>1, <4>2, <2>2, DropAckedOld
    <3> QED BY <3>1, <3>2, <3>3, StopIdleTimerGood DEF Good, Timer
  <2>6. CASE ~(ackno > snd.ackno) /\ ~(ackno = snd.ackno /\ snd.outstanding # <<>>)
    <3>1. Receive(snd, msg) = StopIdleTimer(DropAcked(u, ackno))
      BY <1>6, <2>6 DEF Receive, u, in, ackno
    <3>2. DropAcked(u, ackno) = u
      <4>1. PICK pos : Layout(u, pos) /\ Settled(u, pos)
        BY <1>4 DEF Good
      <4>2. ackno <= u.ackno
        BY <2>1, <2>2, <2>6, <1>3
      <4> QED BY <4>1, <4>2, <2>2, <1>3, DropAckedOld
    <3> QED BY <3>1, <3>2, <1>4, StopIdleTimerGood DEF Good, Timer
  <2> QED BY <2>4, <2>5, <2>6
<1> QED BY <1>5, <1>6
-----------------------------------------------------------------------------
(* tick and the application                                                  *)

LEMMA TickKeepsGood ==
  ASSUME NEW snd \in Sender, Good(snd), NEW ms \in Nat
  PROVE  Good(Tick(snd, ms).snd) /\ Tick(snd, ms).out \in Seq(SenderMessage)
<1> DEFINE elapsed == snd.time_elapsed + (IF snd.timer_running THEN ms ELSE 0)
           waiting == [snd EXCEPT !.time_elapsed = elapsed]
           expired == [snd EXCEPT !.time_elapsed = 0]
           half    == Greatest(snd.cwnd \div 2, MSS)
<1>1. /\ snd.time_elapsed \in Nat /\ elapsed \in Nat /\ snd.current_RTO \in Nat
      /\ snd.cwnd \in Nat \ {0} /\ MSS \in Nat \ {0} /\ snd.ssthresh \in Nat
      /\ snd.retransmissions \in Nat /\ MAX_RETX_ATTEMPTS \in Nat
      /\ snd.outstanding \in Seq(SenderMessage) /\ snd.timer_running \in BOOLEAN
      /\ snd.input \in Stream
  BY SMTT(60), SenderAssumption, WindowAssumption DEF Sender, MSS
<1>2. half \in Nat /\ half >= MSS
  BY <1>1 DEF Greatest
<1>3. CASE elapsed < snd.current_RTO
  <2>1. Tick(snd, ms) = [snd |-> waiting, out |-> <<>>]
    BY <1>3 DEF Tick
  <2>2. /\ waiting \in Sender
        /\ waiting.input = snd.input /\ waiting.isn = snd.isn
        /\ waiting.syn_sent = snd.syn_sent /\ waiting.fin_sent = snd.fin_sent
        /\ waiting.ackno = snd.ackno /\ waiting.next_seqno = snd.next_seqno
        /\ waiting.outstanding = snd.outstanding /\ waiting.flight = snd.flight
        /\ waiting.timer_running = snd.timer_running
        /\ waiting.time_elapsed = elapsed /\ waiting.current_RTO = snd.current_RTO
        /\ waiting.cwnd = snd.cwnd /\ waiting.ssthresh = snd.ssthresh
    BY <1>1 DEF Sender
  <2> HIDE DEF waiting
  <2>3. Timer(waiting) /\ Window(waiting)
    BY <1>1, <1>3, <2>2 DEF Good, Timer, Window
  <2>4. Good(waiting)
    BY <2>2, <2>3, GoodIsAboutFields
  <2> QED BY <2>1, <2>4
<1>4. CASE ~(elapsed < snd.current_RTO)
  <2>1. Tick(snd, ms) = [snd |-> TimedOut(expired), out |-> <<Head(snd.outstanding)>>]
    BY <1>4 DEF Tick
  <2>2. snd.outstanding # <<>>
    BY <1>1, <1>4 DEF Good, Timer
  <2>3. <<Head(snd.outstanding)>> \in Seq(SenderMessage)
    BY <2>2, <1>1
  <2>4. snd.syn_sent
    BY <2>2, OutstandingAfterSyn
  <2>5. snd.current_RTO > 0 /\ snd.cwnd >= MSS /\ snd.ssthresh >= MSS
    BY <1>1 DEF Good, Timer, Window
  <2>6. CASE snd.window_size = 0
    <3>1. TimedOut(expired) = expired
      BY <2>6 DEF TimedOut, Sender
    <3>2. /\ expired \in Sender
          /\ expired.input = snd.input /\ expired.isn = snd.isn
          /\ expired.syn_sent = snd.syn_sent /\ expired.fin_sent = snd.fin_sent
          /\ expired.ackno = snd.ackno /\ expired.next_seqno = snd.next_seqno
          /\ expired.outstanding = snd.outstanding /\ expired.flight = snd.flight
          /\ expired.timer_running = snd.timer_running
          /\ expired.time_elapsed = 0 /\ expired.current_RTO = snd.current_RTO
          /\ expired.cwnd = snd.cwnd /\ expired.ssthresh = snd.ssthresh
      BY DEF Sender
    <3> HIDE DEF expired
    <3>3. Timer(expired) /\ Window(expired)
      BY <1>1, <2>5, <3>2 DEF Good, Timer, Window
    <3>4. Good(expired)
      BY <3>2, <3>3, GoodIsAboutFields
    <3> QED BY <2>1, <2>3, <3>1, <3>4
  <2>7. CASE snd.window_size # 0
    <3> DEFINE t == TimedOut(expired)
               failed == snd.retransmissions + 1 > MAX_RETX_ATTEMPTS
               in == IF failed THEN SetError(snd.input) ELSE snd.input
               h == IF failed THEN snd.ssthresh ELSE half
               w == IF failed THEN snd.cwnd ELSE MSS
               d == IF failed THEN snd.dup_acks ELSE 0
               rto == snd.current_RTO * 2
               count == snd.retransmissions + 1
    <3>1. t = [snd EXCEPT !.time_elapsed = 0, !.current_RTO = rto,
                          !.retransmissions = count, !.input = in,
                          !.ssthresh = h, !.cwnd = w, !.dup_acks = d]
      <4>1. /\ expired.window_size # 0 /\ expired.cwnd = snd.cwnd
            /\ expired.retransmissions = snd.retransmissions
        BY <2>7 DEF Sender
      <4>2. CASE failed
        BY <4>1, <4>2 DEF TimedOut, Sender
      <4>3. CASE ~failed
        BY <4>1, <4>3 DEF TimedOut, Sender
      <4> QED BY <4>2, <4>3
    <3>2. /\ in \in Stream
          /\ in.buffer = snd.input.buffer /\ in.total_poped = snd.input.total_poped
          /\ in.total_pushed = snd.input.total_pushed
          /\ in.capacity = snd.input.capacity /\ in.closed = snd.input.closed
      BY <1>1 DEF Stream, SetError
    <3>3. /\ rto \in Nat /\ rto > 0 /\ count \in Nat
          /\ h \in Nat /\ h >= MSS /\ w \in Nat \ {0} /\ w >= MSS
      <4> HIDE DEF half, MSS
      <4> QED BY <1>1, <1>2, <2>5, SMTT(30)
    <3>4. d \in Nat
      BY DEF Sender
    <3> HIDE DEF t, in, h, w, d, rto, count
    <3>5. /\ t \in Sender
          /\ t.input = in /\ t.isn = snd.isn /\ t.syn_sent = snd.syn_sent
          /\ t.fin_sent = snd.fin_sent /\ t.ackno = snd.ackno
          /\ t.next_seqno = snd.next_seqno /\ t.outstanding = snd.outstanding
          /\ t.flight = snd.flight /\ t.timer_running = snd.timer_running
          /\ t.time_elapsed = 0 /\ t.current_RTO = rto /\ t.cwnd = w /\ t.ssthresh = h
      BY <3>1, <3>2, <3>3, <3>4 DEF Sender
    <3>6. Timer(t) /\ Window(t)
      BY <2>4, <3>3, <3>5 DEF Good, Timer, Window
    <3>7. Good(t)
      BY <3>2, <3>5, <3>6, GoodIsAboutFields
    <3> QED BY <2>1, <2>3, <3>7 DEF t
  <2> QED BY <2>6, <2>7
<1> QED BY <1>3, <1>4

LEMMA PushBytesFits ==
  ASSUME NEW s \in Stream, NEW data \in Seq(Byte),
         Len(data) <= AvailableCapacity(s)
  PROVE  LET t == PushBytes(s, data)
         IN  /\ t \in Stream
             /\ Len(t.buffer) = Len(s.buffer) + Len(data)
             /\ t.total_pushed = s.total_pushed + Len(data)
             /\ t.total_poped = s.total_poped /\ t.capacity = s.capacity
             /\ t.closed = s.closed /\ t.error = s.error
<1>1. s.buffer \in Seq(Byte) /\ Len(data) \in Nat /\ s.total_pushed \in Nat
  BY DEF Stream
<1>2. PushBytes(s, data) = [s EXCEPT !.buffer = @ \o data, !.total_pushed = @ + Len(data)]
  BY DEF PushBytes
<1>3. /\ s.buffer \o data \in Seq(Byte)
      /\ Len(s.buffer \o data) = Len(s.buffer) + Len(data)
      /\ s.total_pushed + Len(data) \in Nat
  BY <1>1
<1> QED BY <1>2, <1>3 DEF Stream

\* The application writes n bytes.
Written(snd, n) ==
  [snd EXCEPT !.input = PushBytes(@, [i \in 1..n |-> @.total_pushed + i])]

LEMMA WrittenKeepsGood ==
  ASSUME NEW snd \in Sender, Good(snd), ~snd.input.closed,
         NEW n \in Nat, n <= AvailableCapacity(snd.input)
  PROVE  Good(Written(snd, n))
<1> DEFINE in == snd.input
           data == [i \in 1..n |-> in.total_pushed + i]
           out  == PushBytes(in, data)
           t    == Written(snd, n)
<1>2. /\ snd \in Sender /\ in \in Stream /\ in.total_pushed \in Nat
      /\ in.total_poped \in Nat /\ in.capacity \in Nat /\ in.closed \in BOOLEAN
  BY DEF Good, Sender, Stream
<1>3. n \in Nat /\ n <= AvailableCapacity(in) /\ AvailableCapacity(in) \in Int
  BY <1>2 DEF AvailableCapacity
<1>4. data \in Seq(Byte) /\ Len(data) = n
  <2>1. \A i \in 1..n : in.total_pushed + i \in Byte
    BY <1>2, <1>3 DEF Byte
  <2>2. data \in [1..n -> Byte]
    BY <2>1
  <2> HIDE DEF data
  <2> QED BY <2>2, <1>3
<1> HIDE DEF data
<1>5. /\ out \in Stream
      /\ Len(out.buffer) = Len(in.buffer) + n
      /\ out.total_pushed = in.total_pushed + n
      /\ out.total_poped = in.total_poped /\ out.capacity = in.capacity
      /\ out.closed = in.closed
  BY <1>2, <1>3, <1>4, PushBytesFits, SMTT(30)
<1>6. t = [snd EXCEPT !.input = out]
  BY DEF Written, data
<1> HIDE DEF out, t
<1>7. /\ t \in Sender /\ t.input = out
      /\ t.isn = snd.isn /\ t.syn_sent = snd.syn_sent
      /\ t.fin_sent = snd.fin_sent /\ t.ackno = snd.ackno
      /\ t.next_seqno = snd.next_seqno /\ t.outstanding = snd.outstanding
      /\ t.flight = snd.flight /\ t.timer_running = snd.timer_running
      /\ t.time_elapsed = snd.time_elapsed /\ t.current_RTO = snd.current_RTO
      /\ t.cwnd = snd.cwnd /\ t.ssthresh = snd.ssthresh
  BY <1>2, <1>5, <1>6 DEF Sender
<1>8. ~snd.fin_sent
  BY DEF Good, Position
<1>9. Timer(t) /\ Window(t)
  BY <1>7 DEF Good, Timer, Window
<1>10. Position(t)
  <2>1. /\ snd.next_seqno = Count(snd.syn_sent) + in.total_poped + Count(snd.fin_sent)
        /\ in.total_pushed = in.total_poped + Len(in.buffer)
    BY DEF Good, Position
  <2>2. Len(in.buffer) \in Nat
    BY <1>2 DEF Stream
  <2>3. n <= in.capacity - (in.total_pushed - in.total_poped)
    BY <1>3 DEF AvailableCapacity
  <2>4. /\ out.total_pushed = out.total_poped + Len(out.buffer)
        /\ out.total_pushed - out.total_poped <= out.capacity
    <3>1. /\ in.total_poped \in Nat /\ in.total_pushed \in Nat /\ in.capacity \in Nat
          /\ n \in Nat
      BY <1>2, <1>3 DEF Stream
    <3> DEFINE left == Len(in.buffer)
    <3>2. /\ left \in Nat /\ in.total_pushed = in.total_poped + left
          /\ Len(out.buffer) = left + n /\ out.total_pushed = in.total_pushed + n
          /\ out.total_poped = in.total_poped /\ out.capacity = in.capacity
      <4>1. left \in Nat /\ in.total_pushed = in.total_poped + left
        BY <2>1, <2>2
      <4> QED BY <4>1, <1>5
    <3> HIDE DEF left
    <3> QED BY <2>3, <3>1, <3>2, SMTT(30)
  <2> QED BY <1>5, <1>7, <1>8, <2>1, <2>4 DEF Position
<1>11. \E pos : Layout(t, pos) /\ Settled(t, pos)
  BY <1>7 DEF Good, Layout, Settled
<1> QED BY <1>7, <1>9, <1>10, <1>11 DEF Good, t

LEMMA CloseKeepsGood ==
  ASSUME NEW snd \in Sender, Good(snd)
  PROVE  Good([snd EXCEPT !.input = Close(@)])
<1> DEFINE in == Close(snd.input)
           t  == [snd EXCEPT !.input = Close(@)]
<1>1. snd \in Sender /\ t = [snd EXCEPT !.input = in]
  BY DEF Good
<1>2. /\ in \in Stream /\ in.closed = TRUE
      /\ in.buffer = snd.input.buffer /\ in.total_poped = snd.input.total_poped
      /\ in.total_pushed = snd.input.total_pushed
      /\ in.capacity = snd.input.capacity
  BY <1>1 DEF Close, Sender, Stream
<1> HIDE DEF in, t
<1>3. /\ t \in Sender /\ t.input = in
      /\ t.isn = snd.isn /\ t.syn_sent = snd.syn_sent
      /\ t.fin_sent = snd.fin_sent /\ t.ackno = snd.ackno
      /\ t.next_seqno = snd.next_seqno /\ t.outstanding = snd.outstanding
      /\ t.flight = snd.flight /\ t.timer_running = snd.timer_running
      /\ t.time_elapsed = snd.time_elapsed /\ t.current_RTO = snd.current_RTO
      /\ t.cwnd = snd.cwnd /\ t.ssthresh = snd.ssthresh
  BY <1>1, <1>2 DEF Sender
<1>4. Timer(t) /\ Window(t)
  BY <1>3 DEF Good, Timer, Window
<1> QED BY <1>1, <1>2, <1>3, <1>4, GoodIsAboutFields DEF t
-----------------------------------------------------------------------------
(* What the segments carry: the buffer holds the bytes that come             *)
(* next, and each outstanding segment those of its position.                 *)

Placed(snd, msg) ==
  LET start == Unwrap(msg.seqno, snd.isn, snd.next_seqno)
  IN  /\ msg.SYN <=> start = 0
      /\ \A j \in 1 .. Len(msg.payload) : msg.payload[j] = start + Count(msg.SYN) + j - 1
      /\ msg.FIN <=> snd.fin_sent /\ start + SequenceLength(msg) = snd.next_seqno

Numbered(stream) ==
  \A k \in 1 .. Len(stream.buffer) : stream.buffer[k] = stream.total_poped + k

Carries(snd) ==
  /\ Numbered(snd.input)
  /\ \A i \in 1 .. Len(snd.outstanding) : Placed(snd, snd.outstanding[i])

\* The invariant of the timeout: it is doubled once for each timeout counted,
\* and a count beyond the limit goes with the error.
Backed(snd) ==
  /\ snd.current_RTO = Doubled(snd.retransmissions)
  /\ snd.retransmissions > MAX_RETX_ATTEMPTS => HasError(snd)

\* Everything that the invariant of the timeout looks at.
SameClock(s, t) ==
  /\ t.current_RTO = s.current_RTO /\ t.retransmissions = s.retransmissions
  /\ HasError(s) => HasError(t)

\* What only the application changes.
SameOwner(s, t) ==
  /\ t.isn = s.isn /\ t.input.capacity = s.input.capacity
  /\ t.input.total_pushed = s.input.total_pushed /\ t.input.closed = s.input.closed

\* Everything that this invariant looks at but the queue.
SamePlace(s, t) ==
  /\ t.isn = s.isn /\ t.next_seqno = s.next_seqno
  /\ t.syn_sent = s.syn_sent /\ t.fin_sent = s.fin_sent
  /\ t.input.buffer = s.input.buffer /\ t.input.total_poped = s.input.total_poped

LEMMA CarriesCongruence ==
  ASSUME NEW s, NEW t, SamePlace(s, t), t.outstanding = s.outstanding, Carries(s)
  PROVE  Carries(t)
<1>1. Numbered(t.input)
  BY DEF SamePlace, Carries, Numbered
<1>2. \A i \in 1 .. Len(t.outstanding) : Placed(t, t.outstanding[i])
  BY DEF SamePlace, Carries, Placed
<1> QED BY <1>1, <1>2 DEF Carries

LEMMA BackedCongruence ==
  ASSUME NEW s, NEW t, SameClock(s, t), Backed(s)
  PROVE  Backed(t)
BY DEF SameClock, Backed

\* What doubling is.
LEMMA DoubledIs ==
  /\ Doubled(0) = INITIAL_RTO
  /\ \A n \in Nat : Doubled(n) \in Nat /\ Doubled(n + 1) = 2 * Doubled(n)
<1> DEFINE Step == [t \in Nat |-> 2 * t]
<1>1. \A t \in Nat : Step[t] \in Nat /\ Step[t] = 2 * t
  OBVIOUS
<1>2. INITIAL_RTO \in Nat
  BY SenderAssumption
<1>3. \A n \in Nat : Doubled(n) = Iterate(Step, INITIAL_RTO, n)
  BY DEF Doubled
<1> HIDE DEF Step
<1>4. /\ Iterate(Step, INITIAL_RTO, 0) = INITIAL_RTO
      /\ \A n \in Nat : Iterate(Step, INITIAL_RTO, n + 1) = Step[Iterate(Step, INITIAL_RTO, n)]
      /\ \A n \in Nat : Iterate(Step, INITIAL_RTO, n) \in Nat
  BY <1>1, <1>2, IterateDef
<1>5. 0 \in Nat /\ \A n \in Nat : n + 1 \in Nat
  OBVIOUS
<1> QED BY <1>1, <1>3, <1>4, <1>5
-----------------------------------------------------------------------------
(* receive and tick: segments leave the queue at its front, and nothing else *)
(* changes its place.                                                        *)

LEMMA DropAckedKeepsStream ==
  ASSUME NEW s \in Sender, NEW ackno \in Nat, ackno <= s.ackno,
         \E pos : Layout(s, pos) /\ pos[1] <= s.ackno
  PROVE  LET t == DropAcked(s, ackno)
         IN  /\ t \in Sender /\ SamePlace(s, t) /\ SameClock(s, t) /\ (Carries(s) => Carries(t))
             /\ t.input = s.input /\ t.ackno = s.ackno
<1> DEFINE Step == [r \in Sender |-> PopPass(r, ackno)]
           States == {r \in Sender : Popping(s, r) /\ (Carries(s) => Carries(r))}
<1>1. Popping(s, s)
  <2>1. s.outstanding \in Seq(SenderMessage) /\ s.flight \in Nat
    BY DEF Sender
  <2>2. s = [s EXCEPT !.outstanding = s.outstanding, !.flight = s.flight]
    BY DEF Sender
  <2> QED BY <2>1, <2>2 DEF Popping
<1>2. s \in States
  BY <1>1
<1>3. ASSUME NEW r \in Sender, Popping(s, r)
      PROVE  SamePlace(s, r) /\ SameClock(s, r) /\ r.input = s.input /\ r.ackno = s.ackno
  BY <1>3 DEF Popping, SamePlace, SameClock, HasError, Sender
<1>4. ASSUME NEW r \in States PROVE Step[r] \in States
  <2>1. r \in Sender /\ Popping(s, r) /\ ackno <= r.ackno
    BY <1>3
  <2>2. Popping(s, PopPass(r, ackno))
    BY <2>1, PopPassStep
  <2>3. PopPass(r, ackno) \in Sender
    BY <2>2 DEF Popping
  <2>4. ASSUME Carries(r) PROVE Carries(PopPass(r, ackno))
    <3> DEFINE u == PopPass(r, ackno)
    <3>1. SamePlace(r, u)
      BY <2>1, <2>2, <2>3, <1>3 DEF SamePlace
    <3>2. u.outstanding = r.outstanding \/ (r.outstanding # <<>> /\ u.outstanding = Tail(r.outstanding))
      BY <2>1 DEF PopPass, Sender
    <3> SUFFICES Carries(u)
      OBVIOUS
    <3> HIDE DEF u
    <3>3. CASE u.outstanding = r.outstanding
      BY <3>1, <3>3, <2>4, CarriesCongruence
    <3>4. CASE r.outstanding # <<>> /\ u.outstanding = Tail(r.outstanding)
      <4>1. r.outstanding \in Seq(SenderMessage)
        BY <2>1 DEF Sender
      <4>2. ASSUME NEW i \in 1 .. Len(u.outstanding)
            PROVE  Placed(u, u.outstanding[i])
        <5>1. i + 1 \in 1 .. Len(r.outstanding) /\ u.outstanding[i] = r.outstanding[i + 1]
          BY <3>4, <4>1, <4>2
        <5>2. Placed(r, r.outstanding[i + 1])
          BY <5>1, <2>4 DEF Carries
        <5> QED BY <3>1, <5>1, <5>2 DEF Placed, SamePlace
      <4>3. Numbered(u.input)
        BY <3>1, <2>4 DEF Carries, Numbered, SamePlace
      <4> QED BY <4>2, <4>3 DEF Carries
    <3> QED BY <3>2, <3>3, <3>4
  <2> QED BY <2>1, <2>2, <2>3, <2>4
<1>5. Len(s.outstanding) \in Nat
  BY DEF Sender
<1>6. Iterate(Step, s, Len(s.outstanding)) \in States
  <2> HIDE DEF Step, States
  <2> QED BY <1>2, <1>4, <1>5, IterateInvariant
<1>7. DropAcked(s, ackno) \in States
  BY <1>6 DEF DropAcked
<1> HIDE DEF Step
<1> QED BY <1>3, <1>7

LEMMA StopIdleTimerKeepsStream ==
  ASSUME NEW s \in Sender
  PROVE  /\ SamePlace(s, StopIdleTimer(s)) /\ SameClock(s, StopIdleTimer(s))
         /\ Carries(s) => Carries(StopIdleTimer(s))
         /\ StopIdleTimer(s).input = s.input /\ StopIdleTimer(s).ackno = s.ackno
<1>1. /\ SamePlace(s, StopIdleTimer(s)) /\ SameClock(s, StopIdleTimer(s))
      /\ StopIdleTimer(s).outstanding = s.outstanding
      /\ StopIdleTimer(s).input = s.input /\ StopIdleTimer(s).ackno = s.ackno
  BY DEF StopIdleTimer, SamePlace, SameClock, HasError, Sender
<1> QED BY <1>1, CarriesCongruence

LEMMA OnNewAckType ==
  ASSUME NEW snd \in Sender, NEW ackno \in Nat, ackno > snd.ackno
  PROVE  OnNewAck(snd, ackno) \in Sender
<1> DEFINE s == OnNewAck(snd, ackno)
           w == s.cwnd
<1>1. snd.ackno \in Nat /\ snd.cwnd \in Nat \ {0} /\ ackno - snd.ackno \in Nat
  BY DEF Sender
<1>2. /\ AvoidCongestion(snd.cwnd, ackno - snd.ackno) \in Nat
      /\ AvoidCongestion(snd.cwnd, ackno - snd.ackno) >= snd.cwnd
  BY <1>1, AvoidCongestionGrows
<1>3. w = IF snd.ackno = 0 /\ ackno = 1 THEN snd.cwnd
          ELSE IF snd.cwnd < snd.ssthresh THEN snd.cwnd + (ackno - snd.ackno)
          ELSE AvoidCongestion(snd.cwnd, ackno - snd.ackno)
  BY DEF OnNewAck, Sender
<1>4. s = [snd EXCEPT !.current_RTO = INITIAL_RTO, !.retransmissions = 0,
               !.time_elapsed = 0, !.timer_running = TRUE,
               !.ackno = ackno, !.dup_acks = 0, !.cwnd = w]
  BY DEF OnNewAck, Sender
<1> HIDE DEF w, s
<1>5. w \in Nat \ {0}
  BY <1>1, <1>2, <1>3
<1>6. s \in Sender
  BY <1>4, <1>5, SenderAssumption, WindowAssumption DEF Sender
<1> QED BY <1>6 DEF s

LEMMA ReceiveKeepsStream ==
  ASSUME NEW snd \in Sender, Good(snd), NEW msg \in ReceiverMessage
  PROVE  LET t == Receive(snd, msg)
             ackno == Unwrap(msg.ackno, snd.isn, snd.next_seqno)
         IN  /\ SamePlace(snd, t) /\ (Carries(snd) => Carries(t)) /\ (Backed(snd) => Backed(t))
             /\ SameOwner(snd, t)
             /\ t.ackno = IF msg.ackno # NoAck /\ ackno > snd.ackno /\ ackno <= snd.next_seqno
                          THEN ackno ELSE snd.ackno
<1> DEFINE in    == IF msg.RST THEN SetError(snd.input) ELSE snd.input
           u     == [snd EXCEPT !.input = in, !.window_size = msg.window_size]
           ackno == Unwrap(msg.ackno, snd.isn, snd.next_seqno)
           s     == IF ackno > snd.ackno THEN OnNewAck(u, ackno)
                    ELSE IF ackno = snd.ackno /\ snd.outstanding # <<>> THEN OnDuplicateAck(u)
                    ELSE u
<1>1. /\ in \in Stream /\ msg.window_size \in 0 .. MAX_WINDOW
      /\ in.buffer = snd.input.buffer /\ in.total_poped = snd.input.total_poped
      /\ in.capacity = snd.input.capacity /\ in.total_pushed = snd.input.total_pushed
      /\ in.closed = snd.input.closed
  BY DEF Sender, Stream, SetError, ReceiverMessage
<1> HIDE DEF in
<1>2. /\ u \in Sender /\ SamePlace(snd, u) /\ u.outstanding = snd.outstanding
      /\ u.ackno = snd.ackno /\ u.flight = snd.flight /\ u.input = in
      /\ SameOwner(snd, u)
  BY <1>1 DEF Sender, SamePlace, SameOwner
<1>5. SameClock(snd, u)
  <2>1. snd.input.error => in.error
    BY DEF in, SetError, Sender, Stream
  <2> QED BY <2>1 DEF SameClock, HasError, Sender
<1>3. CASE msg.ackno = NoAck \/ ackno > snd.next_seqno
  <2>1. Receive(snd, msg) = u
    BY <1>3 DEF Receive, in
  <2>2. ~(msg.ackno # NoAck /\ ackno > snd.ackno /\ ackno <= snd.next_seqno)
    <3>1. CASE msg.ackno = NoAck
      BY <3>1
    <3>2. CASE msg.ackno # NoAck
      <4>1. ackno > snd.next_seqno
        BY <1>3, <3>2
      <4>2. msg.ackno \in Wrap32 /\ snd.isn \in Wrap32 /\ snd.next_seqno \in Nat
        BY <3>2 DEF ReceiverMessage, Sender
      <4>3. ackno \in Nat
        BY <4>2, UnwrapType
      <4> HIDE DEF ackno
      <4> QED BY <4>1, <4>2, <4>3
    <3> QED BY <3>1, <3>2
  <2> HIDE DEF u, ackno
  <2>3. (Carries(snd) => Carries(u)) /\ (Backed(snd) => Backed(u))
    BY <1>2, <1>5, CarriesCongruence, BackedCongruence
  <2>4. u.ackno = IF msg.ackno # NoAck /\ ackno > snd.ackno /\ ackno <= snd.next_seqno
                  THEN ackno ELSE snd.ackno
    BY <1>2, <2>2
  <2> QED BY <2>1, <2>3, <2>4, <1>2 DEF ackno
<1>4. CASE ~(msg.ackno = NoAck \/ ackno > snd.next_seqno)
  <2>1. Receive(snd, msg) = StopIdleTimer(DropAcked(s, ackno))
    BY <1>4 DEF Receive, in
  <2>2. ackno \in Nat
    <3>1. msg.ackno \in Wrap32 /\ snd.isn \in Wrap32 /\ snd.next_seqno \in Nat
      BY <1>4 DEF ReceiverMessage, Sender
    <3> QED BY <3>1, UnwrapType
  <2>3. snd.ackno \in Nat /\ Good(u)
    <3>1. /\ u.input = in /\ u.cwnd = snd.cwnd /\ u.ssthresh = snd.ssthresh
          /\ u.timer_running = snd.timer_running /\ u.time_elapsed = snd.time_elapsed
          /\ u.current_RTO = snd.current_RTO
      BY <1>1 DEF Sender
    <3>2. /\ in.total_pushed = snd.input.total_pushed /\ in.capacity = snd.input.capacity
          /\ in.closed = snd.input.closed
      BY DEF in, Sender, Stream, SetError
    <3> HIDE DEF u
    <3>3. Timer(u) /\ Window(u)
      BY <1>2, <3>1 DEF Good, Timer, Window, SamePlace
    <3>4. Good(u)
      BY <1>1, <1>2, <3>1, <3>2, <3>3, GoodIsAboutFields DEF SamePlace
    <3> QED BY <3>4 DEF Sender
  <2> HIDE DEF ackno, u
  <2>4. /\ s \in Sender /\ SamePlace(u, s) /\ s.outstanding = u.outstanding
        /\ s.flight = u.flight /\ s.ackno >= u.ackno /\ s.ackno >= ackno
        /\ Backed(u) => Backed(s)
        /\ s.input = u.input /\ s.ackno = IF ackno > snd.ackno THEN ackno ELSE snd.ackno
    <3>1. CASE ackno > snd.ackno
      <4>1. s = OnNewAck(u, ackno)
        BY <3>1
      <4>2. s \in Sender
        BY <3>1, <4>1, <1>2, <2>2, OnNewAckType
      <4>3. /\ SamePlace(u, s) /\ s.outstanding = u.outstanding
            /\ s.flight = u.flight /\ s.ackno = ackno /\ s.input = u.input
        BY ZenonT(60), <4>1, <1>2 DEF SamePlace, OnNewAck, Sender
      <4>4. s.current_RTO = INITIAL_RTO /\ s.retransmissions = 0
        BY <4>1, <1>2 DEF OnNewAck, Sender
      <4> HIDE DEF s
      <4>5. Backed(s)
        BY <4>4, DoubledIs, SenderAssumption DEF Backed
      <4> QED BY <3>1, <4>2, <4>3, <4>5, <1>2, <2>2, <2>3
    <3>2. CASE ~(ackno > snd.ackno) /\ ackno = snd.ackno /\ snd.outstanding # <<>>
      <4>1. s = OnDuplicateAck(u)
        BY <3>2
      <4>2. s \in Sender /\ s.ackno = u.ackno
        BY <3>2, <4>1, <1>2, <2>3, OnDuplicateAckGood DEF Good
      <4>3. /\ SamePlace(u, s) /\ s.outstanding = u.outstanding /\ s.flight = u.flight
            /\ SameClock(u, s) /\ s.input = u.input
        BY <4>1, <1>2 DEF SamePlace, SameClock, HasError, OnDuplicateAck, Sender
      <4> HIDE DEF s
      <4> QED BY <3>2, <4>2, <4>3, <1>2, <2>2, <2>3, BackedCongruence
    <3>3. CASE ~(ackno > snd.ackno) /\ ~(ackno = snd.ackno /\ snd.outstanding # <<>>)
      <4>1. s = u
        BY <3>3
      <4> HIDE DEF s
      <4> QED BY <3>3, <4>1, <1>2, <2>2, <2>3 DEF SamePlace
    <3> QED BY <3>1, <3>2, <3>3
  <2> HIDE DEF s
  <2>5. \E pos : Layout(s, pos) /\ pos[1] <= s.ackno
    <3>1. PICK pos : Layout(u, pos) /\ Settled(u, pos)
      BY <2>3 DEF Good
    <3>2. Layout(s, pos)
      BY <3>1, <2>4, LayoutCongruence DEF SamePlace
    <3>3. pos[1] \in Nat
      <4>1. 1 \in 1 .. Len(u.outstanding) + 1
        BY <1>2 DEF Sender
      <4> QED BY <4>1, <3>1 DEF Layout
    <3>4. s.ackno \in Nat /\ u.ackno \in Nat
      BY <1>2, <2>4 DEF Sender
    <3>5. pos[1] <= s.ackno
      BY <3>1, <3>3, <3>4, <2>4 DEF Settled
    <3> QED BY <3>2, <3>5
  <2> DEFINE d == DropAcked(s, ackno)
  <2>6. /\ d \in Sender /\ SamePlace(s, d) /\ SameClock(s, d) /\ (Carries(s) => Carries(d))
        /\ d.input = s.input /\ d.ackno = s.ackno
    <3>1. ackno <= s.ackno
      <4>1. s.ackno \in Nat
        BY <2>4 DEF Sender
      <4> QED BY <4>1, <2>2, <2>4
    <3> QED BY <3>1, <2>2, <2>4, <2>5, DropAckedKeepsStream
  <2>7. /\ SamePlace(d, StopIdleTimer(d)) /\ SameClock(d, StopIdleTimer(d))
        /\ Carries(d) => Carries(StopIdleTimer(d))
        /\ StopIdleTimer(d).input = d.input /\ StopIdleTimer(d).ackno = d.ackno
    BY <2>6, StopIdleTimerKeepsStream
  <2> HIDE DEF d
  <2>8. SamePlace(snd, StopIdleTimer(d))
    BY <1>2, <2>4, <2>6, <2>7 DEF SamePlace
  <2>9. Carries(snd) => Carries(s)
    BY <1>2, <2>4, CarriesCongruence
  <2>10. Backed(snd) => Backed(StopIdleTimer(d))
    <3>1. (Backed(snd) => Backed(u)) /\ (Backed(u) => Backed(s))
      BY <1>5, <2>4, BackedCongruence
    <3>2. (Backed(s) => Backed(d)) /\ (Backed(d) => Backed(StopIdleTimer(d)))
      BY <2>6, <2>7, BackedCongruence
    <3> QED BY <3>1, <3>2
  <2>11. SameOwner(snd, StopIdleTimer(d))
    BY <1>2, <2>4, <2>6, <2>7, <2>8 DEF SameOwner, SamePlace
  <2>12. StopIdleTimer(d).ackno = IF msg.ackno # NoAck /\ ackno > snd.ackno /\ ackno <= snd.next_seqno
                                  THEN ackno ELSE snd.ackno
    <3>1. snd.next_seqno \in Nat /\ msg.ackno # NoAck /\ ~(ackno > snd.next_seqno)
      BY <1>4 DEF ackno, Sender
    <3>2. ackno <= snd.next_seqno
      BY <2>2, <3>1
    <3> QED BY <2>4, <2>6, <2>7, <3>1, <3>2
  <2> QED BY <2>1, <2>6, <2>7, <2>8, <2>9, <2>10, <2>11, <2>12 DEF d, ackno
<1> QED BY <1>3, <1>4

LEMMA TickKeepsStream ==
  ASSUME NEW snd \in Sender, NEW ms \in Nat
  PROVE  LET t == Tick(snd, ms).snd
         IN  /\ SamePlace(snd, t) /\ (Carries(snd) => Carries(t))
             /\ Backed(snd) /\ ~HasError(snd) => Backed(t)
             /\ SameOwner(snd, t) /\ t.ackno = snd.ackno /\ t.flight = snd.flight
             /\ t.outstanding = snd.outstanding
<1> DEFINE t == Tick(snd, ms).snd
           elapsed == snd.time_elapsed + (IF snd.timer_running THEN ms ELSE 0)
           expired == [snd EXCEPT !.time_elapsed = 0]
<1>1. /\ SamePlace(snd, t) /\ t.outstanding = snd.outstanding
      /\ SameOwner(snd, t) /\ t.ackno = snd.ackno /\ t.flight = snd.flight
  <2>1. CASE elapsed < snd.current_RTO
    <3>1. t = [snd EXCEPT !.time_elapsed = elapsed]
      BY <2>1 DEF Tick
    <3> HIDE DEF t
    <3> QED BY <3>1 DEF SamePlace, SameOwner, Sender
  <2>2. CASE ~(elapsed < snd.current_RTO)
    <3>1. t = TimedOut(expired)
      BY <2>2 DEF Tick
    <3> HIDE DEF t
    <3>2. /\ t.isn = snd.isn /\ t.next_seqno = snd.next_seqno
          /\ t.syn_sent = snd.syn_sent /\ t.fin_sent = snd.fin_sent
          /\ t.outstanding = snd.outstanding
          /\ t.ackno = snd.ackno /\ t.flight = snd.flight
      BY <3>1 DEF TimedOut, Sender
    <3>3. t.input = snd.input \/ t.input = SetError(snd.input)
      BY <3>1 DEF TimedOut, Sender
    <3>4. /\ SetError(snd.input).buffer = snd.input.buffer
          /\ SetError(snd.input).total_poped = snd.input.total_poped
          /\ SetError(snd.input).capacity = snd.input.capacity
          /\ SetError(snd.input).total_pushed = snd.input.total_pushed
          /\ SetError(snd.input).closed = snd.input.closed
      BY DEF SetError, Sender, Stream
    <3> QED BY <3>2, <3>3, <3>4 DEF SamePlace, SameOwner
  <2> QED BY <2>1, <2>2
<1>2. ASSUME Backed(snd), ~HasError(snd) PROVE Backed(t)
  <2> DEFINE r == snd.retransmissions
  <2>1. /\ r \in Nat /\ r <= MAX_RETX_ATTEMPTS /\ MAX_RETX_ATTEMPTS \in Nat
        /\ snd.current_RTO = Doubled(r) /\ Doubled(r) \in Nat
    BY SMTT(60), <1>2, DoubledIs, SenderAssumption DEF Backed, Sender
  <2>2. CASE elapsed < snd.current_RTO
    <3>1. t = [snd EXCEPT !.time_elapsed = elapsed]
      BY <2>2 DEF Tick
    <3> HIDE DEF t
    <3> QED BY <3>1, <1>2, BackedCongruence DEF SameClock, HasError, Sender
  <2>3. CASE ~(elapsed < snd.current_RTO)
    <3>1. t = TimedOut(expired)
      BY <2>3 DEF Tick
    <3> HIDE DEF t
    <3>2. CASE snd.window_size = 0
      <4>1. t = expired
        BY <3>1, <3>2 DEF TimedOut, Sender
      <4> QED BY <4>1, <1>2, BackedCongruence DEF SameClock, HasError, Sender
    <3>3. CASE snd.window_size # 0
      <4>1. t.retransmissions = r + 1 /\ t.current_RTO = snd.current_RTO * 2
        BY <3>1, <3>3 DEF TimedOut, Sender
      <4>2. r + 1 > MAX_RETX_ATTEMPTS => t.input = SetError(snd.input)
        BY <3>1, <3>3 DEF TimedOut, Sender
      <4>3. r + 1 > MAX_RETX_ATTEMPTS => HasError(t)
        BY <4>2 DEF HasError, SetError, Sender, Stream
      <4>4. Doubled(r + 1) = 2 * Doubled(r)
        BY <2>1, DoubledIs
      <4>5. t.current_RTO = Doubled(r + 1)
        BY <4>1, <4>4, <2>1
      <4> HIDE DEF r
      <4> QED BY <4>1, <4>3, <4>5 DEF Backed
    <3> QED BY <3>2, <3>3
  <2> QED BY <2>2, <2>3
<1> HIDE DEF t
<1>3. Carries(snd) => Carries(t)
  BY <1>1, CarriesCongruence
<1> QED BY <1>1, <1>2, <1>3 DEF t
-----------------------------------------------------------------------------
(* push                                                                      *)

(* Positions before the SYN, and after the FIN.                              *)
LEMMA SynIsFirst ==
  ASSUME NEW snd \in Sender, Good(snd)
  PROVE  /\ ~snd.syn_sent <=> snd.next_seqno = 0
         /\ snd.fin_sent => snd.syn_sent
<1>1. /\ snd.next_seqno \in Nat /\ snd.input.total_poped \in Nat
      /\ snd.syn_sent \in BOOLEAN /\ snd.fin_sent \in BOOLEAN
  BY DEF Sender, Stream
<1>2. snd.next_seqno = Count(snd.syn_sent) + snd.input.total_poped + Count(snd.fin_sent)
  BY DEF Good, Position
<1>3. ~snd.syn_sent => snd.next_seqno = 0
  BY DEF Good, Window
<1>4. snd.syn_sent => snd.next_seqno > 0
  BY <1>1, <1>2 DEF Count
<1>5. snd.fin_sent => snd.next_seqno > 0
  BY <1>1, <1>2 DEF Count
<1> QED BY <1>1, <1>3, <1>4, <1>5

(* When there is room and nothing to send, all has been sent: also, nothing  *)
(* is sent after the FIN.                                                    *)
LEMMA NothingToSend ==
  ASSUME NEW snd \in Sender, Good(snd), EffectiveWindow(snd) > snd.flight
  PROVE  /\ SequenceLength(NextSegment(snd)) = 0 =>
               /\ snd.syn_sent /\ snd.input.buffer = <<>>
               /\ snd.input.closed => snd.fin_sent
         /\ snd.fin_sent => SequenceLength(NextSegment(snd)) = 0
<1> DEFINE msg == NextSegment(snd)
           len == PayloadLen(snd)
           held == Len(snd.input.buffer)
           room == AvailableWindow(snd)
<1>1. /\ msg \in SenderMessage /\ len \in 0 .. held /\ Len(msg.payload) = len
      /\ msg.SYN = ~snd.syn_sent
      /\ msg.FIN = (/\ snd.input.closed /\ ~snd.fin_sent /\ room > len /\ len = held)
  BY NextSegmentFields
<1>2. /\ held \in Nat /\ snd.syn_sent \in BOOLEAN /\ snd.fin_sent \in BOOLEAN
      /\ snd.input.closed \in BOOLEAN /\ snd.flight \in Nat
      /\ snd.input.buffer \in Seq(Byte) /\ EffectiveWindow(snd) \in Nat
  BY SMTT(60), EffectiveWindowType DEF Sender, Stream
<1>3. SequenceLength(msg) = Count(msg.SYN) + len + Count(msg.FIN)
  BY <1>1 DEF SequenceLength
<1>4. snd.syn_sent => room \in Nat /\ room > 0
  BY <1>2 DEF AvailableWindow, Count
<1>5. snd.syn_sent => len = Least(MAX_PAYLOAD_SIZE, Least(room, held))
  BY DEF PayloadLen
<1> HIDE DEF msg, len, room
<1>6. SequenceLength(msg) = 0 => ~msg.SYN /\ len = 0 /\ ~msg.FIN
  <2>1. msg.SYN \in BOOLEAN /\ msg.FIN \in BOOLEAN /\ len \in Nat
    BY <1>1, <1>2 DEF SenderMessage
  <2> QED BY <2>1, <1>3 DEF Count
<1>7. snd.syn_sent /\ len = 0 => held = 0
  BY <1>2, <1>4, <1>5, SenderAssumption DEF Least
<1> HIDE DEF held
<1>8. SequenceLength(msg) = 0 =>
        /\ snd.syn_sent /\ held = 0 /\ (snd.input.closed => snd.fin_sent)
  BY <1>1, <1>2, <1>4, <1>6, <1>7
<1>9. snd.fin_sent => SequenceLength(msg) = 0
  <2> SUFFICES ASSUME snd.fin_sent PROVE SequenceLength(msg) = 0
    OBVIOUS
  <2>1. snd.syn_sent
    BY SynIsFirst
  <2>2. held = 0
    BY DEF Good, Position, held
  <2>3. ~msg.SYN /\ ~msg.FIN
    BY <1>1, <2>1, Zenon
  <2>4. len = 0
    BY <1>1, <2>2
  <2> QED BY <2>3, <2>4, <1>3 DEF Count
<1>10. held = 0 => snd.input.buffer = <<>>
  BY <1>2 DEF held
<1> QED BY <1>8, <1>9, <1>10 DEF msg

(* The new segment goes to the position next_seqno, and those before it keep *)
(* theirs although next_seqno moves.                                         *)
LEMMA SentPositions ==
  ASSUME NEW snd \in Sender, Good(snd), EffectiveWindow(snd) > snd.flight,
         SequenceLength(NextSegment(snd)) # 0
  PROVE  LET msg == NextSegment(snd)
             t   == Sent(snd, msg)
             n   == Len(snd.outstanding)
         IN  /\ \A i \in 1..n :
                  /\ t.outstanding[i] = snd.outstanding[i]
                  /\ LET start == Unwrap(snd.outstanding[i].seqno, snd.isn, snd.next_seqno)
                     IN  /\ Unwrap(t.outstanding[i].seqno, t.isn, t.next_seqno) = start
                         /\ start \in Nat
                         /\ start + SequenceLength(snd.outstanding[i]) <= snd.next_seqno
             /\ Len(t.outstanding) = n + 1 /\ t.outstanding[n + 1] = msg
             /\ Unwrap(msg.seqno, t.isn, t.next_seqno) = snd.next_seqno
<1> DEFINE msg == NextSegment(snd)
           t   == Sent(snd, msg)
           n   == Len(snd.outstanding)
<1>1. msg \in SenderMessage /\ msg.seqno = Wrap(snd.next_seqno, snd.isn)
  BY NextSegmentFields
<1>2. SequenceLength(msg) \in Nat
  BY <1>1, SequenceLengthType
<1>3. Good(t)
  BY SentKeepsGood
<1> HIDE DEF msg
<1>4. /\ t \in Sender /\ t.isn = snd.isn
      /\ t.outstanding = Append(snd.outstanding, msg)
      /\ t.next_seqno = snd.next_seqno + SequenceLength(msg)
  BY <1>1, SentFields
<1> HIDE DEF t
<1>5. /\ snd.outstanding \in Seq(SenderMessage) /\ n \in Nat
      /\ snd.next_seqno \in Nat
  BY DEF Sender
<1>6. /\ Len(t.outstanding) = n + 1 /\ t.outstanding[n + 1] = msg
      /\ \A i \in 1..n : t.outstanding[i] = snd.outstanding[i]
  BY <1>1, <1>4, <1>5
<1>7. PICK q : Layout(t, q)
  BY <1>3 DEF Good
<1>8. t.flight = snd.flight + SequenceLength(msg) /\ snd.flight \in Nat
  BY <1>1, SentFields DEF t, Sender
<1> HIDE DEF n
<1>9. /\ q \in [1 .. n + 2 -> Nat] /\ q[n + 2] = t.next_seqno
      /\ \A i \in 1 .. n + 1 : /\ t.outstanding[i].seqno = Wrap(q[i], t.isn)
                               /\ q[i + 1] = q[i] + SequenceLength(t.outstanding[i])
                               /\ q[i] < q[i + 1]
      /\ \A i, j \in 1 .. n + 2 : i <= j => q[i] <= q[j]
      /\ t.flight = t.next_seqno - q[1] /\ t.flight <= MAX_WINDOW
  <2>1. n + 1 + 1 = n + 2 /\ Len(t.outstanding) + 1 = n + 2
    BY <1>5, <1>6
  <2> QED BY <2>1, <1>6, <1>7 DEF Layout
<1>10. q[n + 1] = snd.next_seqno
  <2>1. n + 1 \in 1 .. n + 1 /\ n + 1 \in 1 .. n + 2 /\ (n + 1) + 1 = n + 2
    BY <1>5
  <2>2. q[n + 2] = q[n + 1] + SequenceLength(msg) /\ q[n + 1] \in Nat
    BY <2>1, <1>6, <1>9
  <2> DEFINE len == SequenceLength(msg)
             last == q[n + 1]
  <2>3. len \in Nat /\ last \in Nat /\ last + len = snd.next_seqno + len
    BY <2>2, <1>2, <1>4, <1>9
  <2> HIDE DEF len, last
  <2>4. last = snd.next_seqno
    BY <2>3, <1>5
  <2> QED BY <2>4 DEF last
<1>11. Unwrap(msg.seqno, t.isn, t.next_seqno) = snd.next_seqno
  <2>1. n + 1 \in 1 .. Len(t.outstanding)
    BY <1>5, <1>6
  <2>2. Unwrap(t.outstanding[n + 1].seqno, t.isn, t.next_seqno) = q[n + 1]
    BY <2>1, <1>4, <1>7, OutstandingPosition
  <2> QED BY <2>2, <1>6, <1>10
<1> DEFINE pos == [i \in 1 .. n + 1 |-> q[i]]
<1>12. /\ pos \in [1 .. n + 1 -> Nat]
       /\ \A i \in 1 .. n + 1 : pos[i] = q[i]
  <2>1. \A i \in 1 .. n + 1 : i \in 1 .. n + 2
    BY <1>5
  <2> QED BY <2>1, <1>9
<1> HIDE DEF pos
<1>13. Layout(snd, pos)
  <2>1. /\ 1 \in 1 .. n + 1 /\ n + 1 \in 1 .. n + 1
        /\ \A i \in 1..n : i \in 1 .. n + 1 /\ i + 1 \in 1 .. n + 1
        /\ \A i \in 1 .. n + 1 : i \in 1 .. n + 2
    BY <1>5
  <2>2. snd.flight = snd.next_seqno - pos[1] /\ snd.flight <= MAX_WINDOW
    <3> DEFINE len == SequenceLength(msg)
               first == pos[1]
               flight == snd.flight
               next == snd.next_seqno
    <3>1. /\ len \in Nat /\ first \in Nat /\ flight \in Nat /\ next \in Nat
          /\ flight + len = (next + len) - first
          /\ flight + len <= MAX_WINDOW /\ MAX_WINDOW \in Nat
      BY <2>1, <1>2, <1>4, <1>5, <1>8, <1>9, <1>12, WindowAssumption
    <3> HIDE DEF len, first, flight, next
    <3>2. flight = next - first /\ flight <= MAX_WINDOW
      BY <3>1
    <3> QED BY <3>2 DEF flight, next, first
  <2>3. \A i \in 1..n : /\ snd.outstanding[i].seqno = Wrap(pos[i], snd.isn)
                        /\ pos[i + 1] = pos[i] + SequenceLength(snd.outstanding[i])
                        /\ pos[i] < pos[i + 1]
    BY <2>1, <1>4, <1>6, <1>9, <1>12
  <2>4. \A i, j \in 1 .. n + 1 : i <= j => pos[i] <= pos[j]
    BY <2>1, <1>9, <1>12
  <2>5. pos[n + 1] = snd.next_seqno
    BY <2>1, <1>10, <1>12
  <2> QED BY <2>2, <2>3, <2>4, <2>5, <1>12 DEF Layout, n
<1>14. ASSUME NEW i \in 1..n
       PROVE  LET start == Unwrap(snd.outstanding[i].seqno, snd.isn, snd.next_seqno)
              IN  /\ Unwrap(t.outstanding[i].seqno, t.isn, t.next_seqno) = start
                  /\ start \in Nat
                  /\ start + SequenceLength(snd.outstanding[i]) <= snd.next_seqno
  <2>1. i \in 1 .. Len(snd.outstanding) /\ i \in 1 .. Len(t.outstanding)
    BY <1>5, <1>6 DEF n
  <2>2. Unwrap(snd.outstanding[i].seqno, snd.isn, snd.next_seqno) = pos[i]
    BY <2>1, <1>13, OutstandingPosition
  <2>3. Unwrap(t.outstanding[i].seqno, t.isn, t.next_seqno) = q[i]
    BY <2>1, <1>4, <1>7, OutstandingPosition
  <2>4. /\ pos[i] \in Nat /\ pos[i] = q[i]
        /\ pos[i] + SequenceLength(snd.outstanding[i]) <= snd.next_seqno
    <3>1. i \in 1 .. n + 1 /\ i + 1 \in 1 .. n + 1 /\ n + 1 \in 1 .. n + 1 /\ i + 1 <= n + 1
      BY <1>5
    <3>2. /\ pos[i] \in Nat /\ pos[i + 1] <= pos[n + 1] /\ pos[n + 1] = snd.next_seqno
          /\ pos[i + 1] = pos[i] + SequenceLength(snd.outstanding[i])
      BY <3>1, <1>13 DEF Layout, n
    <3> QED BY <3>1, <3>2, <1>12
  <2> QED BY <2>2, <2>3, <2>4
<1> QED BY <1>6, <1>11, <1>14 DEF t, msg, n

LEMMA SentKeepsCarries ==
  ASSUME NEW snd \in Sender, Good(snd), EffectiveWindow(snd) > snd.flight,
         SequenceLength(NextSegment(snd)) # 0, Carries(snd)
  PROVE  Carries(Sent(snd, NextSegment(snd)))
<1> DEFINE msg == NextSegment(snd)
           len == PayloadLen(snd)
           t   == Sent(snd, msg)
           n   == Len(snd.outstanding)
           buffer == snd.input.buffer
           popped == snd.input.total_poped
<1>1. /\ msg \in SenderMessage
      /\ len \in 0 .. Len(buffer) /\ Len(msg.payload) = len
      /\ msg.payload = SubSeq(buffer, 1, len)
      /\ msg.SYN = ~snd.syn_sent
  BY NextSegmentFields
<1>2. ~snd.fin_sent
  BY NothingToSend
<1>3. /\ \A i \in 1..n :
           /\ t.outstanding[i] = snd.outstanding[i]
           /\ LET start == Unwrap(snd.outstanding[i].seqno, snd.isn, snd.next_seqno)
              IN  /\ Unwrap(t.outstanding[i].seqno, t.isn, t.next_seqno) = start
                  /\ start \in Nat
                  /\ start + SequenceLength(snd.outstanding[i]) <= snd.next_seqno
      /\ Len(t.outstanding) = n + 1 /\ t.outstanding[n + 1] = msg
      /\ Unwrap(msg.seqno, t.isn, t.next_seqno) = snd.next_seqno
  BY SentPositions
<1>4. SequenceLength(msg) \in Nat /\ SequenceLength(msg) > 0
  BY <1>1, SequenceLengthType
<1>5. /\ n \in Nat /\ snd.next_seqno \in Nat /\ snd.outstanding \in Seq(SenderMessage)
      /\ buffer \in Seq(Byte) /\ popped \in Nat /\ snd.input \in Stream
      /\ snd.syn_sent \in BOOLEAN
  BY SMTT(60) DEF Sender, Stream
<1>6. ~snd.syn_sent <=> snd.next_seqno = 0
  BY SynIsFirst
<1>7. snd.next_seqno = Count(snd.syn_sent) + popped
  <2>1. snd.next_seqno = Count(snd.syn_sent) + popped + Count(snd.fin_sent)
    BY DEF Good, Position
  <2>2. Count(snd.fin_sent) = 0
    BY <1>2 DEF Count
  <2>3. Count(snd.syn_sent) \in Nat
    BY DEF Count
  <2> QED BY <2>1, <2>2, <2>3, <1>5
<1>8. \A k \in 1 .. Len(buffer) : buffer[k] = popped + k
  BY DEF Carries, Numbered
<1> HIDE DEF msg, len
<1>9. /\ t.input = PopBytes(snd.input, len)
      /\ t.next_seqno = snd.next_seqno + SequenceLength(msg)
      /\ t.fin_sent = (snd.fin_sent \/ msg.FIN)
  BY <1>1, SentFields
<1>10. Numbered(t.input)
  <2>1. /\ t.input.buffer = SubSeq(buffer, len + 1, Len(buffer))
        /\ t.input.total_poped = popped + len
    BY <1>1, <1>5, <1>9 DEF PopBytes, Stream
  <2> HIDE DEF t, buffer, popped
  <2>2. ASSUME NEW k \in 1 .. Len(t.input.buffer)
        PROVE  t.input.buffer[k] = (popped + len) + k
    <3>1. len \in Nat /\ Len(buffer) \in Nat /\ len <= Len(buffer)
      BY <1>1, <1>5
    <3>2. k + len \in 1 .. Len(buffer) /\ t.input.buffer[k] = buffer[k + len] /\ k \in Nat
      BY <2>1, <2>2, <3>1, <1>5
    <3>3. t.input.buffer[k] = popped + (k + len)
      BY <3>2, <1>8
    <3> QED BY <3>1, <3>2, <3>3, <1>5
  <2> QED BY <2>1, <2>2 DEF Numbered
<1> HIDE DEF t
<1>11. ASSUME NEW i \in 1..n PROVE Placed(t, t.outstanding[i])
  <2> DEFINE old == snd.outstanding[i]
             start == Unwrap(old.seqno, snd.isn, snd.next_seqno)
             end == start + SequenceLength(old)
  <2>1. Placed(snd, old)
    BY DEF Carries
  <2>2. /\ t.outstanding[i] = old /\ Unwrap(old.seqno, t.isn, t.next_seqno) = start
        /\ start \in Nat /\ end <= snd.next_seqno
    BY <1>3
  <2>3. ~old.FIN
    BY <2>1, <1>2 DEF Placed
  <2>4. SequenceLength(old) \in Nat
    BY <1>5, SequenceLengthType
  <2>5. end # t.next_seqno
    <3> DEFINE long == SequenceLength(msg)
               next == snd.next_seqno
    <3>1. end \in Nat /\ long \in Nat /\ long > 0 /\ next \in Nat /\ end <= next
          /\ t.next_seqno = next + long
      BY <2>2, <2>4, <1>4, <1>5, <1>9
    <3> HIDE DEF end, long, next
    <3> QED BY <3>1
  <2> HIDE DEF old
  <2>6. /\ old.SYN <=> start = 0
        /\ \A j \in 1 .. Len(old.payload) : old.payload[j] = start + Count(old.SYN) + j - 1
    BY <2>1 DEF Placed
  <2> QED BY <2>2, <2>3, <2>5, <2>6 DEF Placed
<1>12. Placed(t, msg)
  <2>1. msg.SYN <=> snd.next_seqno = 0
    BY <1>1, <1>6, Zenon
  <2>2. ASSUME NEW j \in 1 .. Len(msg.payload)
        PROVE  msg.payload[j] = snd.next_seqno + Count(msg.SYN) + j - 1
    <3> HIDE DEF buffer, popped
    <3>1. j \in 1 .. Len(buffer) /\ msg.payload[j] = buffer[j] /\ j \in Nat
      BY <1>1, <1>5, <2>2
    <3>2. msg.payload[j] = popped + j
      BY <3>1, <1>8
    <3>3. Count(msg.SYN) = 1 - Count(snd.syn_sent) /\ Count(snd.syn_sent) \in Nat
      <4>1. Count(msg.SYN) = Count(~snd.syn_sent)
        BY <1>1, Zenon
      <4> QED BY <4>1, <1>5 DEF Count
    <3> DEFINE syn == Count(snd.syn_sent)
               noSyn == Count(msg.SYN)
               next == snd.next_seqno
    <3>4. syn \in Nat /\ noSyn = 1 - syn /\ next = syn + popped
      BY <3>3, <1>7
    <3> HIDE DEF syn, noSyn, next
    <3>5. popped + j = next + noSyn + j - 1
      BY <3>1, <3>4, <1>5
    <3> QED BY <3>2, <3>5 DEF noSyn, next
  <2>3. snd.next_seqno + SequenceLength(msg) = t.next_seqno
    BY <1>9
  <2>4. msg.FIN <=> t.fin_sent
    BY <1>2, <1>9, <1>1 DEF SenderMessage
  <2> QED BY <2>1, <2>2, <2>3, <2>4, <1>3 DEF Placed
<1>13. ASSUME NEW i \in 1 .. Len(t.outstanding) PROVE Placed(t, t.outstanding[i])
  <2>1. i \in 1..n \/ i = n + 1
    BY <1>3, <1>5
  <2> QED BY <2>1, <1>3, <1>11, <1>12
<1> QED BY <1>10, <1>13 DEF Carries, t, msg

\* Something in flight brings the sender back, or all has been sent.
Finished(snd) ==
  \/ snd.flight > 0
  \/ /\ snd.syn_sent /\ snd.input.buffer = <<>>
     /\ snd.input.closed => snd.fin_sent

\* What was transmitted is outstanding.
Queued(snd, out) ==
  \A i \in 1 .. Len(out) : \E j \in 1 .. Len(snd.outstanding) : out[i] = snd.outstanding[j]

\* The loop states of a push that starts with s.
Reached(s) ==
  {p \in GoodPushState :
     /\ p.snd.ackno = s.ackno /\ EffectiveWindow(p.snd) = EffectiveWindow(s)
     /\ p.snd.next_seqno = s.next_seqno \/ p.snd.flight <= EffectiveWindow(s)
     /\ Carries(s) => Carries(p.snd)
     /\ SameClock(s, p.snd)
     /\ SameOwner(s, p.snd) /\ p.snd.next_seqno >= s.next_seqno
     /\ Queued(p.snd, p.out)
     /\ p.done => Finished(p.snd)}

(* With nothing in flight a full payload fits into the congestion window, so *)
(* silly window avoidance holds nothing back.                                *)
LEMMA SillyOnlyInFlight ==
  ASSUME NEW snd \in Sender, Good(snd), SillyWindow(snd), EffectiveWindow(snd) > snd.flight
  PROVE  snd.flight > 0
<1>1. /\ snd.cwnd \in Nat /\ snd.window_size \in Nat /\ snd.flight \in Nat
      /\ Len(snd.input.buffer) \in Nat
  BY WindowAssumption DEF Sender, Stream
<1> SUFFICES ASSUME snd.flight = 0 PROVE FALSE
  BY <1>1
<1>2. snd.cwnd >= MSS /\ snd.window_size > 0 /\ snd.cwnd < snd.window_size
  BY DEF Good, Window, SillyWindow
<1>3. snd.syn_sent
  BY SynIsNotHeldBack
<1>4. EffectiveWindow(snd) = snd.cwnd
  BY <1>1, <1>2 DEF EffectiveWindow, Least
<1>5. AvailableWindow(snd) = snd.cwnd
  BY <1>1, <1>3, <1>4 DEF AvailableWindow, Count
<1>6. PayloadLen(snd) = MAX_PAYLOAD_SIZE \/ PayloadLen(snd) = Len(snd.input.buffer)
  BY <1>1, <1>2, <1>5, SenderAssumption DEF PayloadLen, Least, MSS
<1> QED BY <1>1, <1>6, SenderAssumption DEF SillyWindow

(* A pass leaves the loop, or puts more in flight.                           *)
LEMMA PassKeepsReached ==
  ASSUME NEW s \in Sender, NEW p \in Reached(s)
  PROVE  /\ PushPass(p) \in Reached(s)
         /\ PushPass(p).done \/ (PushPass(p).snd.flight > p.snd.flight /\ ~p.done)
<1> DEFINE snd == p.snd
           msg == NextSegment(snd)
           q == PushPass(p)
<1>1. /\ p \in GoodPushState /\ p \in PushState /\ snd \in Sender /\ Good(snd)
      /\ p.done \in BOOLEAN
  BY DEF Reached, GoodPushState, PushState
<1>2. /\ snd.flight \in Nat /\ EffectiveWindow(snd) \in Nat /\ EffectiveWindow(snd) > 0
  BY <1>1, EffectiveWindowType DEF Sender
<1>3. q \in GoodPushState
  BY <1>1, PassKeepsGood
<1>4. CASE q.snd = snd /\ q.out = p.out /\ q.done /\ Finished(snd)
  BY <1>3, <1>4 DEF Reached
<1>5. CASE p.done
  <2>1. q = p
    BY <1>5 DEF PushPass
  <2> QED BY <2>1, <1>5
<1>6. CASE ~p.done /\ EffectiveWindow(snd) <= snd.flight
  <2>1. q = [p EXCEPT !.done = TRUE]
    BY <1>6 DEF PushPass
  <2>2. q.snd = snd /\ q.out = p.out /\ q.done
    BY <2>1, <1>1 DEF PushState
  <2>3. snd.flight > 0
    BY <1>2, <1>6
  <2> QED BY <2>2, <2>3, <1>4 DEF Finished
<1>7. CASE ~p.done /\ EffectiveWindow(snd) > snd.flight /\ SillyWindow(snd)
  <2>1. snd.syn_sent /\ snd.flight > 0
    BY <1>1, <1>7, SynIsNotHeldBack, SillyOnlyInFlight
  <2>2. [snd EXCEPT !.syn_sent = TRUE] = snd
    BY <2>1, <1>1 DEF Sender
  <2>3. q = [p EXCEPT !.snd = [snd EXCEPT !.syn_sent = TRUE], !.done = TRUE]
    BY <1>2, <1>7 DEF PushPass
  <2>4. q.snd = snd /\ q.out = p.out /\ q.done
    BY <2>2, <2>3, <1>1 DEF PushState
  <2> QED BY <2>1, <2>4, <1>4 DEF Finished
<1>8. CASE /\ ~p.done /\ EffectiveWindow(snd) > snd.flight /\ ~SillyWindow(snd)
           /\ SequenceLength(msg) = 0
  <2>1. q = [p EXCEPT !.done = TRUE]
    BY <1>2, <1>8 DEF PushPass
  <2>2. q.snd = snd /\ q.out = p.out /\ q.done
    BY <2>1, <1>1 DEF PushState
  <2>3. snd.syn_sent /\ snd.input.buffer = <<>> /\ (snd.input.closed => snd.fin_sent)
    BY <1>1, <1>8, NothingToSend
  <2> QED BY <2>2, <2>3, <1>4 DEF Finished
<1>9. CASE /\ ~p.done /\ EffectiveWindow(snd) > snd.flight /\ ~SillyWindow(snd)
           /\ SequenceLength(msg) # 0
  <2> DEFINE t == Sent(snd, msg)
  <2>1. q = [snd |-> t, out |-> Append(p.out, msg), done |-> msg.FIN]
    BY <1>2, <1>9 DEF PushPass
  <2>2. msg \in SenderMessage /\ snd.flight + SequenceLength(msg) <= EffectiveWindow(snd)
    BY <1>1, <1>9, NextSegmentFields
  <2>3. SequenceLength(msg) \in Nat /\ SequenceLength(msg) > 0
    BY <2>2, <1>9, SequenceLengthType
  <2>4. Carries(snd) => Carries(t)
    BY <1>1, <1>9, SentKeepsCarries
  <2> HIDE DEF msg
  <2>5. /\ t.flight = snd.flight + SequenceLength(msg) /\ t.ackno = snd.ackno
        /\ t.window_size = snd.window_size /\ t.cwnd = snd.cwnd
    BY <2>2, <1>1, SentFields
  <2>11. SameClock(snd, t) /\ SameOwner(snd, t)
    <3>1. /\ t.current_RTO = snd.current_RTO /\ t.retransmissions = snd.retransmissions
          /\ t.input = PopBytes(snd.input, Len(msg.payload)) /\ t.isn = snd.isn
      BY <2>2, <1>1, SentFields
    <3> DEFINE in == PopBytes(snd.input, Len(msg.payload))
    <3>2. snd.input \in Stream
      BY <1>1 DEF Sender
    <3>3. /\ in.error = snd.input.error /\ in.capacity = snd.input.capacity
          /\ in.total_pushed = snd.input.total_pushed /\ in.closed = snd.input.closed
      BY <3>2 DEF PopBytes, Stream
    <3> HIDE DEF t, in
    <3> QED BY <3>1, <3>3 DEF SameClock, SameOwner, HasError, in
  <2>13. t.outstanding = Append(snd.outstanding, msg)
         /\ t.next_seqno = snd.next_seqno + SequenceLength(msg)
    BY <2>2, <1>1, SentFields
  <2> HIDE DEF t, q
  <2>6. t.flight > snd.flight /\ t.flight > 0 /\ t.flight <= EffectiveWindow(snd)
    <3> DEFINE len == SequenceLength(msg)
    <3>1. len \in Nat /\ len > 0 /\ t.flight = snd.flight + len
      BY <2>3, <2>5
    <3>2. t.flight <= EffectiveWindow(snd)
      BY <2>2, <2>5
    <3> HIDE DEF len
    <3> QED BY <3>1, <3>2, <1>2
  <2>7. EffectiveWindow(t) = EffectiveWindow(snd)
    BY <2>5 DEF EffectiveWindow
  <2>8. q.snd = t /\ Finished(t)
    BY <2>1, <2>6 DEF Finished
  <2>9. /\ snd.ackno = s.ackno /\ EffectiveWindow(snd) = EffectiveWindow(s)
        /\ Carries(s) => Carries(snd)
        /\ SameClock(s, snd) /\ SameOwner(s, snd)
        /\ snd.next_seqno >= s.next_seqno /\ Queued(snd, p.out)
    BY DEF Reached
  <2>12. SameClock(s, t) /\ SameOwner(s, t)
    BY <2>9, <2>11 DEF SameClock, SameOwner
  <2>14. t.next_seqno >= s.next_seqno
    <3> DEFINE len == SequenceLength(msg)
    <3>1. /\ len \in Nat /\ snd.next_seqno \in Nat /\ s.next_seqno \in Nat
          /\ t.next_seqno = snd.next_seqno + len
      BY <1>1, <2>3, <2>13 DEF Sender
    <3> HIDE DEF len, snd
    <3> QED BY <2>9, <3>1
  <2>15. Queued(t, q.out)
    <3>1. q.out = Append(p.out, msg) /\ p.out \in Seq(SenderMessage)
          /\ snd.outstanding \in Seq(SenderMessage)
      BY <1>1, <2>1 DEF PushState, Sender
    <3> SUFFICES ASSUME NEW i \in 1 .. Len(q.out)
                 PROVE  \E j \in 1 .. Len(t.outstanding) : q.out[i] = t.outstanding[j]
      BY DEF Queued
    <3>2. CASE i <= Len(p.out)
      <4>1. i \in 1 .. Len(p.out) /\ q.out[i] = p.out[i]
        BY <2>2, <3>1, <3>2
      <4>2. PICK j \in 1 .. Len(snd.outstanding) : p.out[i] = snd.outstanding[j]
        BY <2>9, <4>1 DEF Queued
      <4>3. j \in 1 .. Len(t.outstanding) /\ t.outstanding[j] = snd.outstanding[j]
        BY <2>2, <2>13, <3>1, <4>2
      <4> QED BY <4>1, <4>2, <4>3
    <3>3. CASE ~(i <= Len(p.out))
      <4>1. q.out[i] = msg
        BY <2>2, <3>1, <3>3
      <4>2. Len(t.outstanding) \in 1 .. Len(t.outstanding)
            /\ t.outstanding[Len(t.outstanding)] = msg
        BY <2>2, <2>13, <3>1
      <4> QED BY <4>1, <4>2
    <3> QED BY <3>2, <3>3
  <2>10. q \in Reached(s)
    BY <2>12, <2>14, <2>15, <2>4, <2>5, <2>6, <2>7, <2>8, <2>9, <1>3 DEF Reached
  <2> QED BY <2>6, <2>8, <2>10, <1>9 DEF q
<1> QED BY <1>1, <1>2, <1>5, <1>6, <1>7, <1>8, <1>9

(* Each pass puts more in flight, and no more than MAX_WINDOW can be, so the *)
(* loop has been left after the passes that Push allows for.                 *)
LEMMA PushLeavesLoop ==
  ASSUME NEW snd \in Sender, Good(snd)
  PROVE  Push(snd) \in Reached(snd) /\ Push(snd).done
<1> DEFINE first == IF snd.fast_retransmit /\ snd.outstanding # <<>>
                    THEN <<Head(snd.outstanding)>> ELSE <<>>
           s == [snd EXCEPT !.fast_retransmit = FALSE]
           start == [snd |-> s, out |-> first, done |-> FALSE]
           Step == [p \in PushState |-> PushPass(p)]
           After(n) == Iterate(Step, start, n)
           States == Reached(snd)
           G == {n \in Nat : After(n).done \/ After(n).snd.flight >= n}
<1>1. /\ s \in Sender /\ SamePlace(snd, s) /\ s.outstanding = snd.outstanding
      /\ s.flight = snd.flight /\ s.ackno = snd.ackno
      /\ s.window_size = snd.window_size /\ s.cwnd = snd.cwnd /\ s.ssthresh = snd.ssthresh
      /\ s.timer_running = snd.timer_running /\ s.time_elapsed = snd.time_elapsed
      /\ s.current_RTO = snd.current_RTO /\ s.input = snd.input
      /\ SameClock(snd, s) /\ SameOwner(snd, s)
  BY DEF Sender, SamePlace, SameClock, SameOwner, HasError
<1>2. first \in Seq(SenderMessage)
  <2>1. snd.outstanding \in Seq(SenderMessage)
    BY DEF Sender
  <2> QED BY <2>1
<1> HIDE DEF s, first
<1>3. start \in States
  <2>1. Timer(s) /\ Window(s)
    BY <1>1 DEF Good, Timer, Window, SamePlace
  <2>2. Good(s)
    BY <1>1, <2>1, GoodIsAboutFields DEF SamePlace
  <2>3. start \in GoodPushState
    BY <1>1, <1>2, <2>2 DEF GoodPushState, PushState
  <2>4. EffectiveWindow(s) = EffectiveWindow(snd)
    BY <1>1 DEF EffectiveWindow
  <2>5. Carries(snd) => Carries(s)
    BY <1>1, CarriesCongruence
  <2>6. Queued(s, first)
    <3>1. CASE snd.fast_retransmit /\ snd.outstanding # <<>>
      <4>1. /\ Len(first) = 1 /\ first[1] = snd.outstanding[1]
            /\ 1 \in 1 .. Len(snd.outstanding)
        <5>1. snd.outstanding \in Seq(SenderMessage)
          BY DEF Sender
        <5> QED BY <3>1, <5>1 DEF first
      <4> QED BY <1>1, <4>1 DEF Queued
    <3>2. CASE ~(snd.fast_retransmit /\ snd.outstanding # <<>>)
      <4>1. Len(first) = 0
        BY <3>2 DEF first
      <4> QED BY <4>1 DEF Queued
    <3> QED BY <3>1, <3>2
  <2>7. s.next_seqno >= snd.next_seqno
    BY <1>1 DEF SamePlace, Sender
  <2> QED BY <1>1, <2>3, <2>4, <2>5, <2>6, <2>7 DEF Reached, SamePlace
<1>4. ASSUME NEW p \in States PROVE Step[p] = PushPass(p) /\ Step[p] \in States
  <2>1. p \in PushState
    BY DEF Reached, GoodPushState
  <2> QED BY <2>1, PassKeepsReached
<1> HIDE DEF Step, States, start
<1>5. /\ After(0) = start
      /\ \A n \in Nat : After(n + 1) = Step[After(n)]
      /\ \A n \in Nat : After(n) \in States
  BY <1>3, <1>4, IterateDef
<1> HIDE DEF After
<1>6. \A n \in Nat : After(n).snd.flight \in Nat /\ After(n).snd.flight <= MAX_WINDOW
  <2> SUFFICES ASSUME NEW n \in Nat
               PROVE  After(n).snd.flight \in Nat /\ After(n).snd.flight <= MAX_WINDOW
    OBVIOUS
  <2>1. After(n).snd \in Sender /\ Good(After(n).snd)
    BY <1>5 DEF States, Reached, GoodPushState, PushState
  <2> QED BY <2>1 DEF Sender, Good, Layout
<1>7. 0 \in G
  BY <1>5, <1>6
<1>8. ASSUME NEW n \in Nat, n \in G PROVE n + 1 \in G
  <2> DEFINE before == After(n).snd.flight
             after == After(n + 1).snd.flight
  <2>1. After(n + 1) = PushPass(After(n)) /\ After(n) \in Reached(snd)
    BY <1>4, <1>5 DEF States
  <2>2. After(n + 1).done \/ (after > before /\ ~After(n).done)
    BY <2>1, PassKeepsReached
  <2>3. After(n + 1).done \/ (after > before /\ before >= n)
    BY <2>2, <1>8
  <2>4. before \in Nat /\ after \in Nat
    BY <1>6
  <2> HIDE DEF before, after
  <2>5. after > before /\ before >= n => after >= n + 1
    BY <2>4
  <2> QED BY <2>3, <2>5 DEF after
<1>9. MAX_WINDOW + 1 \in G /\ MAX_WINDOW + 1 \in Nat
  <2>1. MAX_WINDOW + 1 \in Nat
    BY WindowAssumption
  <2> HIDE DEF G
  <2> QED BY <2>1, <1>7, <1>8, NatSetInduction
<1>10. After(MAX_WINDOW + 1).done
  <2> DEFINE last == After(MAX_WINDOW + 1).snd.flight
  <2>1. last \in Nat /\ last <= MAX_WINDOW /\ MAX_WINDOW \in Nat
    BY <1>6, <1>9, WindowAssumption
  <2>2. After(MAX_WINDOW + 1).done \/ last >= MAX_WINDOW + 1
    BY <1>9
  <2> HIDE DEF last
  <2> QED BY <2>1, <2>2
<1>11. Push(snd) = After(MAX_WINDOW + 1)
  BY DEF Push, After, Step, start, s, first
<1> QED BY <1>5, <1>9, <1>10, <1>11 DEF States
-----------------------------------------------------------------------------
(* The calls of the application.                                             *)

LEMMA WrittenKeepsCarries ==
  ASSUME NEW snd \in Sender, Good(snd), Carries(snd),
         NEW n \in Nat, n <= AvailableCapacity(snd.input)
  PROVE  Carries(Written(snd, n))
<1> DEFINE in == snd.input
           data == [i \in 1..n |-> in.total_pushed + i]
           out  == PushBytes(in, data)
           t    == Written(snd, n)
<1>2. /\ snd \in Sender /\ in \in Stream /\ in.total_pushed \in Nat
      /\ in.total_poped \in Nat /\ in.buffer \in Seq(Byte)
  BY DEF Good, Sender, Stream
<1>3. n \in Nat /\ n <= AvailableCapacity(in)
  OBVIOUS
<1>4. Len(data) = n /\ data \in Seq(Byte) /\ \A i \in 1..n : data[i] = in.total_pushed + i
  <2>1. \A i \in 1..n : in.total_pushed + i \in Byte
    BY <1>2, <1>3 DEF Byte
  <2>2. data \in [1..n -> Byte]
    BY <2>1
  <2>3. \A i \in 1..n : data[i] = in.total_pushed + i
    OBVIOUS
  <2> HIDE DEF data
  <2> QED BY <2>2, <2>3, <1>3
<1> HIDE DEF data
<1>5. out.buffer = in.buffer \o data /\ out.total_poped = in.total_poped
  BY <1>2, <1>3, <1>4 DEF PushBytes, Stream
<1> HIDE DEF out
<1>6. /\ t.input = out /\ t.outstanding = snd.outstanding
      /\ t.isn = snd.isn /\ t.next_seqno = snd.next_seqno
      /\ t.fin_sent = snd.fin_sent
  BY <1>2 DEF Written, Sender, out, data
<1> HIDE DEF t
<1>7. Numbered(out)
  <2> SUFFICES ASSUME NEW k \in 1 .. Len(out.buffer)
               PROVE  out.buffer[k] = out.total_poped + k
    BY DEF Numbered
  <2> DEFINE held == Len(in.buffer)
             before == in.buffer
  <2>1. held \in Nat /\ in.total_pushed = in.total_poped + held
    BY <1>2 DEF Good, Position
  <2>2. /\ Len(before \o data) = held + n
        /\ \A i \in 1 .. held : (before \o data)[i] = before[i]
        /\ \A i \in held + 1 .. held + n : (before \o data)[i] = data[i - held]
    <3>1. before \in Seq(Byte) /\ held = Len(before)
      BY <1>2
    <3> HIDE DEF before, held
    <3> QED BY <3>1, <1>3, <1>4
  <2>3. k \in 1 .. held + n
    BY <2>2, <1>5
  <2>4. CASE k <= held
    <3>1. k \in 1..held /\ out.buffer[k] = in.buffer[k]
      BY <2>1, <2>2, <2>3, <2>4, <1>3, <1>5
    <3> QED BY <3>1, <1>5 DEF Carries, Numbered
  <2>5. CASE k > held
    <3>1. k - held \in 1..n /\ k \in held + 1 .. held + n
      BY <2>1, <2>3, <2>5, <1>3
    <3>2. out.buffer[k] = (in.total_poped + held) + (k - held)
      BY <3>1, <2>1, <2>2, <1>4, <1>5
    <3> HIDE DEF held
    <3> QED BY <3>1, <3>2, <2>1, <2>3, <1>2, <1>3, <1>5
  <2> QED BY <2>1, <2>3, <2>4, <2>5, <1>3
<1>8. \A i \in 1 .. Len(t.outstanding) : Placed(t, t.outstanding[i])
  BY <1>6 DEF Carries, Placed
<1> QED BY <1>6, <1>7, <1>8 DEF Carries, t

LEMMA CloseKeepsCarries ==
  ASSUME NEW snd \in Sender, Carries(snd)
  PROVE  Carries([snd EXCEPT !.input = Close(@)])
<1> DEFINE t == [snd EXCEPT !.input = Close(@)]
<1>1. /\ Close(snd.input).buffer = snd.input.buffer
      /\ Close(snd.input).total_poped = snd.input.total_poped
  BY DEF Close, Sender, Stream
<1>2. SamePlace(snd, t) /\ t.outstanding = snd.outstanding
  BY <1>1 DEF SamePlace, Sender
<1> QED BY <1>2, CarriesCongruence

(* A sender that was never called.                                           *)
LEMMA NewSenderGood ==
  ASSUME NEW capacity \in Nat, NEW isn \in Wrap32
  PROVE  LET snd == NewSender(capacity, isn)
         IN  Good(snd) /\ Carries(snd)
<1> DEFINE s == NewSender(capacity, isn)
           pos == [i \in 1..1 |-> 0]
<1>1. NewStream(capacity) \in Stream
  BY DEF NewStream, Stream
<1>2. s \in Sender
  BY <1>1, SenderAssumption, WindowAssumption DEF NewSender, Sender
<1>3. Timer(s)
  BY SenderAssumption, WindowAssumption DEF NewSender, Timer
<1>4. Position(s)
  BY DEF NewSender, NewStream, Position, Count
<1>5. Window(s)
  BY SenderAssumption, WindowAssumption DEF NewSender, Window, MSS
<1>6. Layout(s, pos) /\ Settled(s, pos)
  BY SenderAssumption, WindowAssumption DEF NewSender, Layout, Settled
<1>7. Carries(s)
  BY DEF NewSender, NewStream, Carries, Numbered
<1> QED BY <1>2, <1>3, <1>4, <1>5, <1>6, <1>7 DEF Good
-----------------------------------------------------------------------------
(* Sets of intervals.                                                        *)

Within(intervals, low, high) ==
  \A i \in intervals : low <= i.first /\ i.first < i.end /\ i.end <= high

Disjoint(intervals) ==
  \A i, j \in intervals : i # j => i.end < j.first \/ j.end < i.first

\* What the map may hold between calls and within them.
Tidy(intervals, low, high) ==
  /\ intervals \subseteq Interval /\ IsFiniteSet(intervals)
  /\ Within(intervals, low, high) /\ Disjoint(intervals)

(* A set of natural numbers has a least one.                                 *)
LEMMA LeastNumber ==
  ASSUME NEW S \in SUBSET Nat, S # {}
  PROVE  \E n \in S : \A m \in S : n <= m
<1> DEFINE R == OpToRel(<, Nat)
<1>1. IsWellFoundedOn(R, Nat)
  BY NatLessThanWellFounded
<1>2. \A n, m \in Nat : <<n, m>> \in R <=> n < m
  BY DEF OpToRel
<1> HIDE DEF R
<1>3. PICK n \in S : \A m \in S : ~(<<m, n>> \in R)
  BY <1>1, WFMin
<1>4. n \in Nat /\ \A m \in S : m \in Nat /\ ~(m < n)
  BY <1>2, <1>3
<1> QED BY <1>4

(* What begin() of the map and the step back from lower_bound() find.        *)
LEMMA LeftmostFound ==
  ASSUME NEW S \in SUBSET Interval, S # {}
  PROVE  Leftmost(S) \in S /\ \A i \in S : Leftmost(S).first <= i.first
<1> DEFINE Firsts == {i.first : i \in S}
<1>1. Firsts \in SUBSET Nat /\ Firsts # {}
  BY DEF Interval
<1>2. PICK n \in Firsts : \A m \in Firsts : n <= m
  <2> HIDE DEF Firsts
  <2> QED BY <1>1, LeastNumber
<1>3. \E i \in S : \A j \in S : i.first <= j.first
  BY <1>2
<1> QED BY <1>3 DEF Leftmost

LEMMA RightmostFound ==
  ASSUME NEW S \in SUBSET Interval, S # {}, NEW bound \in Nat,
         \A i \in S : i.first <= bound
  PROVE  Rightmost(S) \in S /\ \A i \in S : i.first <= Rightmost(S).first
<1> DEFINE Gaps == {bound - i.first : i \in S}
<1>0. \A i \in S : i.first \in Nat
  BY DEF Interval
<1>1. Gaps \in SUBSET Nat /\ Gaps # {}
  BY <1>0
<1>2. PICK n \in Gaps : \A m \in Gaps : n <= m
  <2> HIDE DEF Gaps
  <2> QED BY <1>1, LeastNumber
<1>3. PICK i \in S : n = bound - i.first
  BY <1>2
<1>4. \A j \in S : j.first <= i.first
  <2> SUFFICES ASSUME NEW j \in S PROVE j.first <= i.first
    OBVIOUS
  <2>1. bound - i.first <= bound - j.first
    BY <1>2, <1>3
  <2> QED BY <2>1, <1>0
<1>5. \E k \in S : \A j \in S : k.first >= j.first
  BY <1>0, <1>4
<1>6. Rightmost(S) \in S /\ \A j \in S : Rightmost(S).first >= j.first
  BY <1>5 DEF Rightmost
<1> QED BY <1>0, <1>6

(* A map without one of its intervals.                                       *)
LEMMA TidyWithout ==
  ASSUME NEW S, NEW low \in Nat, NEW high \in Nat, Tidy(S, low, high), NEW i \in S
  PROVE  /\ Tidy(S \ {i}, low, high)
         /\ Cardinality(S \ {i}) = Cardinality(S) - 1 /\ Cardinality(S) \in Nat
<1>1. IsFiniteSet(S)
  BY DEF Tidy
<1>2. /\ IsFiniteSet(S \ {i})
      /\ Cardinality(S \ {i}) = Cardinality(S) - 1 /\ Cardinality(S) \in Nat
  BY <1>1, FS_RemoveElement, FS_CardinalityType
<1> QED BY <1>2 DEF Tidy, Within, Disjoint
-----------------------------------------------------------------------------
(* add_interval                                                              *)

(* Merging begins so that what lies before ends before it.                   *)
LEMMA MergeFromSafe ==
  ASSUME NEW r, NEW low \in Nat, NEW high \in Nat, Tidy(r.filled, low, high),
         NEW start \in Nat, low <= start
  PROVE  LET from == MergeFrom(r, start)
         IN  /\ from \in Nat /\ low <= from /\ from <= start
             /\ \A i \in r.filled : i.first < from => i.end < from
<1> DEFINE before == {i \in r.filled : i.first < start}
           last == Rightmost(before)
           from == MergeFrom(r, start)
<1>1. /\ r.filled \subseteq Interval /\ before \in SUBSET Interval
      /\ Within(r.filled, low, high) /\ Disjoint(r.filled)
      /\ \A i \in r.filled : i.first \in Nat /\ i.end \in Nat
  BY DEF Tidy, Interval
<1>2. before # {} => last \in before /\ \A i \in before : i.first <= last.first
  <2>1. \A i \in before : i.first <= start
    BY <1>1
  <2> HIDE DEF before
  <2> QED BY <1>1, <2>1, RightmostFound DEF last
<1>3. CASE before # {} /\ last.end >= start
  <2>1. from = last.first
    BY <1>3 DEF MergeFrom
  <2>2. last \in r.filled /\ last.first < start /\ low <= last.first
    BY <1>1, <1>2, <1>3 DEF Within
  <2> HIDE DEF last, from
  <2>3. \A i \in r.filled : i.first < last.first => i.end < last.first
    BY <1>1, <2>2 DEF Within, Disjoint
  <2>4. last.first \in Nat /\ last.first <= start
    BY <1>1, <2>2
  <2> QED BY <2>1, <2>2, <2>3, <2>4 DEF from
<1>4. CASE ~(before # {} /\ last.end >= start)
  <2>1. from = start
    BY <1>4 DEF MergeFrom
  <2>2. ASSUME NEW i \in r.filled, i.first < start PROVE i.end < start
    <3>1. before # {} /\ i.first <= last.first /\ last \in r.filled /\ last.end < start
      BY <1>1, <1>2, <1>4, <2>2
    <3> HIDE DEF last
    <3> QED BY <1>1, <3>1 DEF Within, Disjoint
  <2> QED BY <2>1, <2>2
<1> QED BY <1>3, <1>4

(* A map with fewer intervals.                                               *)
LEMMA TidySubset ==
  ASSUME NEW S, NEW low \in Nat, NEW high \in Nat, Tidy(S, low, high), NEW T \in SUBSET S
  PROVE  Tidy(T, low, high)
<1>1. IsFiniteSet(T)
  BY FS_Subset DEF Tidy
<1> QED BY <1>1 DEF Tidy, Within, Disjoint

\* The states of the merging loop that starts with the map of r.
Merging(r, from, low, high) ==
  {m \in MergeState :
     /\ m.filled \subseteq r.filled /\ m.from = from
     /\ from <= m.start /\ low <= m.start /\ m.start < m.end /\ m.end <= high}

Touching(m) == {i \in m.filled : m.from <= i.first /\ i.first <= m.end}

(* One pass of the loop: nothing touches the grown interval any more, or one *)
(* interval less is in the map.                                              *)
LEMMA MergePassStep ==
  ASSUME NEW r, NEW low \in Nat, NEW high \in Nat, Tidy(r.filled, low, high),
         NEW from \in Nat, low <= from, NEW m \in Merging(r, from, low, high)
  PROVE  /\ MergePass(m) \in Merging(r, from, low, high)
         /\ Touching(m) = {} => MergePass(m) = m
         /\ Touching(m) # {} =>
              Cardinality(MergePass(m).filled) = Cardinality(m.filled) - 1
<1> DEFINE next == Leftmost(Touching(m))
<1>1. /\ m \in MergeState /\ m.filled \subseteq r.filled /\ m.from = from
      /\ from <= m.start /\ low <= m.start /\ m.start < m.end /\ m.end <= high
      /\ m.start \in Nat /\ m.end \in Nat /\ m.pending \in Int
  BY DEF Merging, MergeState
<1>2. CASE Touching(m) = {}
  BY <1>2, <1>1 DEF MergePass, Touching
<1>3. CASE Touching(m) # {}
  <2> DEFINE start == Least(m.start, next.first)
             end == Greatest(m.end, next.end)
             rest == m.filled \ {next}
             pending == m.pending - (next.end - next.first)
  <2>1. MergePass(m) = [m EXCEPT !.filled = rest, !.start = start,
                                 !.end = end, !.pending = pending]
    BY <1>3 DEF MergePass, Touching
  <2>2. Tidy(m.filled, low, high)
    BY <1>1, TidySubset
  <2>3. next \in Touching(m)
    <3>1. Touching(m) \in SUBSET Interval
      BY <2>2 DEF Touching, Tidy
    <3> QED BY <1>3, <3>1, LeftmostFound
  <2>4. /\ next \in m.filled /\ from <= next.first
        /\ next.first \in Nat /\ next.end \in Nat
        /\ low <= next.first /\ next.first < next.end /\ next.end <= high
    BY <1>1, <2>2, <2>3 DEF Touching, Tidy, Within, Interval
  <2>5. Cardinality(rest) = Cardinality(m.filled) - 1
    BY <2>2, <2>4, TidyWithout
  <2> HIDE DEF next
  <2>6. /\ start \in Nat /\ end \in Nat /\ pending \in Int
        /\ from <= start /\ low <= start /\ start < end /\ end <= high
    BY <1>1, <2>4 DEF Least, Greatest
  <2> HIDE DEF start, end, pending
  <2>7. rest \in SUBSET Interval /\ rest \subseteq r.filled
    BY <1>1, <2>2 DEF Tidy
  <2> HIDE DEF rest
  <2>8. MergePass(m) \in MergeState
    BY <1>1, <2>1, <2>6, <2>7 DEF MergeState
  <2>9. /\ MergePass(m).filled = rest /\ MergePass(m).from = from
        /\ MergePass(m).start = start /\ MergePass(m).end = end
    BY <1>1, <2>1 DEF MergeState
  <2> QED BY <1>3, <2>5, <2>6, <2>7, <2>8, <2>9 DEF Merging
<1> QED BY <1>2, <1>3

(* After as many passes as the map has intervals, nothing touches the grown  *)
(* interval.                                                                 *)
LEMMA MergeSettles ==
  ASSUME NEW r, NEW low \in Nat, NEW high \in Nat, Tidy(r.filled, low, high),
         NEW from \in Nat, low <= from, NEW m \in Merging(r, from, low, high),
         m.filled = r.filled
  PROVE  LET last == Iterate([s \in MergeState |-> MergePass(s)], m, Cardinality(r.filled))
         IN  last \in Merging(r, from, low, high) /\ Touching(last) = {}
<1> DEFINE Step == [s \in MergeState |-> MergePass(s)]
           After(n) == Iterate(Step, m, n)
           States == Merging(r, from, low, high)
           size == Cardinality(r.filled)
           G == {n \in Nat : Touching(After(n)) = {} \/ Cardinality(After(n).filled) + n = size}
<1>1. \A s \in States :
        /\ Step[s] = MergePass(s) /\ Step[s] \in States
        /\ Touching(s) = {} => Step[s] = s
        /\ Touching(s) # {} => Cardinality(Step[s].filled) = Cardinality(s.filled) - 1
        /\ Cardinality(s.filled) \in Nat /\ IsFiniteSet(s.filled)
  <2> SUFFICES ASSUME NEW s \in States
               PROVE  /\ Step[s] = MergePass(s) /\ Step[s] \in States
                      /\ Touching(s) = {} => Step[s] = s
                      /\ Touching(s) # {} => Cardinality(Step[s].filled) = Cardinality(s.filled) - 1
                      /\ Cardinality(s.filled) \in Nat /\ IsFiniteSet(s.filled)
    OBVIOUS
  <2>1. s \in MergeState /\ s.filled \subseteq r.filled
    BY DEF Merging
  <2>2. Step[s] = MergePass(s)
    BY <2>1
  <2>3. IsFiniteSet(s.filled)
    BY <2>1, TidySubset DEF Tidy
  <2>4. Cardinality(s.filled) \in Nat
    BY <2>3, FS_CardinalityType
  <2> QED BY <2>2, <2>3, <2>4, MergePassStep
<1>2. size \in Nat
  BY FS_CardinalityType DEF Tidy
<1> HIDE DEF Step, States
<1>3. /\ After(0) = m
      /\ \A n \in Nat : After(n + 1) = Step[After(n)]
      /\ \A n \in Nat : After(n) \in States
  <2>1. m \in States
    BY DEF States
  <2> QED BY <1>1, <2>1, IterateDef
<1> HIDE DEF After, size
<1>4. 0 \in G
  BY <1>2, <1>3 DEF size
<1>5. ASSUME NEW n \in Nat, n \in G PROVE n + 1 \in G
  <2> DEFINE s == After(n)
             t == After(n + 1)
  <2>1. s \in States /\ t = Step[s] /\ n + 1 \in Nat
    BY <1>3
  <2>2. Touching(s) = {} \/ Cardinality(s.filled) + n = size
    BY <1>5
  <2> HIDE DEF s, t
  <2>3. Touching(t) = {} \/ Cardinality(t.filled) + (n + 1) = size
    BY <1>1, <1>2, <2>1, <2>2
  <2> QED BY <2>1, <2>3 DEF t
<1> HIDE DEF G
<1>6. size \in G
  BY <1>2, <1>4, <1>5, NatSetInduction
<1>7. Touching(After(size)) = {}
  <2> DEFINE s == After(size)
  <2>1. s \in States /\ (Touching(s) = {} \/ Cardinality(s.filled) + size = size)
    BY <1>2, <1>3, <1>6 DEF G
  <2> HIDE DEF s
  <2>2. Touching(s) = {} \/ Cardinality(s.filled) = 0
    BY <1>1, <1>2, <2>1
  <2>3. Cardinality(s.filled) = 0 => s.filled = {}
    BY <1>1, <2>1, FS_EmptySet
  <2> QED BY <2>2, <2>3 DEF s, Touching
<1> QED BY <1>2, <1>3, <1>7 DEF After, Step, States, size

\* What differs between two Reassemblers is the map, with its count.
SameButMap(r, s) ==
  /\ s.output = r.output /\ s.first_unassembled = r.first_unassembled
  /\ s.eof_index = r.eof_index /\ s.eof_received = r.eof_received
  /\ s.ring = r.ring /\ s.front_pos = r.front_pos

(* add_interval leaves a map in order, whatever the new interval overlaps.   *)
LEMMA AddIntervalTidy ==
  ASSUME NEW r \in Reassembler, NEW low \in Nat, NEW high \in Nat,
         Tidy(r.filled, low, high),
         NEW start \in Nat, NEW end \in Nat, low <= start, start < end, end <= high
  PROVE  LET a == AddInterval(r, start, end)
         IN  a \in Reassembler /\ Tidy(a.filled, low, high) /\ SameButMap(r, a)
<1> DEFINE from == MergeFrom(r, start)
           first == [filled |-> r.filled, from |-> from, start |-> start, end |-> end,
                     pending |-> r.pending_bytes]
           m == Iterate([s \in MergeState |-> MergePass(s)], first, Cardinality(r.filled))
           new == [first |-> m.start, end |-> m.end]
           a == AddInterval(r, start, end)
<1>1. /\ from \in Nat /\ low <= from /\ from <= start
      /\ \A i \in r.filled : i.first < from => i.end < from
  BY MergeFromSafe
<1>2. r.filled \in SUBSET Interval /\ r.pending_bytes \in Int
  BY DEF Reassembler
<1>3. a = [r EXCEPT !.filled        = m.filled \cup {new},
                    !.pending_bytes = m.pending + (m.end - m.start)]
  BY DEF AddInterval
<1> HIDE DEF from
<1>4. first \in Merging(r, from, low, high)
  BY <1>1, <1>2 DEF Merging, MergeState
<1>5. m \in Merging(r, from, low, high) /\ Touching(m) = {}
  <2> HIDE DEF first
  <2>1. first.filled = r.filled
    BY DEF first
  <2> QED BY <1>1, <1>4, <2>1, MergeSettles
<1> HIDE DEF m, first, a
<1>6. /\ m.filled \subseteq r.filled /\ m.from = from
      /\ from <= m.start /\ low <= m.start /\ m.start < m.end /\ m.end <= high
      /\ m.start \in Nat /\ m.end \in Nat /\ m.pending \in Int
  BY <1>5 DEF Merging, MergeState
<1>7. Tidy(m.filled, low, high)
  BY <1>6, TidySubset
<1>8. \A i \in m.filled : /\ i.first \in Nat /\ i.end \in Nat
                          /\ i.end < m.start \/ m.end < i.first
  <2> SUFFICES ASSUME NEW i \in m.filled
               PROVE  /\ i.first \in Nat /\ i.end \in Nat
                      /\ i.end < m.start \/ m.end < i.first
    OBVIOUS
  <2>1. i.first \in Nat /\ i.end \in Nat
    BY <1>7 DEF Tidy, Interval
  <2>2. ~(from <= i.first /\ i.first <= m.end)
    BY <1>5, <1>6 DEF Touching
  <2>3. i.first < from => i.end < from
    BY <1>1, <1>6
  <2> QED BY <1>1, <1>6, <2>1, <2>2, <2>3
<1>9. new \in Interval /\ new.first = m.start /\ new.end = m.end
  BY <1>6 DEF Interval
<1> HIDE DEF new
<1>10. Tidy(m.filled \cup {new}, low, high)
  <2>1. IsFiniteSet(m.filled \cup {new})
    BY <1>7, FS_AddElement DEF Tidy
  <2>2. m.filled \cup {new} \subseteq Interval
    BY <1>7, <1>9 DEF Tidy
  <2>3. Within(m.filled \cup {new}, low, high)
    BY <1>6, <1>7, <1>9 DEF Tidy, Within
  <2>4. Disjoint(m.filled \cup {new})
    BY <1>7, <1>8, <1>9 DEF Tidy, Disjoint
  <2> QED BY <2>1, <2>2, <2>3, <2>4 DEF Tidy
<1>11. m.pending + (m.end - m.start) \in Int
  BY <1>6
<1>12. m.filled \cup {new} \in SUBSET Interval
  BY <1>10 DEF Tidy
<1>13. a \in Reassembler /\ a.filled = m.filled \cup {new} /\ SameButMap(r, a)
  BY <1>3, <1>11, <1>12 DEF Reassembler, SameButMap
<1> QED BY <1>10, <1>13 DEF a
-----------------------------------------------------------------------------
(* Streams.                                                                  *)

LEMMA PopBytesKeeps ==
  ASSUME NEW s \in Stream, NEW len \in Nat
  PROVE  /\ PopBytes(s, len) \in Stream
         /\ PopBytes(s, len).total_poped = s.total_poped + len
         /\ PopBytes(s, len).total_pushed = s.total_pushed
         /\ PopBytes(s, len).capacity = s.capacity
         /\ PopBytes(s, len).closed = s.closed /\ PopBytes(s, len).error = s.error
<1>1. s.buffer \in Seq(Byte) /\ Len(s.buffer) \in Nat /\ s.total_poped \in Nat
  BY DEF Stream
<1>2. SubSeq(s.buffer, len + 1, Len(s.buffer)) \in Seq(Byte) /\ s.total_poped + len \in Nat
  BY <1>1
<1> QED BY <1>2 DEF PopBytes, Stream

LEMMA PushBytesKeeps ==
  ASSUME NEW s \in Stream, NEW data \in Seq(Byte), Len(data) <= AvailableCapacity(s)
  PROVE  /\ PushBytes(s, data) \in Stream
         /\ PushBytes(s, data).total_pushed = s.total_pushed + Len(data)
         /\ PushBytes(s, data).total_poped = s.total_poped
         /\ PushBytes(s, data).capacity = s.capacity
         /\ PushBytes(s, data).closed = s.closed /\ PushBytes(s, data).error = s.error
<1>1. s.buffer \in Seq(Byte) /\ s.total_pushed \in Nat /\ Len(data) \in Nat
  BY DEF Stream
<1>2. s.buffer \o data \in Seq(Byte) /\ s.total_pushed + Len(data) \in Nat
  BY <1>1
<1>3. PushBytes(s, data) = [s EXCEPT !.buffer = s.buffer \o data,
                                     !.total_pushed = s.total_pushed + Len(data)]
  BY DEF PushBytes
<1> QED BY <1>2, <1>3 DEF Stream
-----------------------------------------------------------------------------
(* flush_contiguous                                                          *)

\* The slots of the ring are its elements.
LEMMA SlotInRing ==
  ASSUME NEW r \in Reassembler, r.ring # <<>>, NEW index \in Int
  PROVE  r.ring[Slot(r, index) + 1] \in Byte
<1>1. /\ r.ring \in Seq(Byte) /\ Len(r.ring) \in Nat \ {0}
      /\ r.front_pos \in Nat /\ r.first_unassembled \in Nat
  BY DEF Reassembler
<1>2. r.front_pos + (index - r.first_unassembled) \in Int
  BY <1>1
<1>3. \A n \in Int, d \in Nat \ {0} : n % d \in 0 .. d - 1
  OBVIOUS
<1>4. Slot(r, index) \in 0 .. Len(r.ring) - 1
  BY <1>1, <1>2, <1>3 DEF Slot
<1>5. Slot(r, index) + 1 \in 1 .. Len(r.ring)
  BY <1>1, <1>4
<1> QED BY <1>1, <1>5

\* What the calls of a Reassembler keep of its output: a stream of the same
\* capacity, with nothing popped, nothing taken back, and not reopened, and no
\* error that was not there.
Onward(out, next) ==
  /\ next.capacity = out.capacity /\ next.total_poped = out.total_poped
  /\ next.error = out.error
  /\ next.total_pushed >= out.total_pushed
  /\ out.closed => next.closed

\* The Reassemblers that the operations make from one with the output out: what
\* is in the map begins at the end of the output, or gap numbers behind it, and
\* there is a map only where there is a ring.
Ordered(out, gap) ==
  {r \in Reassembler :
     /\ r.ring = <<>> => r.filled = {}
     /\ r.first_unassembled = r.output.total_pushed
     /\ Onward(out, r.output)
     /\ r.output.total_pushed <= out.total_poped + out.capacity
     /\ Tidy(r.filled, r.output.total_pushed + gap, out.total_poped + out.capacity)}

(* After one pass there is a gap before what is left in the map: it was      *)
(* there, or the interval that began at the end of the output is written,    *)
(* and none of the others touches that one.                                  *)
LEMMA FlushPassStep ==
  ASSUME NEW out \in Stream, NEW r \in Ordered(out, 0)
  PROVE  FlushPass(r) \in Ordered(out, 1)
<1> DEFINE head == Leftmost(r.filled)
           len  == head.end - head.first
           high == out.total_poped + out.capacity
           pushed == r.output.total_pushed
<1>1. /\ r \in Reassembler /\ r.first_unassembled = pushed
      /\ Onward(out, r.output) /\ pushed <= high
      /\ Tidy(r.filled, pushed, high)
      /\ r.output \in Stream /\ pushed \in Nat /\ high \in Nat
      /\ out.total_pushed \in Nat /\ out.total_poped \in Nat /\ out.capacity \in Nat
      /\ r.front_pos \in Nat /\ r.pending_bytes \in Int
  BY DEF Ordered, Reassembler, Stream
<1>2. \A i \in r.filled : /\ i.first \in Nat /\ i.end \in Nat
                          /\ pushed <= i.first /\ i.first < i.end /\ i.end <= high
  <2> HIDE DEF pushed, high
  <2> QED BY <1>1 DEF Tidy, Within, Interval
<1>3. r.filled # {} => head \in r.filled /\ \A i \in r.filled : head.first <= i.first
  <2>1. r.filled \in SUBSET Interval
    BY <1>1 DEF Tidy
  <2> QED BY <2>1, LeftmostFound
<1>4. CASE r.filled = {} \/ head.first # r.first_unassembled
  <2>1. FlushPass(r) = r
    BY <1>4 DEF FlushPass
  <2>2. \A i \in r.filled : pushed + 1 <= i.first
    <3> HIDE DEF head, pushed, high
    <3> QED BY <1>1, <1>2, <1>3, <1>4
  <2>3. Tidy(r.filled, pushed + 1, high)
    <3> HIDE DEF pushed, high
    <3> QED BY <1>1, <2>2 DEF Tidy, Within
  <2> QED BY <1>1, <2>1, <2>3 DEF Ordered
<1>5. CASE r.filled # {} /\ head.first = r.first_unassembled
  <2> DEFINE data == [i \in 1..len |-> r.ring[Slot(r, head.first + i - 1) + 1]]
             output == PushBytes(r.output, data)
             front == (r.front_pos + len) % Len(r.ring)
             rest == r.filled \ {head}
             t == FlushPass(r)
  <2>0. r.ring # <<>> /\ r.ring \in Seq(Byte) /\ Len(r.ring) \in Nat \ {0}
    BY <1>5 DEF Ordered, Reassembler
  <2>1. /\ head \in r.filled /\ head.first = pushed
        /\ head.first \in Nat /\ head.end \in Nat /\ head.first < head.end /\ head.end <= high
        /\ len \in Nat /\ pushed + len = head.end
    <3>1. head \in r.filled /\ head.first = pushed
      BY <1>1, <1>3, <1>5
    <3> HIDE DEF head, pushed, high
    <3> QED BY <1>1, <1>2, <3>1
  <2>2. t = [r EXCEPT !.output            = output,
                      !.pending_bytes     = r.pending_bytes - len,
                      !.first_unassembled = head.end,
                      !.front_pos         = front,
                      !.filled            = rest]
    BY <1>5 DEF FlushPass
  <2>3. data \in Seq(Byte) /\ Len(data) = len
    <3>1. \A i \in 1..len : head.first + i - 1 \in Int
      BY <2>1
    <3>2. \A i \in 1..len : r.ring[Slot(r, head.first + i - 1) + 1] \in Byte
      BY <1>1, <2>0, <3>1, SlotInRing
    <3> HIDE DEF len, head
    <3> QED BY <2>1, <3>2
  <2>4. len <= AvailableCapacity(r.output)
    <3>1. AvailableCapacity(r.output) = high - pushed
      BY <1>1 DEF AvailableCapacity, Onward
    <3> HIDE DEF head, pushed, high
    <3> QED BY <1>1, <2>1, <3>1
  <2> HIDE DEF data
  <2>5. /\ output \in Stream /\ output.total_pushed = head.end
        /\ Onward(out, output)
    <3>1. /\ output \in Stream /\ output.total_pushed = pushed + len
          /\ output.total_poped = r.output.total_poped
          /\ output.capacity = r.output.capacity /\ output.closed = r.output.closed
          /\ output.error = r.output.error
      BY <1>1, <2>3, <2>4, PushBytesKeeps
    <3> HIDE DEF output, head, len
    <3> QED BY <1>1, <2>1, <3>1 DEF Onward
  <2>6. front \in Nat
    <3>1. \A n \in Int, d \in Nat \ {0} : n % d \in Nat
      OBVIOUS
    <3>2. r.front_pos + len \in Int
      BY <1>1, <2>1
    <3> HIDE DEF len
    <3> QED BY <2>0, <3>1, <3>2
  <2>7. Tidy(rest, head.end + 1, high)
    <3>1. Tidy(rest, pushed, high)
      BY <1>1, TidySubset
    <3>2. \A i \in rest : head.end + 1 <= i.first
      <4> SUFFICES ASSUME NEW i \in r.filled, i # head PROVE head.end + 1 <= i.first
        OBVIOUS
      <4>1. head.end < i.first \/ i.end < head.first
        BY <1>1, <2>1 DEF Tidy, Disjoint
      <4>2. head.first <= i.first /\ i.first < i.end /\ i.first \in Nat /\ i.end \in Nat
        BY <1>2, <1>3, <1>5
      <4> HIDE DEF head
      <4> QED BY <2>1, <4>1, <4>2
    <3> HIDE DEF head, rest
    <3> QED BY <3>1, <3>2 DEF Tidy, Within
  <2> HIDE DEF head, len, output, front, rest
  <2>8. rest \in SUBSET Interval /\ r.pending_bytes - len \in Int
    BY <1>1, <2>1, <2>7 DEF Tidy
  <2> HIDE DEF t
  <2>9. /\ t \in Reassembler /\ t.ring = r.ring /\ t.output = output
        /\ t.first_unassembled = head.end /\ t.filled = rest
    BY <1>1, <2>1, <2>2, <2>5, <2>6, <2>8 DEF Reassembler
  <2>10. t \in Ordered(out, 1)
    BY <1>1, <2>0, <2>1, <2>5, <2>7, <2>9 DEF Ordered
  <2> QED BY <2>10 DEF t
<1> QED BY <1>4, <1>5

(* A gap of one number is a gap of none.                                     *)
LEMMA OrderedWeaker ==
  ASSUME NEW out \in Stream
  PROVE  Ordered(out, 1) \subseteq Ordered(out, 0)
<1> SUFFICES ASSUME NEW r \in Ordered(out, 1) PROVE r \in Ordered(out, 0)
  OBVIOUS
<1> DEFINE high == out.total_poped + out.capacity
           pushed == r.output.total_pushed
<1>1. pushed \in Nat /\ high \in Nat /\ Tidy(r.filled, pushed + 1, high) /\ pushed + 0 = pushed
  BY DEF Ordered, Reassembler, Stream
<1>2. Tidy(r.filled, pushed + 0, high)
  <2>1. \A i \in r.filled : i.first \in Nat /\ pushed + 1 <= i.first
    BY <1>1 DEF Tidy, Within, Interval
  <2> HIDE DEF pushed, high
  <2> QED BY <1>1, <2>1 DEF Tidy, Within
<1>3. /\ r \in Reassembler /\ (r.ring = <<>> => r.filled = {})
      /\ r.first_unassembled = pushed /\ Onward(out, r.output) /\ pushed <= high
  BY DEF Ordered
<1> QED BY <1>2, <1>3 DEF Ordered

(* The loop as a whole.                                                      *)
LEMMA FlushLoop ==
  ASSUME NEW out \in Stream, NEW r \in Ordered(out, 0)
  PROVE  Iterate([s \in Reassembler |-> FlushPass(s)], r, Cardinality(r.filled))
           \in Ordered(out, 1)
<1> DEFINE Step == [s \in Reassembler |-> FlushPass(s)]
           States == Ordered(out, 0)
           After(n) == Iterate(Step, r, n)
           size == Cardinality(r.filled)
<1>1. \A s \in States : Step[s] \in Ordered(out, 1) /\ Step[s] \in States
  <2> SUFFICES ASSUME NEW s \in States
               PROVE  Step[s] \in Ordered(out, 1) /\ Step[s] \in States
    OBVIOUS
  <2>1. s \in Reassembler
    BY DEF Ordered
  <2>2. Step[s] = FlushPass(s)
    BY <2>1
  <2> QED BY <2>2, FlushPassStep, OrderedWeaker
<1>2. IsFiniteSet(r.filled)
  BY DEF Ordered, Tidy
<1>3. size \in Nat
  BY <1>2, FS_CardinalityType
<1> HIDE DEF Step
<1>4. /\ After(0) = r
      /\ \A n \in Nat : After(n + 1) = Step[After(n)] /\ After(n) \in States
  <2> HIDE DEF States
  <2>1. r \in States
    BY DEF States
  <2> QED BY <1>1, <2>1, IterateDef
<1> HIDE DEF After, size
<1>5. CASE size = 0
  <2>1. r.filled = {}
    BY <1>2, <1>5, FS_EmptySet DEF size
  <2>2. r \in Ordered(out, 1)
    BY <2>1, <1>2 DEF Ordered, Tidy, Within
  <2> QED BY <1>4, <1>5, <2>2 DEF After, Step, size
<1>6. CASE size # 0
  <2>1. PICK n \in Nat : size = n + 1
    <3>1. size - 1 \in Nat /\ size = (size - 1) + 1
      BY <1>3, <1>6
    <3> QED BY <3>1
  <2>2. After(size) \in Ordered(out, 1)
    BY <1>1, <1>4, <2>1
  <2> QED BY <2>2 DEF After, Step, size
<1> QED BY <1>5, <1>6

(* Closing the output changes nothing else.                                  *)
LEMMA CloseAtEndOrdered ==
  ASSUME NEW out \in Stream, NEW r \in Ordered(out, 1)
  PROVE  CloseAtEnd(r) \in Ordered(out, 1)
<1> DEFINE c == [r EXCEPT !.output = Close(@)]
<1>1. /\ r \in Reassembler /\ r.output \in Stream /\ (r.ring = <<>> => r.filled = {})
      /\ r.first_unassembled = r.output.total_pushed /\ Onward(out, r.output)
      /\ r.output.total_pushed <= out.total_poped + out.capacity
      /\ Tidy(r.filled, r.output.total_pushed + 1, out.total_poped + out.capacity)
  BY DEF Ordered, Reassembler
<1>2. /\ Close(r.output) \in Stream /\ Close(r.output).closed
      /\ Close(r.output).total_pushed = r.output.total_pushed
      /\ Close(r.output).total_poped = r.output.total_poped
      /\ Close(r.output).capacity = r.output.capacity
      /\ Close(r.output).error = r.output.error
  BY <1>1 DEF Close, Stream
<1>3. /\ c \in Reassembler /\ c.output = Close(r.output) /\ c.ring = r.ring
      /\ c.filled = r.filled /\ c.first_unassembled = r.first_unassembled
  BY <1>1, <1>2 DEF Reassembler
<1>4. Onward(out, c.output)
  BY <1>1, <1>2, <1>3 DEF Onward
<1> HIDE DEF c
<1>5. c \in Ordered(out, 1)
  BY <1>1, <1>2, <1>3, <1>4 DEF Ordered
<1>6. CloseAtEnd(r) = c \/ CloseAtEnd(r) = r
  BY DEF CloseAtEnd, c
<1> QED BY <1>5, <1>6

LEMMA FlushContiguousOrdered ==
  ASSUME NEW out \in Stream, NEW r \in Ordered(out, 0)
  PROVE  FlushContiguous(r) \in Ordered(out, 1)
<1> DEFINE flushed == Iterate([s \in Reassembler |-> FlushPass(s)], r, Cardinality(r.filled))
<1>1. flushed \in Ordered(out, 1)
  BY FlushLoop
<1> HIDE DEF flushed
<1>2. r.ring = <<>> => r \in Ordered(out, 1)
  BY DEF Ordered, Tidy, Within
<1>3. FlushContiguous(r) = CloseAtEnd(IF r.ring = <<>> THEN r ELSE flushed)
  BY DEF FlushContiguous, flushed
<1> QED BY <1>1, <1>2, <1>3, CloseAtEndOrdered
-----------------------------------------------------------------------------
(* insert                                                                    *)

(* Only the ring changes when bytes are copied into it, and not its size.    *)
LEMMA CopyIntoRingType ==
  ASSUME NEW r \in Reassembler, r.ring # <<>>, NEW index \in Nat, NEW data \in Seq(Byte)
  PROVE  LET t == CopyIntoRing(r, index, data)
         IN  /\ t \in Reassembler /\ t.ring # <<>>
             /\ t.output = r.output /\ t.filled = r.filled
             /\ t.first_unassembled = r.first_unassembled
<1> DEFINE offset(i) == (i - 1 - Slot(r, index)) % Len(r.ring)
           ring == [i \in 1 .. Len(r.ring) |->
                      IF offset(i) < Len(data) THEN data[offset(i) + 1] ELSE r.ring[i]]
           t == CopyIntoRing(r, index, data)
<1>1. /\ r.ring \in Seq(Byte) /\ Len(r.ring) \in Nat \ {0} /\ Len(data) \in Nat
      /\ r.front_pos \in Nat /\ r.first_unassembled \in Nat
  BY DEF Reassembler
<1>2. \A n \in Int, d \in Nat \ {0} : n % d \in Nat
  OBVIOUS
<1>3. Slot(r, index) \in Int
  <2>1. r.front_pos + (index - r.first_unassembled) \in Int
    BY <1>1
  <2> QED BY <1>1, <1>2, <2>1 DEF Slot
<1>4. \A i \in 1 .. Len(r.ring) : offset(i) \in Nat
  BY <1>1, <1>2, <1>3
<1> HIDE DEF offset
<1>5. \A i \in 1 .. Len(r.ring) : offset(i) < Len(data) => data[offset(i) + 1] \in Byte
  BY <1>1, <1>4
<1>6. ring \in Seq(Byte) /\ Len(ring) = Len(r.ring)
  BY <1>1, <1>5
<1>7. t = [r EXCEPT !.ring = ring]
  BY DEF CopyIntoRing, offset
<1> HIDE DEF ring
<1>8. ring # <<>>
  BY <1>1, <1>6
<1> HIDE DEF t
<1>9. /\ t \in Reassembler /\ t.ring # <<>> /\ t.output = r.output
      /\ t.filled = r.filled /\ t.first_unassembled = r.first_unassembled
  BY <1>6, <1>7, <1>8 DEF Reassembler
<1> QED BY <1>9 DEF t

(* What is stored is clipped to what the output has room for, and begins at  *)
(* its end or later.                                                         *)
LEMMA StoreOrdered ==
  ASSUME NEW out \in Stream, NEW r \in Ordered(out, 0), r.ring # <<>>,
         NEW first_index \in Nat, NEW data \in Seq(Byte), NEW end \in Nat,
         end <= first_index + Len(data)
  PROVE  Store(r, first_index, data, end) \in Ordered(out, 0)
<1> DEFINE from == Greatest(first_index, r.first_unassembled)
           to   == ClippedEnd(r, end)
           part == SubSeq(data, from - first_index + 1, to - first_index)
           copy == CopyIntoRing(r, from, part)
           t    == AddInterval(copy, from, to)
           high == out.total_poped + out.capacity
           pushed == r.output.total_pushed
<1>1. /\ r \in Reassembler /\ r.first_unassembled = pushed /\ Onward(out, r.output)
      /\ pushed <= high /\ Tidy(r.filled, pushed, high)
      /\ r.output \in Stream /\ pushed \in Nat /\ high \in Nat
      /\ out.total_poped \in Nat /\ out.capacity \in Nat
  BY SMTT(60) DEF Ordered, Reassembler, Stream
<1>2. AvailableCapacity(r.output) = high - pushed
  BY <1>1 DEF AvailableCapacity, Onward
<1> HIDE DEF high
<1>3. /\ from \in Nat /\ pushed <= from /\ first_index <= from
      /\ to \in Nat /\ to <= high /\ to <= end
  BY SMTT(60), <1>1, <1>2 DEF Least, Greatest, ClippedEnd
<1>4. CASE from >= to
  <2>1. Store(r, first_index, data, end) = r
    BY <1>4 DEF Store
  <2> QED BY <2>1
<1>5. CASE ~(from >= to)
  <2> HIDE DEF from, to, pushed
  <2>1. part \in Seq(Byte)
    <3>1. /\ from - first_index + 1 \in Int /\ to - first_index \in Int
          /\ from - first_index + 1 >= 1 /\ to - first_index <= Len(data)
      BY <1>3
    <3>2. \A i \in from - first_index + 1 .. to - first_index : data[i] \in Byte
      BY <3>1
    <3> QED BY <3>1, <3>2, SubSeqProperties
  <2> HIDE DEF part
  <2>2. /\ copy \in Reassembler /\ copy.ring # <<>>
        /\ copy.output = r.output /\ copy.filled = r.filled
        /\ copy.first_unassembled = r.first_unassembled
    BY <1>1, <1>3, <2>1, CopyIntoRingType
  <2> HIDE DEF copy
  <2>3. t \in Reassembler /\ Tidy(t.filled, pushed, high) /\ SameButMap(copy, t)
    BY <1>1, <1>3, <1>5, <2>2, AddIntervalTidy
  <2>4. Store(r, first_index, data, end) = t
    BY <1>5 DEF Store, from, to, part, copy
  <2> HIDE DEF t
  <2>5. /\ t.output = r.output /\ t.first_unassembled = pushed /\ t.ring # <<>>
        /\ t.output.total_pushed = pushed /\ pushed + 0 = pushed
    BY <1>1, <2>2, <2>3 DEF SameButMap, pushed
  <2>6. t \in Ordered(out, 0)
    BY <1>1, <2>3, <2>5 DEF Ordered, high
  <2> QED BY <2>4, <2>6
<1> QED BY <1>4, <1>5

(* A remainder is a natural number, and no greater than what is divided.     *)
LEMMA RemainderBound ==
  ASSUME NEW n \in Nat
  PROVE  n % IndexModulus \in Nat /\ n % IndexModulus <= n
<1>1. IndexModulus \in Nat /\ IndexModulus > 0
  BY IndexAssumption
<1>2. /\ n = (n \div IndexModulus) * IndexModulus + (n % IndexModulus)
      /\ n % IndexModulus \in 0 .. IndexModulus - 1 /\ n \div IndexModulus \in Int
  BY <1>1
<1> DEFINE q == n \div IndexModulus
           m == n % IndexModulus
<1>3. q >= 0
  <2> HIDE DEF q, m
  <2>1. ASSUME NEW k \in Int, k < 0 PROVE k * IndexModulus <= -IndexModulus
    BY <1>1, <2>1
  <2> QED BY <1>1, <1>2, <2>1 DEF q, m
<1>4. q * IndexModulus >= 0
  <2> HIDE DEF q
  <2> QED BY <1>1, <1>2, <1>3 DEF q
<1> QED BY <1>1, <1>2, <1>4

(* The ring, which is made at the first call that finds room for one.        *)
LEMMA InitializeRingType ==
  ASSUME NEW r \in Reassembler, NEW capacity \in Nat
  PROVE  LET t == InitializeRing(r, capacity)
         IN  /\ t \in Reassembler /\ t.ring # <<>>
             /\ t.output = r.output /\ t.filled = r.filled
             /\ t.eof_received = r.eof_received /\ t.eof_index = r.eof_index
<1> DEFINE ring == [i \in 1 .. capacity + 1 |-> Blank]
<1>1. capacity + 1 \in Nat /\ Blank \in Byte
  BY DEF Blank, Byte
<1>2. ring \in Seq(Byte) /\ Len(ring) = capacity + 1
  BY <1>1
<1> HIDE DEF ring
<1>3. ring # <<>>
  BY <1>2
<1> QED BY <1>2, <1>3 DEF InitializeRing, Reassembler, ring

(* insert: whatever arrives, the map is in order and strictly beyond the end *)
(* of the output, and the output has only grown.                             *)
LEMMA InsertOrdered ==
  ASSUME NEW r \in Reassembler, r \in Ordered(r.output, 1),
         NEW first_index \in Nat, NEW data \in Seq(Byte), NEW last \in BOOLEAN
  PROVE  Insert(r, first_index, data, last) \in Ordered(r.output, 1)
<1> DEFINE end      == (first_index + Len(data)) % IndexModulus
           out      == r.output
           capacity == BytesBuffered(out) + AvailableCapacity(out)
           sized    == IF r.ring = <<>> /\ capacity > 0 THEN InitializeRing(r, capacity) ELSE r
           start    == out.total_poped + BytesBuffered(out)
           eof      == r.eof_received \/ last
           index    == IF last THEN end ELSE r.eof_index
           noted    == [sized EXCEPT !.first_unassembled = start,
                                     !.eof_received = eof, !.eof_index = index]
<1>1. /\ out \in Stream /\ out.total_poped \in Nat /\ out.total_pushed \in Nat
      /\ out.capacity \in Nat /\ r.eof_index \in Nat /\ r.eof_received \in BOOLEAN
  BY DEF Reassembler, Stream
<1>2. capacity = out.capacity /\ start = out.total_pushed
  BY <1>1 DEF BytesBuffered, AvailableCapacity
<1>3. end \in Nat /\ end <= first_index + Len(data)
  <2>1. first_index + Len(data) \in Nat
    OBVIOUS
  <2> QED BY <2>1, RemainderBound
<1>4. eof \in BOOLEAN /\ index \in Nat
  BY <1>1, <1>3
<1>5. /\ sized \in Reassembler /\ sized.output = out /\ sized.filled = r.filled
      /\ sized.ring = <<>> => r.ring = <<>>
      /\ sized.eof_received = r.eof_received /\ sized.eof_index = r.eof_index
  BY <1>1, <1>2, InitializeRingType
<1>6. Insert(r, first_index, data, last) =
        FlushContiguous(IF noted.ring = <<>> \/ end <= noted.first_unassembled \/ data = <<>>
                        THEN noted ELSE Store(noted, first_index, data, end))
  <2>1. [sized EXCEPT !.first_unassembled = start, !.eof_received = @ \/ last,
                      !.eof_index = IF last THEN end ELSE @] = noted
    <3> HIDE DEF sized, start, end
    <3> QED BY <1>5
  <2> QED BY <2>1 DEF Insert
<1> HIDE DEF capacity, sized, start, eof, index, end
<1>7. noted = [sized EXCEPT !.first_unassembled = start,
                            !.eof_received = eof, !.eof_index = index]
  OBVIOUS
<1> HIDE DEF noted
<1>8. /\ noted \in Reassembler /\ noted.output = out /\ noted.filled = r.filled
      /\ noted.ring = sized.ring /\ noted.first_unassembled = out.total_pushed
  BY <1>1, <1>2, <1>4, <1>5, <1>7 DEF Reassembler
<1>9. noted \in Ordered(out, 0)
  <2>1. /\ r.ring = <<>> => r.filled = {}
        /\ Onward(out, out) /\ out.total_pushed <= out.total_poped + out.capacity
        /\ Tidy(r.filled, out.total_pushed + 0, out.total_poped + out.capacity)
    <3>1. r \in Ordered(out, 0)
      BY <1>1, OrderedWeaker
    <3> QED BY <3>1 DEF Ordered
  <2> HIDE DEF out
  <2> QED BY <1>5, <1>8, <2>1 DEF Ordered
<1>10. noted.ring # <<>> => Store(noted, first_index, data, end) \in Ordered(out, 0)
  BY <1>1, <1>3, <1>9, StoreOrdered
<1> HIDE DEF out
<1>11. Insert(r, first_index, data, last) \in Ordered(out, 1)
  BY <1>1, <1>6, <1>9, <1>10, FlushContiguousOrdered
<1> QED BY <1>11 DEF out

(* What was made from an output of the past is as good for its own.          *)
LEMMA OrderedSelf ==
  ASSUME NEW out \in Stream, NEW r \in Ordered(out, 1)
  PROVE  r \in Ordered(r.output, 1)
BY SMTT(60) DEF Ordered, Onward, Reassembler, Stream
-----------------------------------------------------------------------------
(* Remainders, for the slots of the ring.                                    *)

LEMMA Remainder ==
  ASSUME NEW a \in Int, NEW d \in Nat \ {0}
  PROVE  a % d \in 0 .. d - 1 /\ \E q \in Int : a = q * d + (a % d)
<1>1. a = (a \div d) * d + (a % d) /\ a \div d \in Int
  OBVIOUS
<1>2. a % d \in 0 .. d - 1
  OBVIOUS
<1> QED BY <1>1, <1>2

LEMMA RemainderUnique ==
  ASSUME NEW a \in Int, NEW d \in Nat \ {0}, NEW q \in Int, NEW r \in 0 .. d - 1,
         a = q * d + r
  PROVE  a % d = r
<1>1. PICK p \in Int : a = p * d + (a % d)
  BY Remainder
<1>2. a % d \in 0 .. d - 1
  BY Remainder
<1> DEFINE m == a % d
<1> HIDE DEF m
<1>3. m \in Int /\ 0 <= m /\ m < d
  BY <1>2 DEF m
<1>4. (p - q) * d = r - m /\ (q - p) * d = m - r
  BY <1>1, <1>3 DEF m
<1>5. ASSUME NEW k \in Int, k > 0 PROVE k * d >= d
  BY <1>5
<1>6. ~(p - q > 0) /\ ~(q - p > 0)
  BY <1>3, <1>4, <1>5
<1>7. p = q
  BY <1>6
<1>8. m = r
  BY <1>3, <1>4, <1>7
<1> QED BY <1>8 DEF m

(* A remainder may be taken early.                                           *)
LEMMA RemainderOfSum ==
  ASSUME NEW a \in Int, NEW b \in Int, NEW d \in Nat \ {0}
  PROVE  ((a % d) + b) % d = (a + b) % d
<1>1. PICK p \in Int : a = p * d + (a % d)
  BY Remainder
<1>2. a % d \in Int
  BY Remainder
<1> DEFINE m == (a % d) + b
           s == m % d
<1>3. m \in Int /\ a + b = p * d + m
  BY <1>1, <1>2
<1> HIDE DEF m
<1>4. PICK q \in Int : m = q * d + s
  BY <1>3, Remainder
<1>5. s \in 0 .. d - 1
  BY <1>3, Remainder
<1> HIDE DEF s
<1>6. a + b = (p + q) * d + s
  BY <1>3, <1>4, <1>5
<1>7. a + b \in Int /\ p + q \in Int
  OBVIOUS
<1>8. (a + b) % d = s
  BY <1>5, <1>6, <1>7, RemainderUnique
<1> QED BY <1>8 DEF m, s

LEMMA RemainderOfDifference ==
  ASSUME NEW a \in Int, NEW b \in Int, NEW d \in Nat \ {0}
  PROVE  ((a % d) - (b % d)) % d = (a - b) % d
<1>1. PICK q \in Int : b = q * d + (b % d)
  BY Remainder
<1>2. (b % d) \in Int
  BY Remainder
<1>3. ((a % d) - (b % d)) % d = (a - (b % d)) % d
  <2>1. -(b % d) \in Int /\ a % d \in Int
    BY <1>2, Remainder
  <2>2. ((a % d) + (-(b % d))) % d = (a + (-(b % d))) % d
    BY <2>1, RemainderOfSum
  <2>3. (a % d) + (-(b % d)) = (a % d) - (b % d) /\ a + (-(b % d)) = a - (b % d)
    BY <1>2, <2>1
  <2> QED BY <2>2, <2>3
<1> DEFINE m == a - b
           s == b % d
<1>4. m \in Int /\ m % d \in 0 .. d - 1
  BY Remainder
<1>5. PICK p \in Int : m = p * d + (m % d)
  BY <1>4, Remainder
<1> HIDE DEF s
<1>6. a - s = (p + q) * d + (m % d)
  <2>1. a - s = m + q * d
    BY <1>1, <1>2 DEF s
  <2> HIDE DEF m
  <2> QED BY <1>4, <1>5, <2>1
<1>7. (a - s) % d = m % d
  <2>1. a - s \in Int /\ p + q \in Int
    BY <1>2 DEF s
  <2> HIDE DEF m
  <2> QED BY <1>4, <1>6, <2>1, RemainderUnique
<1> QED BY <1>3, <1>7 DEF s

(* The remainders within one turn of the ring, forward and backward.         *)
LEMMA RemainderNear ==
  ASSUME NEW a \in Int, NEW d \in Nat \ {0}
  PROVE  /\ 0 <= a /\ a < d => a % d = a
         /\ a < 0 /\ -d < a => a % d = a + d
<1>1. ASSUME 0 <= a, a < d PROVE a % d = a
  <2>1. a \in 0 .. d - 1 /\ a = 0 * d + a
    BY <1>1
  <2> QED BY <2>1, RemainderUnique
<1>2. ASSUME a < 0, -d < a PROVE a % d = a + d
  <2>1. a + d \in 0 .. d - 1 /\ a = (-1) * d + (a + d)
    BY <1>2
  <2> QED BY <2>1, RemainderUnique
<1> QED BY <1>1, <1>2
-----------------------------------------------------------------------------
(* The indices that a map stands for.                                        *)

Cover(intervals) == UNION {i.first .. i.end - 1 : i \in intervals}

LEMMA CoverFinite ==
  ASSUME NEW F, NEW low \in Nat, NEW high \in Nat, Tidy(F, low, high)
  PROVE  /\ Cover(F) \subseteq low .. high - 1
         /\ IsFiniteSet(Cover(F)) /\ Cardinality(Cover(F)) \in Nat
<1>1. \A i \in F : i.first \in Nat /\ i.end \in Nat /\ low <= i.first /\ i.end <= high
  BY DEF Tidy, Within, Interval
<1>2. Cover(F) \subseteq low .. high - 1
  <2> SUFFICES ASSUME NEW i \in F, NEW k \in i.first .. i.end - 1 PROVE k \in low .. high - 1
    BY DEF Cover
  <2> QED BY <1>1
<1>3. IsFiniteSet(low .. high - 1)
  BY FS_Interval
<1> QED BY <1>2, <1>3, FS_Subset, FS_CardinalityType

(* Two intervals with a number in common are the same.                       *)
LEMMA CommonIndex ==
  ASSUME NEW F, NEW low \in Nat, NEW high \in Nat, Tidy(F, low, high),
         NEW i \in F, NEW j \in F, NEW k \in Int,
         i.first <= k, k < i.end, j.first <= k, k < j.end
  PROVE  i = j
<1>1. /\ i.first \in Nat /\ i.end \in Nat /\ j.first \in Nat /\ j.end \in Nat
      /\ i # j => i.end < j.first \/ j.end < i.first
  BY DEF Tidy, Disjoint, Interval
<1> QED BY <1>1

(* A map without one of its intervals, seen as a set of indices.             *)
LEMMA CoverWithout ==
  ASSUME NEW F, NEW low \in Nat, NEW high \in Nat, Tidy(F, low, high), NEW i \in F
  PROVE  /\ Cover(F) = Cover(F \ {i}) \cup (i.first .. i.end - 1)
         /\ Cover(F \ {i}) \cap (i.first .. i.end - 1) = {}
         /\ Cardinality(Cover(F)) = Cardinality(Cover(F \ {i})) + (i.end - i.first)
<1> DEFINE own == i.first .. i.end - 1
<1>1. i.first \in Nat /\ i.end \in Nat /\ i.first < i.end
  BY DEF Tidy, Within, Interval
<1>2. Cover(F) = Cover(F \ {i}) \cup own
  BY DEF Cover
<1>3. Cover(F \ {i}) \cap own = {}
  <2> SUFFICES ASSUME NEW j \in F \ {i}, NEW k \in j.first .. j.end - 1, k \in own
               PROVE  FALSE
    BY DEF Cover
  <2>1. j \in F /\ j # i /\ j.first \in Nat /\ j.end \in Nat
    BY DEF Tidy, Interval
  <2>2. k \in Int /\ i.first <= k /\ k < i.end /\ j.first <= k /\ k < j.end
    BY <1>1, <2>1
  <2> QED BY <2>1, <2>2, CommonIndex
<1>4. IsFiniteSet(own) /\ Cardinality(own) = i.end - i.first
  <2> DEFINE first == i.first
             last  == i.end - 1
  <2>1. first \in Int /\ last \in Int /\ ~(first > last) /\ last - first + 1 = i.end - i.first
    BY <1>1
  <2> HIDE DEF first, last
  <2>2. IsFiniteSet(first .. last) /\ Cardinality(first .. last) = last - first + 1
    BY <2>1, FS_Interval
  <2> QED BY <2>1, <2>2 DEF first, last
<1>5. IsFiniteSet(Cover(F \ {i})) /\ Cardinality(Cover(F \ {i})) \in Nat
  BY TidyWithout, CoverFinite
<1> HIDE DEF own
<1>6. Cardinality(Cover(F)) = Cardinality(Cover(F \ {i})) + (i.end - i.first)
  <2>1. Cardinality(Cover(F)) = Cardinality(Cover(F \ {i})) + Cardinality(own) - Cardinality({})
    BY ZenonT(60), <1>2, <1>3, <1>4, <1>5, FS_Union
  <2>2. Cardinality({}) = 0
    BY FS_EmptySet
  <2> QED BY <1>1, <1>4, <1>5, <2>1, <2>2
<1> QED BY <1>2, <1>3, <1>6 DEF own
-----------------------------------------------------------------------------
(* add_interval                                                              *)

\* Some interval reaches from the place where merging begins to the new one.
Reaches(intervals, from, start) ==
  from = start \/ \E i \in intervals : i.first = from /\ i.end >= start

LEMMA MergeFromReaches ==
  ASSUME NEW r, NEW low \in Nat, NEW high \in Nat, Tidy(r.filled, low, high), NEW start \in Nat
  PROVE  Reaches(r.filled, MergeFrom(r, start), start)
<1> DEFINE before == {i \in r.filled : i.first < start}
<1>1. before \in SUBSET Interval /\ \A i \in before : i.first <= start
  BY DEF Tidy, Interval
<1>2. before # {} => Rightmost(before) \in before
  BY <1>1, RightmostFound
<1> QED BY <1>2 DEF Reaches, MergeFrom

\* The states of the loop that have lost nothing: what was known and what is
\* new are in the map or in the grown interval, and what is in the map is counted.
Gathering(r, from, start, end, low, high) ==
  {m \in Merging(r, from, low, high) :
     /\ Cover(m.filled) \cup (m.start .. m.end - 1) = Cover(r.filled) \cup (start .. end - 1)
     /\ m.pending = Cardinality(Cover(m.filled))
     /\ Reaches(m.filled, from, m.start)}

LEMMA MergePassGathers ==
  ASSUME NEW r, NEW low \in Nat, NEW high \in Nat, Tidy(r.filled, low, high),
         NEW from \in Nat, low <= from, NEW start, NEW end,
         NEW m \in Gathering(r, from, start, end, low, high)
  PROVE  MergePass(m) \in Gathering(r, from, start, end, low, high)
<1> DEFINE next == Leftmost(Touching(m))
           t    == MergePass(m)
<1>1. /\ m \in Merging(r, from, low, high) /\ m \in MergeState
      /\ m.filled \subseteq r.filled /\ m.from = from
      /\ from <= m.start /\ m.start < m.end
      /\ m.start \in Nat /\ m.end \in Nat
      /\ Cover(m.filled) \cup (m.start .. m.end - 1) = Cover(r.filled) \cup (start .. end - 1)
      /\ m.pending = Cardinality(Cover(m.filled)) /\ Reaches(m.filled, from, m.start)
  BY DEF Gathering, Merging, MergeState
<1>2. t \in Merging(r, from, low, high)
  BY <1>1, MergePassStep
<1>3. CASE Touching(m) = {}
  BY <1>1, <1>3, MergePassStep
<1>4. CASE Touching(m) # {}
  <2>1. Tidy(m.filled, low, high)
    BY <1>1, TidySubset
  <2>2. next \in Touching(m) /\ \A i \in Touching(m) : next.first <= i.first
    <3>1. Touching(m) \in SUBSET Interval
      BY <2>1 DEF Touching, Tidy
    <3> QED BY <1>4, <3>1, LeftmostFound
  <2>3. /\ next \in m.filled /\ from <= next.first /\ next.first <= m.end
        /\ next.first \in Nat /\ next.end \in Nat /\ next.first < next.end
    BY <1>1, <2>1, <2>2 DEF Touching, Tidy, Within, Interval
  <2> DEFINE s == Least(m.start, next.first)
             e == Greatest(m.end, next.end)
             rest == m.filled \ {next}
  <2>4. /\ t.filled = rest /\ t.start = s /\ t.end = e
        /\ t.pending = m.pending - (next.end - next.first)
    BY <1>1, <1>4 DEF MergePass, Touching, MergeState
  <2>5. /\ Cover(m.filled) = Cover(rest) \cup (next.first .. next.end - 1)
        /\ Cardinality(Cover(m.filled)) = Cardinality(Cover(rest)) + (next.end - next.first)
        /\ Cardinality(Cover(rest)) \in Nat
    BY <2>1, <2>3, CoverWithout, TidyWithout, CoverFinite
  <2> HIDE DEF next
  <2>6. s = from /\ next.end >= m.start
    <3>1. CASE m.start = from
      BY <1>1, <2>3, <3>1 DEF Least
    <3>2. CASE m.start # from
      <4>1. PICK i \in m.filled : i.first = from /\ i.end >= m.start
        BY <1>1, <3>2 DEF Reaches
      <4>2. i.end \in Nat /\ i.first < i.end
        BY <2>1 DEF Tidy, Within, Interval
      <4>3. i \in Touching(m)
        BY <1>1, <4>1 DEF Touching
      <4>4. next.first = from
        BY <2>2, <2>3, <4>1, <4>3
      <4>5. i = next
        <5>1. /\ from \in Int /\ i.first <= from /\ from < i.end
              /\ next.first <= from /\ from < next.end
          BY <2>3, <4>1, <4>2, <4>4
        <5> QED BY <2>1, <2>3, <5>1, CommonIndex
      <4> QED BY <1>1, <4>1, <4>4, <4>5 DEF Least
    <3> QED BY <3>1, <3>2
  <2>7. (m.start .. m.end - 1) \cup (next.first .. next.end - 1) = s .. e - 1
    BY <1>1, <2>3, <2>6 DEF Least, Greatest
  <2> HIDE DEF s, e, rest
  <2>8. Cover(rest) \cup (s .. e - 1) = Cover(r.filled) \cup (start .. end - 1)
    BY <1>1, <2>5, <2>7
  <2>9. t.pending = Cardinality(Cover(rest))
    BY <1>1, <2>3, <2>4, <2>5
  <2> HIDE DEF t
  <2>10. t \in Gathering(r, from, start, end, low, high)
    BY <1>2, <2>4, <2>6, <2>8, <2>9 DEF Gathering, Reaches
  <2> QED BY <2>10 DEF t
<1> QED BY <1>3, <1>4

(* add_interval adds the new indices to the map, and counts each one once.   *)
LEMMA AddIntervalCovers ==
  ASSUME NEW r \in Reassembler, NEW low \in Nat, NEW high \in Nat,
         Tidy(r.filled, low, high), r.pending_bytes = Cardinality(Cover(r.filled)),
         NEW start \in Nat, NEW end \in Nat, low <= start, start < end, end <= high
  PROVE  LET a == AddInterval(r, start, end)
         IN  /\ Cover(a.filled) = Cover(r.filled) \cup (start .. end - 1)
             /\ a.pending_bytes = Cardinality(Cover(a.filled))
<1> DEFINE from == MergeFrom(r, start)
           Step == [s \in MergeState |-> MergePass(s)]
           first == [filled |-> r.filled, from |-> from, start |-> start, end |-> end,
                     pending |-> r.pending_bytes]
           m == Iterate(Step, first, Cardinality(r.filled))
           new == [first |-> m.start, end |-> m.end]
           a == AddInterval(r, start, end)
           States == Gathering(r, from, start, end, low, high)
<1>1. from \in Nat /\ low <= from /\ from <= start /\ Reaches(r.filled, from, start)
  BY MergeFromSafe, MergeFromReaches
<1>2. r.filled \in SUBSET Interval /\ r.pending_bytes \in Int
  BY DEF Reassembler
<1>3. a.filled = m.filled \cup {new} /\ a.pending_bytes = m.pending + (m.end - m.start)
  BY DEF AddInterval, Reassembler
<1>4. a \in Reassembler /\ Tidy(a.filled, low, high)
  BY AddIntervalTidy
<1>5. Cardinality(r.filled) \in Nat
  BY FS_CardinalityType DEF Tidy
<1> HIDE DEF from
<1>6. first \in States
  <2>1. first \in Merging(r, from, low, high)
    BY <1>1, <1>2 DEF Merging, MergeState
  <2> QED BY <1>1, <2>1 DEF Gathering
<1>7. first \in Merging(r, from, low, high) /\ first.filled = r.filled
  BY <1>6 DEF Gathering
<1>8. \A s \in States : Step[s] \in States
  <2> SUFFICES ASSUME NEW s \in States PROVE Step[s] \in States
    OBVIOUS
  <2>1. s \in MergeState
    BY DEF Gathering, Merging
  <2> QED BY <1>1, <2>1, MergePassGathers
<1> HIDE DEF first, States
<1>9. m \in Merging(r, from, low, high) /\ Touching(m) = {}
  BY <1>1, <1>7, MergeSettles
<1> HIDE DEF Step
<1>10. m \in States
  BY <1>5, <1>6, <1>8, IterateInvariant
<1> HIDE DEF m, a
<1>11. /\ m.from = from /\ from <= m.start /\ m.start < m.end
       /\ m.start \in Nat /\ m.end \in Nat
       /\ Cover(m.filled) \cup (m.start .. m.end - 1) = Cover(r.filled) \cup (start .. end - 1)
       /\ m.pending = Cardinality(Cover(m.filled))
  BY <1>9, <1>10 DEF States, Gathering, Merging, MergeState
<1>12. new.first = m.start /\ new.end = m.end
  OBVIOUS
<1> HIDE DEF new
<1>13. new \notin m.filled
  <2> SUFFICES ASSUME new \in m.filled PROVE FALSE
    OBVIOUS
  <2>1. new \in Touching(m)
    BY <1>11, <1>12 DEF Touching
  <2> QED BY <1>9, <2>1
<1>14. new \in a.filled /\ a.filled \ {new} = m.filled
  BY <1>3, <1>13
<1>15. /\ Cover(a.filled) = Cover(m.filled) \cup (m.start .. m.end - 1)
       /\ Cardinality(Cover(a.filled)) = Cardinality(Cover(m.filled)) + (m.end - m.start)
  BY <1>4, <1>12, <1>14, CoverWithout
<1> QED BY <1>3, <1>11, <1>15 DEF a
-----------------------------------------------------------------------------
(* The ring.                                                                 *)

\* The slots of these indices hold the bytes that have them.
RingHolds(r, indices) == \A k \in indices : r.ring[Slot(r, k) + 1] = k + 1

(* How far apart the slots of two indices are, going around the ring.        *)
LEMMA SlotDistance ==
  ASSUME NEW r \in Reassembler, r.ring # <<>>, NEW k \in Int, NEW index \in Int,
         k - index < Len(r.ring), index - k < Len(r.ring)
  PROVE  /\ Slot(r, k) \in 0 .. Len(r.ring) - 1
         /\ (Slot(r, k) - Slot(r, index)) % Len(r.ring)
              = IF k >= index THEN k - index ELSE k - index + Len(r.ring)
<1> DEFINE L == Len(r.ring)
           a == r.front_pos + (k - r.first_unassembled)
           b == r.front_pos + (index - r.first_unassembled)
           d == k - index
<1>1. /\ L \in Nat \ {0} /\ a \in Int /\ b \in Int /\ a - b = d /\ d \in Int
      /\ d < L /\ -L < d /\ (k >= index <=> d >= 0)
  BY SMTT(60) DEF Reassembler
<1>2. Slot(r, k) = a % L /\ Slot(r, index) = b % L
  BY DEF Slot
<1> HIDE DEF L, a, b, d
<1>3. a % L \in 0 .. L - 1
  BY <1>1, Remainder
<1>4. ((a % L) - (b % L)) % L = d % L
  BY <1>1, RemainderOfDifference
<1>5. d % L = IF d >= 0 THEN d ELSE d + L
  <2>1. CASE d >= 0
    BY <1>1, <2>1, RemainderNear
  <2>2. CASE ~(d >= 0)
    <3>1. d < 0
      BY <1>1, <2>2
    <3> QED BY <1>1, <2>2, <3>1, RemainderNear
  <2> QED BY <2>1, <2>2
<1>6. (Slot(r, k) - Slot(r, index)) % L = IF d >= 0 THEN d ELSE d + L
  BY <1>2, <1>4, <1>5
<1> QED BY <1>1, <1>2, <1>3, <1>6 DEF L, d

(* Bytes that are copied into the ring lie in their slots, and what the ring *)
(* held before is still there: indices less than one turn apart do not share *)
(* a slot.                                                                   *)
LEMMA CopyHolds ==
  ASSUME NEW r \in Reassembler, r.ring # <<>>,
         NEW index \in Nat, NEW data \in Seq(Byte),
         r.first_unassembled <= index, index < r.first_unassembled + Len(r.ring),
         index + Len(data) <= r.first_unassembled + Len(r.ring),
         \A i \in 1 .. Len(data) : data[i] = index + i,
         NEW K \in SUBSET (r.first_unassembled .. r.first_unassembled + Len(r.ring) - 1),
         RingHolds(r, K)
  PROVE  LET t == CopyIntoRing(r, index, data)
         IN  /\ RingHolds(t, K \cup (index .. index + Len(data) - 1))
             /\ Len(t.ring) = Len(r.ring) /\ t.pending_bytes = r.pending_bytes
             /\ t.eof_received = r.eof_received /\ t.eof_index = r.eof_index
<1> DEFINE L == Len(r.ring)
           fu == r.first_unassembled
           offset(i) == (i - 1 - Slot(r, index)) % L
           ring == [i \in 1 .. L |->
                      IF offset(i) < Len(data) THEN data[offset(i) + 1] ELSE r.ring[i]]
           t == CopyIntoRing(r, index, data)
<1>1. /\ r.ring \in Seq(Byte) /\ L \in Nat \ {0} /\ Len(data) \in Nat
      /\ r.front_pos \in Nat /\ fu \in Nat
  BY DEF Reassembler
<1>2. t = [r EXCEPT !.ring = ring]
  BY DEF CopyIntoRing
<1>3. Slot(r, index) \in Int
  BY <1>1, SlotDistance
<1> HIDE DEF ring
<1>4. /\ t.ring = ring /\ t.front_pos = r.front_pos /\ t.first_unassembled = fu
      /\ t.pending_bytes = r.pending_bytes
      /\ t.eof_received = r.eof_received /\ t.eof_index = r.eof_index
  BY <1>2 DEF Reassembler
<1>5. Len(ring) = L
  BY <1>1 DEF ring
<1>6. \A k : Slot(t, k) = Slot(r, k)
  BY <1>4, <1>5 DEF Slot
<1>7. ASSUME NEW k \in fu .. fu + L - 1
      PROVE  /\ Slot(r, k) + 1 \in 1 .. L
             /\ offset(Slot(r, k) + 1) = IF k >= index THEN k - index ELSE k - index + L
  <2>1. k \in Int /\ k - index < L /\ index - k < L
    BY SMTT(60), <1>1
  <2>2. /\ Slot(r, k) \in 0 .. L - 1
        /\ (Slot(r, k) - Slot(r, index)) % L = IF k >= index THEN k - index ELSE k - index + L
    <3> HIDE DEF t, offset, fu
    <3>1. index \in Int /\ k - index < Len(r.ring) /\ index - k < Len(r.ring)
      BY <2>1
    <3> QED BY <2>1, <3>1, SlotDistance
  <2>3. PICK s \in Int : s = Slot(r, k)
    BY <2>2
  <2>4. PICK z \in Int : z = Slot(r, index)
    BY <1>3
  <2>5. offset(s + 1) = (s - z) % L
    <3>1. (s + 1) - 1 - z = s - z
      OBVIOUS
    <3> HIDE DEF L
    <3> QED BY <2>4, <3>1
  <2>6. s + 1 \in 1 .. L
    BY SMTT(60), <1>1, <2>2, <2>3
  <2> HIDE DEF L, offset
  <2> QED BY <2>2, <2>3, <2>4, <2>5, <2>6
<1>8. ASSUME NEW k \in K \cup (index .. index + Len(data) - 1)
      PROVE  ring[Slot(r, k) + 1] = k + 1
  <2>1. k \in fu .. fu + L - 1
    <3>1. CASE k \in K
      BY <3>1
    <3>2. CASE k \in index .. index + Len(data) - 1
      <4> HIDE DEF L
      <4> QED BY <1>1, <3>2 DEF L
    <3> QED BY <3>1, <3>2
  <2> DEFINE i == Slot(r, k) + 1
             o == offset(i)
  <2>2. i \in 1 .. L /\ o = IF k >= index THEN k - index ELSE k - index + L
    BY <1>7, <2>1
  <2>3. ring[i] = IF o < Len(data) THEN data[o + 1] ELSE r.ring[i]
    BY <2>2 DEF ring
  <2>4. k \in K => r.ring[i] = k + 1
    BY DEF RingHolds
  <2> HIDE DEF i, o, offset
  <2>5. CASE k >= index /\ k < index + Len(data)
    <3>1. o = k - index /\ o < Len(data) /\ o + 1 \in 1 .. Len(data) /\ index + (o + 1) = k + 1
      BY <1>1, <2>1, <2>2, <2>5
    <3> QED BY <2>3, <3>1 DEF i
  <2>6. CASE ~(k >= index /\ k < index + Len(data))
    <3>1. ~(o < Len(data)) /\ k \in K
      BY SMTT(60), <1>1, <2>1, <2>2, <2>6
    <3> QED BY <2>3, <2>4, <3>1 DEF i
  <2> QED BY <2>5, <2>6
<1> HIDE DEF t
<1>9. RingHolds(t, K \cup (index .. index + Len(data) - 1))
  BY <1>4, <1>6, <1>8 DEF RingHolds
<1> QED BY <1>4, <1>5, <1>9 DEF t
-----------------------------------------------------------------------------
(* The stream between two counts of bytes.                                   *)

LEMMA BytesType ==
  ASSUME NEW a \in Nat, NEW b \in Nat, a <= b
  PROVE  Bytes(a, b) \in Seq(Byte) /\ Len(Bytes(a, b)) = b - a
<1>1. b - a \in Nat /\ \A i \in 1 .. b - a : a + i \in Byte
  BY DEF Byte
<1> QED BY <1>1 DEF Bytes

LEMMA BytesJoined ==
  ASSUME NEW a \in Nat, NEW b \in Nat, NEW c \in Nat, a <= b, b <= c
  PROVE  Bytes(a, b) \o Bytes(b, c) = Bytes(a, c)
<1> DEFINE p == Bytes(a, b)
           q == Bytes(b, c)
           w == Bytes(a, c)
<1>1. /\ p \in Seq(Byte) /\ Len(p) = b - a /\ q \in Seq(Byte) /\ Len(q) = c - b
      /\ w \in Seq(Byte) /\ Len(w) = c - a
  <2>1. a <= c
    OBVIOUS
  <2> QED BY <2>1, BytesType
<1>2. /\ \A i \in 1 .. b - a : p[i] = a + i
      /\ \A i \in 1 .. c - b : q[i] = b + i
      /\ \A i \in 1 .. c - a : w[i] = a + i
  BY DEF Bytes
<1> HIDE DEF p, q, w
<1>3. p \o q \in Seq(Byte) /\ Len(p \o q) = Len(w)
  BY <1>1
<1>4. ASSUME NEW i \in 1 .. Len(w) PROVE (p \o q)[i] = w[i]
  <2>1. CASE i <= b - a
    BY <1>1, <1>2, <2>1
  <2>2. CASE ~(i <= b - a)
    <3>1. i - (b - a) \in 1 .. c - b /\ b + (i - (b - a)) = a + i
      BY <1>1, <2>2
    <3>2. (p \o q)[i] = q[i - (b - a)]
      BY SMTT(60), <1>1, <2>2
    <3> QED BY <1>1, <1>2, <3>1, <3>2
  <2> QED BY <2>1, <2>2
<1>5. p \o q = w
  <2>1. w \in Seq(Byte) /\ \A i \in 1 .. Len(p \o q) : (p \o q)[i] = w[i]
    BY <1>1, <1>3, <1>4
  <2> QED BY <1>3, <2>1, SeqEqual
<1> QED BY <1>5 DEF p, q, w

LEMMA BytesRest ==
  ASSUME NEW a \in Nat, NEW b \in Nat, NEW n \in Nat, n <= b - a
  PROVE  SubSeq(Bytes(a, b), n + 1, Len(Bytes(a, b))) = Bytes(a + n, b)
<1> DEFINE p == Bytes(a, b)
           w == Bytes(a + n, b)
           s == SubSeq(p, n + 1, Len(p))
<1>1. a <= b /\ a + n \in Nat /\ a + n <= b
  OBVIOUS
<1>2. /\ p \in Seq(Byte) /\ Len(p) = b - a
      /\ w \in Seq(Byte) /\ Len(w) = b - (a + n)
  BY <1>1, BytesType
<1>3. /\ \A i \in 1 .. b - a : p[i] = a + i
      /\ \A i \in 1 .. b - (a + n) : w[i] = (a + n) + i
  BY DEF Bytes
<1> HIDE DEF p, w
<1>4. s \in Seq(Byte) /\ Len(s) = Len(w)
  BY <1>2
<1>5. ASSUME NEW i \in 1 .. Len(w) PROVE s[i] = w[i]
  <2>1. n + i \in 1 .. b - a /\ a + (n + i) = (a + n) + i
    BY <1>2
  <2>2. s[i] = p[n + i]
    BY SMTT(60), <1>2
  <2> QED BY <1>2, <1>3, <2>1, <2>2
<1> HIDE DEF s
<1>6. s = w
  BY <1>2, <1>4, <1>5
<1> QED BY <1>6 DEF p, w, s
-----------------------------------------------------------------------------
(* flush_contiguous                                                          *)

\* The indices of the bytes that are in the output or in the ring.
Known(r) == (0 .. r.output.total_pushed - 1) \cup Cover(r.filled)

\* The output is the stream as far as it goes, less what was read; the ring and
\* the count are what the map says.
Faithful(r) ==
  /\ r.output.total_poped <= r.output.total_pushed
  /\ r.output.buffer = Bytes(r.output.total_poped, r.output.total_pushed)
  /\ r.pending_bytes = Cardinality(Cover(r.filled))
  /\ r.ring # <<>> => Len(r.ring) = r.output.capacity + 1
  /\ RingHolds(r, Cover(r.filled))

\* What is known about the end of the stream.
SameEnd(r, s) ==
  /\ s.eof_received = r.eof_received /\ s.eof_index = r.eof_index
  /\ s.output.closed = r.output.closed

(* One pass moves bytes from the ring to the output: they are the next ones  *)
(* of the stream, and nothing is forgotten.                                  *)
LEMMA FlushPassFaithful ==
  ASSUME NEW out \in Stream, NEW r \in Ordered(out, 0), Faithful(r)
  PROVE  LET t == FlushPass(r)
         IN  Faithful(t) /\ Known(t) = Known(r) /\ SameEnd(r, t)
<1> DEFINE head == Leftmost(r.filled)
           len  == head.end - head.first
           high == out.total_poped + out.capacity
           pushed == r.output.total_pushed
           poped  == r.output.total_poped
           L == Len(r.ring)
<1>1. /\ r \in Reassembler /\ r.first_unassembled = pushed
      /\ Onward(out, r.output) /\ Tidy(r.filled, pushed + 0, high) /\ pushed + 0 = pushed
      /\ r.output \in Stream /\ pushed \in Nat /\ poped \in Nat /\ high \in Nat
      /\ r.front_pos \in Nat /\ r.pending_bytes \in Int
      /\ poped <= pushed
  BY SMTT(60) DEF Ordered, Reassembler, Stream, Faithful
<1>2. CASE r.filled = {} \/ head.first # r.first_unassembled
  <2>1. FlushPass(r) = r
    BY <1>2 DEF FlushPass
  <2> QED BY <2>1 DEF SameEnd
<1>3. CASE r.filled # {} /\ head.first = r.first_unassembled
  <2> DEFINE data == [i \in 1..len |-> r.ring[Slot(r, head.first + i - 1) + 1]]
             output == PushBytes(r.output, data)
             front == (r.front_pos + len) % L
             rest == r.filled \ {head}
             t == FlushPass(r)
  <2>1. r.ring # <<>> /\ r.ring \in Seq(Byte) /\ L \in Nat \ {0}
    BY <1>3 DEF Ordered, Reassembler
  <2>2. head \in r.filled
    <3>1. r.filled \in SUBSET Interval
      BY <1>1 DEF Tidy
    <3> QED BY <1>3, <3>1, LeftmostFound
  <2>3. /\ head.first = pushed /\ head.end \in Nat /\ pushed < head.end /\ head.end <= high
        /\ len = head.end - pushed /\ len \in Nat
    <3>1. head.first = pushed
      BY <1>1, <1>3
    <3> HIDE DEF head, pushed, high
    <3> QED BY <1>1, <2>2, <3>1 DEF Tidy, Within, Interval
  <2>4. t = [r EXCEPT !.output            = output,
                      !.pending_bytes     = r.pending_bytes - len,
                      !.first_unassembled = head.end,
                      !.front_pos         = front,
                      !.filled            = rest]
    BY <1>3 DEF FlushPass
  <2>5. /\ Cover(r.filled) = Cover(rest) \cup (head.first .. head.end - 1)
        /\ Cardinality(Cover(r.filled)) = Cardinality(Cover(rest)) + len
        /\ Cardinality(Cover(rest)) \in Nat /\ Cover(rest) \subseteq Int
    <3> HIDE DEF pushed, high
    <3>1. Tidy(r.filled, pushed, high)
      BY <1>1
    <3>2. Tidy(rest, pushed, high)
      BY <1>1, <3>1, TidySubset
    <3>3. /\ Cover(rest) \subseteq pushed .. high - 1
          /\ Cardinality(Cover(rest)) \in Nat
      BY <1>1, <3>2, CoverFinite
    <3>4. /\ Cover(r.filled) = Cover(rest) \cup (head.first .. head.end - 1)
          /\ Cardinality(Cover(r.filled)) = Cardinality(Cover(rest)) + (head.end - head.first)
      BY <1>1, <2>2, <3>1, CoverWithout
    <3>5. Cover(rest) \subseteq Int
      <4>1. \A k \in pushed .. high - 1 : k \in Int
        OBVIOUS
      <4> HIDE DEF rest
      <4> QED BY <3>3, <4>1
    <3> HIDE DEF head, rest
    <3> QED BY <3>3, <3>4, <3>5
  <2> HIDE DEF head, len, rest
  <2>6. data = Bytes(pushed, head.end)
    <3>1. \A i \in 1 .. len : r.ring[Slot(r, head.first + i - 1) + 1] = pushed + i
      <4> SUFFICES ASSUME NEW i \in 1 .. len
                   PROVE  r.ring[Slot(r, head.first + i - 1) + 1] = pushed + i
        OBVIOUS
      <4> DEFINE k == head.first + i - 1
      <4>1. k \in head.first .. head.end - 1 /\ k + 1 = pushed + i
        <5> HIDE DEF pushed
        <5> QED BY <1>1, <2>3
      <4>2. k \in Cover(r.filled)
        BY <2>5, <4>1
      <4>3. r.ring[Slot(r, k) + 1] = k + 1
        BY <4>2 DEF Faithful, RingHolds
      <4> QED BY <4>1, <4>3
    <3>2. 1 .. len = 1 .. head.end - pushed
      BY <2>3
    <3> HIDE DEF pushed
    <3> QED BY <3>1, <3>2 DEF Bytes
  <2>7. /\ data \in Seq(Byte) /\ Len(data) = len /\ len <= AvailableCapacity(r.output)
        /\ pushed + len = head.end
    <3>1. AvailableCapacity(r.output) = high - pushed
      BY <1>1 DEF AvailableCapacity, Onward, Stream
    <3> HIDE DEF data, pushed, high
    <3>2. pushed <= head.end /\ pushed + len = head.end /\ len <= high - pushed
      BY <1>1, <2>3
    <3>3. data \in Seq(Byte) /\ Len(data) = head.end - pushed
      BY <1>1, <2>3, <2>6, <3>2, BytesType
    <3> QED BY <2>3, <3>1, <3>2, <3>3
  <2> HIDE DEF data
  <2>8. /\ output \in Stream /\ output.total_pushed = head.end /\ output.total_poped = poped
        /\ output.capacity = r.output.capacity /\ output.closed = r.output.closed
    BY <1>1, <2>7, PushBytesKeeps
  <2>9. output.buffer = Bytes(poped, head.end)
    <3>1. output.buffer = r.output.buffer \o data
      BY <1>1, <2>7 DEF PushBytes, Stream
    <3>2. r.output.buffer = Bytes(poped, pushed)
      BY DEF Faithful
    <3> HIDE DEF pushed, poped, output
    <3>3. pushed <= head.end
      BY <1>1, <2>3
    <3>4. Bytes(poped, pushed) \o Bytes(pushed, head.end) = Bytes(poped, head.end)
      BY <1>1, <2>3, <3>3, BytesJoined
    <3> QED BY <2>6, <3>1, <3>2, <3>4
  <2> HIDE DEF output, front
  <2>10. /\ t.output = output /\ t.pending_bytes = r.pending_bytes - len
         /\ t.first_unassembled = head.end /\ t.front_pos = front /\ t.filled = rest
         /\ t.ring = r.ring /\ t.eof_received = r.eof_received /\ t.eof_index = r.eof_index
    BY <1>1, <2>4 DEF Reassembler
  <2> HIDE DEF t
  <2>11. \A k \in Int : Slot(t, k) = Slot(r, k)
    <3> SUFFICES ASSUME NEW k \in Int PROVE Slot(t, k) = Slot(r, k)
      OBVIOUS
    <3> DEFINE a == r.front_pos + len
               b == k - head.end
    <3>1. a \in Int /\ b \in Int /\ a + b = r.front_pos + (k - pushed)
      <4> HIDE DEF pushed
      <4> QED BY <1>1, <2>3
    <3>2. ((a % L) + b) % L = (a + b) % L
      <4> HIDE DEF a, b, L
      <4> QED BY <2>1, <3>1, RemainderOfSum
    <3>3. Slot(t, k) = ((a % L) + b) % L
      BY <2>10 DEF Slot, front
    <3>4. Slot(r, k) = (r.front_pos + (k - pushed)) % L
      BY <1>1 DEF Slot
    <3> QED BY <3>1, <3>2, <3>3, <3>4
  <2>12. RingHolds(t, Cover(rest))
    <3>1. Cover(rest) \subseteq Cover(r.filled)
      BY <2>5
    <3> QED BY <2>5, <2>10, <2>11, <3>1 DEF Faithful, RingHolds
  <2>13. t.pending_bytes = Cardinality(Cover(rest))
    <3> DEFINE all  == Cardinality(Cover(r.filled))
               left == Cardinality(Cover(rest))
    <3>1. r.pending_bytes = all
      BY DEF Faithful
    <3>2. all = left + len /\ left \in Nat /\ len \in Nat /\ t.pending_bytes = r.pending_bytes - len
      BY <2>3, <2>5, <2>10
    <3> HIDE DEF all, left
    <3>3. t.pending_bytes = left
      BY <3>1, <3>2
    <3> QED BY <3>3 DEF left
  <2>14. Faithful(t)
    <3>1. poped <= head.end
      <4> HIDE DEF pushed, poped
      <4> QED BY <1>1, <2>3
    <3> QED BY <2>8, <2>9, <2>10, <2>12, <2>13, <3>1 DEF Faithful
  <2>15. Known(t) = Known(r)
    <3>1. 0 .. head.end - 1 = (0 .. pushed - 1) \cup (head.first .. head.end - 1)
      <4> HIDE DEF pushed
      <4> QED BY <1>1, <2>3
    <3> QED BY <2>5, <2>8, <2>10, <3>1 DEF Known
  <2> QED BY <2>8, <2>10, <2>14, <2>15 DEF SameEnd, t
<1> QED BY <1>2, <1>3

\* What a call may do between two Reassemblers and keep all the bytes.
Keeping(out, r) ==
  {s \in Ordered(out, 0) : Faithful(s) /\ Known(s) = Known(r) /\ SameEnd(r, s)}

(* flush_contiguous moves bytes from the ring to the output until a gap, and *)
(* closes the output when the last byte is in it.                            *)
LEMMA FlushContiguousFaithful ==
  ASSUME NEW out \in Stream, NEW r \in Ordered(out, 0), Faithful(r)
  PROVE  LET t == FlushContiguous(r)
         IN  /\ t \in Ordered(out, 1) /\ Faithful(t) /\ Known(t) = Known(r)
             /\ t.eof_received = r.eof_received /\ t.eof_index = r.eof_index
             /\ t.output.closed =
                  (r.output.closed \/ (r.eof_received /\ t.output.total_pushed = r.eof_index))
<1> DEFINE Step    == [s \in Reassembler |-> FlushPass(s)]
           flushed == Iterate(Step, r, Cardinality(r.filled))
           last    == IF r.ring = <<>> THEN r ELSE flushed
           t       == FlushContiguous(r)
           States  == Keeping(out, r)
<1>1. t \in Ordered(out, 1)
  BY FlushContiguousOrdered
<1>2. r \in States
  BY DEF Keeping, SameEnd
<1>3. ASSUME NEW s \in States PROVE Step[s] \in States
  <2>1. s \in Reassembler /\ s \in Ordered(out, 0) /\ Faithful(s)
        /\ Known(s) = Known(r) /\ SameEnd(r, s)
    BY DEF Keeping, Ordered
  <2> DEFINE n == FlushPass(s)
  <2>2. n \in Ordered(out, 0)
    BY <2>1, FlushPassStep, OrderedWeaker
  <2>3. Faithful(n) /\ Known(n) = Known(s) /\ SameEnd(s, n)
    BY <2>1, FlushPassFaithful
  <2> HIDE DEF n
  <2>4. n \in States
    BY <2>1, <2>2, <2>3 DEF Keeping, SameEnd
  <2> QED BY <2>1, <2>4 DEF n
<1>4. Cardinality(r.filled) \in Nat
  BY FS_CardinalityType DEF Ordered, Tidy
<1>5. flushed \in States
  <2> HIDE DEF Step, States
  <2> QED BY <1>2, <1>3, <1>4, IterateInvariant
<1>6. t = CloseAtEnd(last)
  BY DEF FlushContiguous
<1> HIDE DEF flushed, t
<1>7. /\ last \in Reassembler /\ Faithful(last) /\ Known(last) = Known(r) /\ SameEnd(r, last)
      /\ last.first_unassembled = last.output.total_pushed
  BY <1>2, <1>5 DEF Keeping, Ordered
<1> HIDE DEF last
<1>8. last.output \in Stream /\ last.output.closed \in BOOLEAN /\ last.eof_received \in BOOLEAN
  BY <1>7 DEF Reassembler, Stream
<1>9. CASE last.eof_received /\ last.first_unassembled = last.eof_index
  <2>1. t = [last EXCEPT !.output = Close(last.output)]
    BY <1>6, <1>9 DEF CloseAtEnd
  <2>2. /\ t.output = Close(last.output) /\ t.filled = last.filled /\ t.ring = last.ring
        /\ t.pending_bytes = last.pending_bytes /\ t.front_pos = last.front_pos
        /\ t.first_unassembled = last.first_unassembled
        /\ t.eof_received = last.eof_received /\ t.eof_index = last.eof_index
    BY <1>7, <2>1 DEF Reassembler
  <2>3. /\ t.output.closed = TRUE /\ t.output.buffer = last.output.buffer
        /\ t.output.total_pushed = last.output.total_pushed
        /\ t.output.total_poped = last.output.total_poped
        /\ t.output.capacity = last.output.capacity
    BY <1>8, <2>2 DEF Close, Stream
  <2>4. Faithful(t) /\ Known(t) = Known(last)
    BY <1>7, <2>2, <2>3 DEF Faithful, Known, RingHolds, Slot
  <2>5. r.eof_received /\ t.output.total_pushed = r.eof_index
    BY <1>7, <1>9, <2>3 DEF SameEnd
  <2> QED BY <1>1, <1>7, <2>2, <2>3, <2>4, <2>5 DEF t, SameEnd
<1>10. CASE ~(last.eof_received /\ last.first_unassembled = last.eof_index)
  <2>1. t = last
    BY <1>6, <1>10 DEF CloseAtEnd
  <2>2. ~(r.eof_received /\ t.output.total_pushed = r.eof_index)
    BY <1>7, <1>10, <2>1 DEF SameEnd
  <2>3. t.output.closed = r.output.closed /\ r.output.closed \in BOOLEAN
    BY <1>7, <1>8, <2>1 DEF SameEnd
  <2>4. t.output.closed =
          (r.output.closed \/ (r.eof_received /\ t.output.total_pushed = r.eof_index))
    BY <2>2, <2>3, Zenon
  <2> QED BY <1>1, <1>7, <2>1, <2>4 DEF t, SameEnd
<1> QED BY <1>9, <1>10
-----------------------------------------------------------------------------
(* insert                                                                    *)

\* The bytes of the stream from an index on.
StreamBytes(data, first_index) == \A i \in 1 .. Len(data) : data[i] = first_index + i

\* The indices of the bytes that an output has room for, with those it had.
WithinCapacity(out) == 0 .. (out.total_poped + out.capacity) - 1

(* Of a substring everything up to the capacity is kept, and what was known  *)
(* stays.                                                                    *)
LEMMA StoreFaithful ==
  ASSUME NEW out \in Stream, NEW r \in Ordered(out, 0), r.ring # <<>>, Faithful(r),
         NEW first_index \in Nat, NEW data \in Seq(Byte), StreamBytes(data, first_index),
         NEW end \in Nat, end = first_index + Len(data)
  PROVE  LET t == Store(r, first_index, data, end)
         IN  /\ Faithful(t) /\ SameEnd(r, t)
             /\ Known(t) = Known(r) \cup
                  ((first_index .. end - 1) \cap WithinCapacity(out))
<1> DEFINE from == Greatest(first_index, r.first_unassembled)
           to   == ClippedEnd(r, end)
           part == SubSeq(data, from - first_index + 1, to - first_index)
           copy == CopyIntoRing(r, from, part)
           a    == AddInterval(copy, from, to)
           t    == Store(r, first_index, data, end)
           high == out.total_poped + out.capacity
           pushed == r.output.total_pushed
           L == Len(r.ring)
<1> SUFFICES /\ Faithful(t) /\ SameEnd(r, t)
             /\ Known(t) = Known(r) \cup ((first_index .. end - 1) \cap (0 .. high - 1))
  BY DEF WithinCapacity
<1>1. /\ r \in Reassembler /\ r.first_unassembled = pushed /\ Onward(out, r.output)
      /\ pushed <= high /\ Tidy(r.filled, pushed + 0, high) /\ pushed + 0 = pushed
      /\ r.output \in Stream /\ pushed \in Nat /\ high \in Nat
      /\ out.total_poped \in Nat /\ out.capacity \in Nat
      /\ out.total_poped = r.output.total_poped /\ out.capacity = r.output.capacity
  BY SMTT(60) DEF Ordered, Reassembler, Stream, Onward
<1>2. /\ AvailableCapacity(r.output) = high - pushed /\ L = out.capacity + 1
      /\ r.output.total_poped <= pushed /\ high <= pushed + L - 1
  <2>1. L = out.capacity + 1 /\ out.total_poped <= pushed
    BY <1>1 DEF Faithful
  <2>2. /\ AvailableCapacity(r.output) = out.capacity - (pushed - out.total_poped)
        /\ high = out.total_poped + out.capacity
    BY <1>1 DEF AvailableCapacity
  <2>3. /\ r.output.total_poped = out.total_poped /\ out.total_poped \in Nat
        /\ out.capacity \in Nat /\ pushed \in Nat
    BY <1>1
  <2> HIDE DEF L, pushed, high
  <2> QED BY SMTT(60), <2>1, <2>2, <2>3
<1>3. r.pending_bytes = Cardinality(Cover(r.filled)) /\ RingHolds(r, Cover(r.filled))
  BY DEF Faithful
<1>4. Tidy(r.filled, pushed, high)
  BY <1>1
<1> HIDE DEF high, pushed, L
<1>5. end \in Nat /\ Len(data) \in Nat /\ end = first_index + Len(data)
  OBVIOUS
<1>6. /\ from \in Nat /\ pushed <= from /\ first_index <= from
      /\ (from = first_index \/ from = pushed)
      /\ to \in Nat /\ to <= high /\ to <= end /\ (to = end \/ to = high)
  BY <1>1, <1>2, <1>5 DEF Least, Greatest, ClippedEnd
<1> HIDE DEF from, to
<1>7. (first_index .. end - 1) \cap (0 .. high - 1) \subseteq (0 .. pushed - 1) \cup (from .. to - 1)
  BY <1>1, <1>5, <1>6
<1>8. from .. to - 1 \subseteq (first_index .. end - 1) \cap (0 .. high - 1)
  BY <1>1, <1>5, <1>6
<1>9. CASE from >= to
  <2>1. t = r
    BY <1>9 DEF Store, from, to
  <2>2. from .. to - 1 = {}
    BY <1>6, <1>9
  <2>3. (first_index .. end - 1) \cap (0 .. high - 1) \subseteq Known(r)
    BY <1>7, <2>2 DEF Known, pushed
  <2>4. Faithful(t) /\ SameEnd(r, t)
    BY <2>1 DEF SameEnd
  <2>5. Known(t) = Known(r) \cup ((first_index .. end - 1) \cap (0 .. high - 1))
    BY <2>1, <2>3
  <2> QED BY <2>4, <2>5
<1>10. CASE ~(from >= to)
  <2>1. /\ part \in Seq(Byte) /\ Len(part) = to - from
        /\ \A i \in 1 .. Len(part) : part[i] = from + i
    <3> DEFINE m == from - first_index + 1
               n == to - first_index
    <3>1. m \in Int /\ n \in Int /\ m >= 1 /\ n <= Len(data) /\ m <= n /\ n - m + 1 = to - from
      BY <1>5, <1>6, <1>10
    <3>2. \A i \in m .. n : data[i] \in Byte
      BY <1>5, <3>1
    <3>3. \A i \in 1 .. to - from : i + m - 1 \in 1 .. Len(data) /\ first_index + (i + m - 1) = from + i
      BY <1>5, <1>6, <3>1
    <3> HIDE DEF m, n
    <3>4. /\ SubSeq(data, m, n) \in Seq(Byte) /\ Len(SubSeq(data, m, n)) = n - m + 1
          /\ \A i \in 1 .. n - m + 1 : SubSeq(data, m, n)[i] = data[m + i - 1]
      BY <3>1, <3>2, SubSeqProperties
    <3>5. \A i \in 1 .. to - from : m + i - 1 = i + m - 1
      BY <1>6, <3>1
    <3>6. part = SubSeq(data, m, n)
      BY DEF m, n
    <3>7. \A i \in 1 .. Len(data) : data[i] = first_index + i
      BY DEF StreamBytes
    <3> HIDE DEF part
    <3>8. part \in Seq(Byte) /\ Len(part) = to - from
      BY <3>1, <3>4, <3>6
    <3>9. ASSUME NEW i \in 1 .. to - from PROVE part[i] = from + i
      <4>1. i \in 1 .. n - m + 1 /\ m + i - 1 = i + m - 1
        BY <3>1, <3>5
      <4>2. part[i] = data[i + m - 1]
        BY <3>4, <3>6, <4>1
      <4> QED BY <3>3, <3>7, <4>2
    <3> QED BY <3>8, <3>9
  <2> HIDE DEF part
  <2>2. /\ copy \in Reassembler /\ copy.ring # <<>>
        /\ copy.output = r.output /\ copy.filled = r.filled
        /\ copy.first_unassembled = r.first_unassembled
    BY <1>1, <1>6, <2>1, CopyIntoRingType
  <2>3. /\ RingHolds(copy, Cover(r.filled) \cup (from .. to - 1))
        /\ Len(copy.ring) = L /\ copy.pending_bytes = r.pending_bytes
        /\ copy.eof_received = r.eof_received /\ copy.eof_index = r.eof_index
    <3>1. Cover(r.filled) \subseteq pushed .. high - 1
      BY <1>1, <1>4, CoverFinite
    <3>2. pushed .. high - 1 \subseteq pushed .. pushed + L - 1
      BY SMTT(60), <1>1, <1>2
    <3>3. /\ pushed <= from /\ from < pushed + L
          /\ from + Len(part) <= pushed + L
      <4>1. high <= pushed + L - 1 /\ pushed \in Nat /\ high \in Nat /\ L \in Nat
        BY SMTT(60), <1>1, <1>2
      <4> QED BY <1>6, <1>10, <2>1, <4>1
    <3>4. from + Len(part) - 1 = to - 1
      BY <1>6, <2>1
    <3>5. Cover(r.filled) \in SUBSET (r.first_unassembled .. r.first_unassembled + L - 1)
      BY <1>1, <3>1, <3>2
    <3> HIDE DEF copy
    <3>6. /\ RingHolds(copy, Cover(r.filled) \cup (from .. from + Len(part) - 1))
          /\ Len(copy.ring) = L /\ copy.pending_bytes = r.pending_bytes
          /\ copy.eof_received = r.eof_received /\ copy.eof_index = r.eof_index
      <4>1. /\ r.first_unassembled <= from /\ from < r.first_unassembled + Len(r.ring)
            /\ from + Len(part) <= r.first_unassembled + Len(r.ring)
            /\ Cover(r.filled) \in
                 SUBSET (r.first_unassembled .. r.first_unassembled + Len(r.ring) - 1)
        BY <1>1, <3>3, <3>5 DEF L
      <4>2. r \in Reassembler
        BY <1>1
      <4> QED BY <1>3, <1>6, <2>1, <4>1, <4>2, CopyHolds DEF copy, L
    <3> QED BY <3>4, <3>6
  <2> HIDE DEF copy
  <2>4. a \in Reassembler /\ SameButMap(copy, a)
    BY <1>1, <1>4, <1>6, <1>10, <2>2, AddIntervalTidy
  <2>5. /\ Cover(a.filled) = Cover(r.filled) \cup (from .. to - 1)
        /\ a.pending_bytes = Cardinality(Cover(a.filled))
    <3>1. copy.pending_bytes = Cardinality(Cover(copy.filled)) /\ Tidy(copy.filled, pushed, high)
      BY <1>3, <1>4, <2>2, <2>3
    <3> HIDE DEF a
    <3> QED BY <1>1, <1>6, <1>10, <2>2, <3>1, AddIntervalCovers DEF a
  <2>6. t = a
    BY <1>10 DEF Store, from, to, part, copy
  <2> HIDE DEF a, t
  <2>7. /\ t.output = r.output /\ t.ring = copy.ring /\ t.front_pos = copy.front_pos
        /\ t.first_unassembled = copy.first_unassembled /\ SameEnd(r, t)
    BY <2>2, <2>3, <2>4, <2>6 DEF SameButMap, SameEnd
  <2>8. RingHolds(t, Cover(t.filled))
    BY <2>3, <2>5, <2>6, <2>7 DEF RingHolds, Slot
  <2>9. Faithful(t)
    <3>1. t.pending_bytes = Cardinality(Cover(t.filled))
      BY <2>5, <2>6
    <3>2. Len(t.ring) = t.output.capacity + 1
      BY <1>1, <1>2, <2>3, <2>7
    <3> QED BY <2>7, <2>8, <3>1, <3>2 DEF Faithful
  <2>10. Known(t) = Known(r) \cup (from .. to - 1)
    BY <2>5, <2>6, <2>7 DEF Known
  <2>11. Known(t) = Known(r) \cup ((first_index .. end - 1) \cap (0 .. high - 1))
    BY <1>7, <1>8, <2>10 DEF Known, pushed
  <2>12. Faithful(t) /\ SameEnd(r, t)
    BY <2>7, <2>9
  <2> QED BY <2>11, <2>12
<1> QED BY <1>9, <1>10

(* The size of the ring that is made at the first call that finds room.      *)
LEMMA InitializeRingFaithful ==
  ASSUME NEW r \in Reassembler, r.filled = {}, Faithful(r)
  PROVE  LET t == InitializeRing(r, r.output.capacity)
         IN  Faithful(t) /\ t.output = r.output
<1> DEFINE capacity == r.output.capacity
           ring == [i \in 1 .. capacity + 1 |-> Blank]
           t == InitializeRing(r, capacity)
<1>1. capacity \in Nat
  BY DEF Reassembler, Stream
<1>2. Len(ring) = capacity + 1
  BY <1>1
<1>3. t = [r EXCEPT !.ring = ring, !.front_pos = 0]
  BY DEF InitializeRing
<1> HIDE DEF ring, t
<1>4. /\ t.output = r.output /\ t.filled = {} /\ t.ring = ring
      /\ t.pending_bytes = r.pending_bytes
  BY <1>3 DEF Reassembler
<1>5. RingHolds(t, Cover(t.filled))
  BY <1>4 DEF RingHolds, Cover
<1>6. Faithful(t)
  BY <1>2, <1>4, <1>5 DEF Faithful, capacity
<1> QED BY <1>4, <1>6 DEF t, capacity

(* insert: what is known grows by as much of the substring as the output has *)
(* room for, and the output is closed once the last byte is in it.           *)
LEMMA InsertFaithful ==
  ASSUME NEW r \in Reassembler, r \in Ordered(r.output, 1), Faithful(r),
         NEW first_index \in Nat, NEW data \in Seq(Byte), StreamBytes(data, first_index),
         NEW last \in BOOLEAN,
         NEW end \in Nat, end = first_index + Len(data),
         data # <<>> \/ last => end < IndexModulus
  PROVE  LET t == Insert(r, first_index, data, last)
         IN  /\ t \in Ordered(r.output, 1) /\ Faithful(t)
             /\ Known(t) = Known(r) \cup ((first_index .. end - 1) \cap WithinCapacity(r.output))
             /\ t.eof_received = (r.eof_received \/ last)
             /\ t.eof_index = IF last THEN end ELSE r.eof_index
             /\ t.output.closed =
                  (r.output.closed \/ (t.eof_received /\ t.output.total_pushed = t.eof_index))
<1> DEFINE reduced  == (first_index + Len(data)) % IndexModulus
           out      == r.output
           capacity == BytesBuffered(out) + AvailableCapacity(out)
           sized    == IF r.ring = <<>> /\ capacity > 0 THEN InitializeRing(r, capacity) ELSE r
           start    == out.total_poped + BytesBuffered(out)
           eof      == r.eof_received \/ last
           index    == IF last THEN reduced ELSE r.eof_index
           noted    == [sized EXCEPT !.first_unassembled = start,
                                     !.eof_received = eof, !.eof_index = index]
           skip     == noted.ring = <<>> \/ reduced <= noted.first_unassembled \/ data = <<>>
           filled   == IF skip THEN noted ELSE Store(noted, first_index, data, reduced)
           t        == Insert(r, first_index, data, last)
           arriving == (first_index .. end - 1) \cap WithinCapacity(out)
<1>1. /\ out \in Stream /\ out.total_poped \in Nat /\ out.total_pushed \in Nat
      /\ out.capacity \in Nat /\ r.eof_index \in Nat /\ r.eof_received \in BOOLEAN
      /\ out.closed \in BOOLEAN /\ out.total_poped <= out.total_pushed
  BY DEF Reassembler, Stream, Faithful
<1>2. capacity = out.capacity /\ start = out.total_pushed
  BY <1>1 DEF BytesBuffered, AvailableCapacity
<1>3. reduced \in Nat /\ Len(data) \in Nat /\ (data # <<>> \/ last => reduced = end)
  <2>1. reduced \in Nat
    BY RemainderBound
  <2>2. end < IndexModulus => end % IndexModulus = end
    BY IndexAssumption, RemainderNear
  <2> QED BY <2>1, <2>2
<1>4. /\ sized \in Reassembler /\ sized.output = out /\ sized.filled = r.filled
      /\ (sized.ring = <<>> => r.ring = <<>> /\ out.capacity = 0)
      /\ sized.eof_received = r.eof_received /\ sized.eof_index = r.eof_index
  <2>1. capacity \in Nat
    BY <1>1, <1>2
  <2>2. /\ InitializeRing(r, capacity) \in Reassembler
        /\ InitializeRing(r, capacity).ring # <<>>
        /\ InitializeRing(r, capacity).output = out
        /\ InitializeRing(r, capacity).filled = r.filled
        /\ InitializeRing(r, capacity).eof_received = r.eof_received
        /\ InitializeRing(r, capacity).eof_index = r.eof_index
    BY <2>1, InitializeRingType
  <2>3. ~(capacity > 0) => out.capacity = 0
    BY <1>1, <1>2, <2>1
  <2> HIDE DEF capacity
  <2> QED BY <2>2, <2>3
<1>5. Faithful(sized)
  <2>1. r.ring = <<>> => r.filled = {}
    BY DEF Ordered
  <2>2. r.ring = <<>> => Faithful(InitializeRing(r, r.output.capacity))
    BY <2>1, InitializeRingFaithful
  <2>3. capacity = r.output.capacity
    BY <1>2
  <2> HIDE DEF capacity
  <2> QED BY <2>2, <2>3
<1>6. t = FlushContiguous(filled)
  <2>1. [sized EXCEPT !.first_unassembled = start, !.eof_received = @ \/ last,
                      !.eof_index = IF last THEN reduced ELSE @] = noted
    <3> HIDE DEF sized, start, reduced
    <3> QED BY <1>4
  <2> QED BY <2>1 DEF Insert
<1>7. eof \in BOOLEAN /\ index \in Nat /\ index = IF last THEN end ELSE r.eof_index
  BY <1>1, <1>3
<1> HIDE DEF capacity, sized, start, eof, index, reduced, t
<1>8. noted = [sized EXCEPT !.first_unassembled = start,
                            !.eof_received = eof, !.eof_index = index]
  OBVIOUS
<1> HIDE DEF noted
<1>9. /\ noted \in Reassembler /\ noted.output = out /\ noted.filled = r.filled
      /\ noted.ring = sized.ring /\ noted.first_unassembled = out.total_pushed
      /\ noted.eof_received = eof /\ noted.eof_index = index
      /\ noted.pending_bytes = sized.pending_bytes /\ noted.front_pos = sized.front_pos
  BY <1>1, <1>2, <1>4, <1>7, <1>8 DEF Reassembler
<1>10. /\ noted \in Ordered(out, 0) /\ out.total_pushed <= out.total_poped + out.capacity
       /\ r.filled # {} => r.ring # <<>>
  <2>1. /\ r.ring = <<>> => r.filled = {}
        /\ Onward(out, out) /\ out.total_pushed <= out.total_poped + out.capacity
        /\ Tidy(r.filled, out.total_pushed + 0, out.total_poped + out.capacity)
    <3>1. r \in Ordered(out, 0)
      BY <1>1, OrderedWeaker
    <3> QED BY <3>1 DEF Ordered
  <2> HIDE DEF out
  <2> QED BY <1>4, <1>9, <2>1 DEF Ordered
<1>11. Faithful(noted) /\ Known(noted) = Known(r)
  <2>1. RingHolds(noted, Cover(r.filled))
    <3>1. CASE sized = r
      <4>1. noted.front_pos = r.front_pos /\ noted.ring = r.ring
            /\ r.first_unassembled = out.total_pushed /\ RingHolds(r, Cover(r.filled))
        BY <1>9, <3>1 DEF Ordered, Faithful
      <4> QED BY <1>9, <4>1 DEF RingHolds, Slot
    <3>2. CASE sized # r
      <4>1. r.filled = {}
        BY <1>10, <3>2 DEF sized
      <4> QED BY <4>1 DEF RingHolds, Cover
    <3> QED BY <3>1, <3>2
  <2>2. /\ noted.pending_bytes = Cardinality(Cover(noted.filled))
        /\ noted.ring # <<>> => Len(noted.ring) = noted.output.capacity + 1
        /\ noted.output.total_poped <= noted.output.total_pushed
        /\ noted.output.buffer = Bytes(noted.output.total_poped, noted.output.total_pushed)
    <3> HIDE DEF out
    <3> QED BY <1>4, <1>5, <1>9 DEF Faithful
  <2> HIDE DEF out
  <2> QED BY <1>9, <2>1, <2>2 DEF Faithful, Known, out
<1>12. /\ filled \in Ordered(out, 0) /\ Faithful(filled)
       /\ Known(filled) = Known(r) \cup arriving /\ SameEnd(noted, filled)
  <2>1. CASE skip
    <3>1. arriving \subseteq 0 .. out.total_pushed - 1
      <4>1. CASE noted.ring = <<>>
        <5>1. out.total_poped + out.capacity = out.total_pushed
          BY <1>1, <1>4, <1>9, <1>10, <4>1
        <5> QED BY <5>1 DEF WithinCapacity
      <4>2. CASE data = <<>>
        <5>1. end = first_index
          BY <1>3, <4>2
        <5> QED BY <5>1
      <4>3. CASE data # <<>> /\ reduced <= noted.first_unassembled
        <5>1. end <= out.total_pushed
          BY <1>3, <1>9, <4>3
        <5> HIDE DEF out
        <5>2. first_index .. end - 1 \subseteq 0 .. out.total_pushed - 1
          BY <1>1, <5>1
        <5> QED BY <5>2
      <4> QED BY <2>1, <4>1, <4>2, <4>3
    <3>2. filled = noted
      BY <2>1
    <3> HIDE DEF filled, arriving, out
    <3> QED BY <1>10, <1>11, <3>1, <3>2 DEF SameEnd, Known, out
  <2>2. CASE ~skip
    <3>1. filled = Store(noted, first_index, data, end) /\ noted.ring # <<>>
      BY <1>3, <2>2
    <3>2. Store(noted, first_index, data, end) \in Ordered(out, 0)
      <4>1. end <= first_index + Len(data)
        BY <1>3
      <4> HIDE DEF out
      <4> QED BY <1>1, <1>10, <3>1, <4>1, StoreOrdered
    <3> HIDE DEF filled, out
    <3>3. /\ Faithful(filled) /\ SameEnd(noted, filled)
          /\ Known(filled) = Known(noted) \cup arriving
      BY SMTT(60), <1>1, <1>10, <1>11, <3>1, StoreFaithful
    <3> QED BY <1>11, <3>1, <3>2, <3>3
  <2> QED BY <2>1, <2>2
<1> HIDE DEF filled, arriving, out
<1>13. /\ t \in Ordered(out, 1) /\ Faithful(t) /\ Known(t) = Known(filled)
       /\ t.eof_received = filled.eof_received /\ t.eof_index = filled.eof_index
       /\ t.output.closed = (filled.output.closed
              \/ (filled.eof_received /\ t.output.total_pushed = filled.eof_index))
  BY <1>1, <1>6, <1>12, FlushContiguousFaithful
<1>14. /\ t.eof_received = eof /\ t.eof_index = index
       /\ t.output.closed = (out.closed \/ (t.eof_received /\ t.output.total_pushed = t.eof_index))
  <2>1. filled.eof_received = eof /\ filled.eof_index = index /\ filled.output.closed = out.closed
    BY <1>9, <1>12 DEF SameEnd
  <2> QED BY <1>13, <2>1, Zenon
<1> QED BY <1>7, <1>12, <1>13, <1>14 DEF t, eof, arriving, out

(* The output ends at the first gap of what is known.                        *)
LEMMA FirstGap ==
  ASSUME NEW r \in Reassembler, NEW out \in Stream, r \in Ordered(out, 1), NEW length \in Nat,
         Known(r) \subseteq 0 .. length - 1
  PROVE  /\ r.output.total_pushed \in 0 .. length
         /\ 0 .. r.output.total_pushed - 1 \subseteq Known(r)
         /\ r.output.total_pushed \notin Known(r)
<1> DEFINE pushed == r.output.total_pushed
<1>1. pushed \in Nat /\ length \in Nat
  BY DEF Reassembler, Stream
<1>2. 0 .. pushed - 1 \subseteq Known(r)
  BY DEF Known
<1>3. pushed <= length
  <2>1. pushed > 0 => pushed - 1 \in 0 .. pushed - 1
    BY <1>1
  <2>2. pushed > 0 => pushed - 1 \in 0 .. length - 1
    BY <1>2, <2>1
  <2> HIDE DEF pushed
  <2> QED BY <1>1, <2>2
<1>4. pushed \notin Cover(r.filled)
  <2>1. Tidy(r.filled, pushed + 1, out.total_poped + out.capacity)
    BY DEF Ordered
  <2>2. out.total_poped + out.capacity \in Nat /\ pushed + 1 \in Nat
    BY <1>1 DEF Stream
  <2> HIDE DEF pushed
  <2>3. Cover(r.filled) \subseteq pushed + 1 .. (out.total_poped + out.capacity) - 1
    BY <2>1, <2>2, CoverFinite
  <2> QED BY <1>1, <2>2, <2>3
<1>5. pushed \notin 0 .. pushed - 1
  BY <1>1
<1> QED BY <1>1, <1>2, <1>3, <1>4, <1>5 DEF Known
-----------------------------------------------------------------------------
(* TCPReceiver                                                               *)

(* receive: the Reassembler stays in order, and its output goes onward but   *)
(* for the error of an RST.                                                  *)
LEMMA ReceiveSegmentKeeps ==
  ASSUME NEW rcv \in Receiver, rcv.reassembler \in Ordered(Output(rcv), 1),
         NEW msg \in SenderMessage
  PROVE  LET next == ReceiveSegment(rcv, msg)
             out  == IF msg.RST THEN SetError(Output(rcv)) ELSE Output(rcv)
         IN  /\ next \in Receiver
             /\ next.reassembler \in Ordered(out, 1)
             /\ rcv.SYN => next.SYN
<1> DEFINE opened == IF msg.SYN /\ ~rcv.SYN
                     THEN [rcv EXCEPT !.SYN = TRUE, !.ISN = msg.seqno] ELSE rcv
           next == ReceiveSegment(rcv, msg)
<1>1. /\ rcv \in Receiver /\ rcv.reassembler \in Reassembler /\ rcv.reassembler \in Ordered(Output(rcv), 1)
      /\ rcv.reassembler.output = Output(rcv) /\ Output(rcv) \in Stream
      /\ msg.seqno \in Wrap32 /\ msg.payload \in Seq(Byte) /\ msg.FIN \in BOOLEAN
  BY DEF Output, Receiver, Reassembler, SenderMessage
<1>2. /\ opened \in Receiver /\ opened.reassembler = rcv.reassembler
      /\ rcv.SYN => opened.SYN
  BY <1>1 DEF Receiver
<1> HIDE DEF opened
<1>3. \A out : \A r \in Ordered(out, 1) :
        /\ [opened EXCEPT !.reassembler = r] \in Receiver
        /\ [opened EXCEPT !.reassembler = r].reassembler = r
        /\ [opened EXCEPT !.reassembler = r].SYN = opened.SYN
  BY <1>2 DEF Ordered, Receiver
<1>4. CASE msg.RST
  <2> DEFINE r == [rcv.reassembler EXCEPT !.output = SetError(@)]
             failed == SetError(Output(rcv))
  <2>1. r \in Ordered(failed, 1)
    <3>1. /\ failed \in Stream /\ failed.total_pushed \in Nat
          /\ failed.total_pushed = Output(rcv).total_pushed
          /\ failed.total_poped = Output(rcv).total_poped
          /\ failed.capacity = Output(rcv).capacity
          /\ Onward(failed, failed)
      <4>1. /\ failed \in Stream /\ failed.total_pushed \in Nat
            /\ failed.total_pushed = Output(rcv).total_pushed
            /\ failed.total_poped = Output(rcv).total_poped
            /\ failed.capacity = Output(rcv).capacity
        BY <1>1 DEF SetError, Stream
      <4> QED BY <4>1 DEF Onward
    <3>2. /\ r \in Reassembler /\ r.output = SetError(Output(rcv)) /\ r.ring = rcv.reassembler.ring
          /\ r.filled = rcv.reassembler.filled
          /\ r.first_unassembled = rcv.reassembler.first_unassembled
      BY <1>1, <3>1 DEF Reassembler
    <3> HIDE DEF r, failed
    <3> QED BY <1>1, <3>1, <3>2 DEF Ordered, failed
  <2>2. next = [opened EXCEPT !.reassembler = r]
    BY <1>2, <1>4 DEF ReceiveSegment, opened, Receiver
  <2> HIDE DEF r, next
  <2> QED BY <1>2, <1>3, <1>4, <2>1, <2>2 DEF next
<1>5. CASE ~msg.RST /\ ~opened.SYN
  <2>1. next = opened
    BY <1>5 DEF ReceiveSegment, opened
  <2> QED BY <1>1, <1>2, <1>5, <2>1
<1>6. CASE ~msg.RST /\ opened.SYN
  <2> DEFINE index == StreamIndex(opened, msg)
             r == Insert(rcv.reassembler, index, msg.payload, msg.FIN)
  <2>1. index \in Nat
    <3>1. opened.ISN \in Wrap32 /\ Output(opened).total_pushed + 1 \in Nat
      BY <1>1, <1>2 DEF Receiver, Output, Stream
    <3>2. Unwrap(msg.seqno, opened.ISN, Output(opened).total_pushed + 1) \in Nat
      BY <1>1, <3>1, UnwrapType
    <3>3. \A n \in Nat : (n - 1) % IndexModulus \in Nat
      BY IndexAssumption
    <3> QED BY <3>2, <3>3 DEF StreamIndex
  <2>2. r \in Ordered(Output(rcv), 1)
    <3> HIDE DEF index
    <3> QED BY <1>1, <2>1, InsertOrdered
  <2>3. next = [opened EXCEPT !.reassembler = r]
    BY <1>2, <1>6 DEF ReceiveSegment, opened
  <2> HIDE DEF r, next
  <2> QED BY <1>2, <1>3, <1>6, <2>2, <2>3 DEF next
<1> QED BY <1>4, <1>5, <1>6

(* The reader makes room and nothing else.                                   *)
LEMMA ReadKeeps ==
  ASSUME NEW rcv \in Receiver, rcv.reassembler \in Ordered(Output(rcv), 1),
         NEW n \in 1 .. BytesBuffered(Output(rcv))
  PROVE  LET next == [rcv EXCEPT !.reassembler.output = PopBytes(@, n)]
             out  == Output(next)
         IN  /\ next \in Receiver /\ next.SYN = rcv.SYN
             /\ next.reassembler \in Ordered(out, 1)
             /\ out.capacity = Output(rcv).capacity /\ out.closed = Output(rcv).closed
             /\ out.total_pushed = Output(rcv).total_pushed /\ out.total_poped >= Output(rcv).total_poped
<1> DEFINE out  == PopBytes(Output(rcv), n)
           r    == [rcv.reassembler EXCEPT !.output = out]
           next == [rcv EXCEPT !.reassembler.output = PopBytes(@, n)]
<1>1. /\ rcv \in Receiver /\ rcv.reassembler \in Reassembler /\ rcv.reassembler \in Ordered(Output(rcv), 1)
      /\ rcv.reassembler.output = Output(rcv) /\ Output(rcv) \in Stream
      /\ Output(rcv).total_pushed \in Nat /\ Output(rcv).total_poped \in Nat /\ Output(rcv).capacity \in Nat
  BY DEF Output, Receiver, Reassembler, Stream
<1>2. n \in Nat
  BY <1>1 DEF BytesBuffered
<1>3. /\ out \in Stream /\ out.total_poped = Output(rcv).total_poped + n
      /\ out.total_pushed = Output(rcv).total_pushed /\ out.capacity = Output(rcv).capacity
      /\ out.closed = Output(rcv).closed
  BY <1>1, <1>2, PopBytesKeeps
<1> HIDE DEF out
<1>4. /\ r \in Reassembler /\ r.output = out /\ r.ring = rcv.reassembler.ring
      /\ r.filled = rcv.reassembler.filled
      /\ r.first_unassembled = rcv.reassembler.first_unassembled
  BY <1>1, <1>3 DEF Reassembler
<1>5. next = [rcv EXCEPT !.reassembler = r]
  BY <1>1 DEF Receiver, Reassembler, Output, out
<1> HIDE DEF r, next
<1>6. next \in Receiver /\ next.SYN = rcv.SYN /\ next.reassembler = r /\ Output(next) = out
  BY <1>1, <1>4, <1>5 DEF Receiver, Output
<1>7. r \in Ordered(out, 1)
  <2> DEFINE high == Output(rcv).total_poped + Output(rcv).capacity
             more == out.total_poped + out.capacity
             pushed == out.total_pushed
  <2>1. /\ rcv.reassembler.ring = <<>> => rcv.reassembler.filled = {}
        /\ rcv.reassembler.first_unassembled = pushed /\ pushed <= high
        /\ Tidy(rcv.reassembler.filled, pushed + 1, high)
    BY <1>1, <1>3 DEF Ordered
  <2>2. high \in Nat /\ more \in Nat /\ high <= more /\ pushed \in Nat
    BY <1>1, <1>2, <1>3
  <2> HIDE DEF high, more, pushed
  <2>3. \A i \in rcv.reassembler.filled : i.end \in Nat /\ i.end <= high
    BY <2>1 DEF Tidy, Within, Interval
  <2>4. Tidy(rcv.reassembler.filled, pushed + 1, more)
    BY <2>1, <2>2, <2>3 DEF Tidy, Within
  <2>5. pushed <= more
    BY <2>1, <2>2
  <2>6. Onward(out, out)
    BY <2>2 DEF Onward, pushed
  <2> QED BY <1>4, <2>1, <2>4, <2>5, <2>6 DEF Ordered, more, pushed
<1>8. out.total_poped >= Output(rcv).total_poped
  BY <1>1, <1>2, <1>3
<1> QED BY <1>3, <1>6, <1>7, <1>8 DEF next

(* A receiver that was never called.                                         *)
LEMMA NewReceiverFaithful ==
  ASSUME NEW capacity \in Nat
  PROVE  LET rcv == NewReceiver(capacity)
             r   == rcv.reassembler
         IN  /\ rcv \in Receiver /\ ~rcv.SYN /\ Output(rcv) = NewStream(capacity)
             /\ r \in Ordered(r.output, 1) /\ Faithful(r)
             /\ Known(r) = {} /\ ~r.eof_received /\ ~r.output.closed
<1> DEFINE out == NewStream(capacity)
           r   == NewReassembler(out)
           rcv == NewReceiver(capacity)
<1>1. /\ out \in Stream /\ out.capacity = capacity
      /\ out.total_pushed = 0 /\ out.total_poped = 0 /\ out.closed = FALSE /\ out.buffer = <<>>
  BY DEF NewStream, Stream
<1> HIDE DEF out
<1>2. /\ r \in Reassembler /\ r.output = out /\ r.ring = <<>> /\ r.filled = {}
      /\ r.first_unassembled = 0 /\ r.pending_bytes = 0 /\ r.eof_received = FALSE
  BY <1>1 DEF NewReassembler, Reassembler
<1> HIDE DEF r
<1>3. \A low, high : Tidy({}, low, high)
  BY FS_EmptySet DEF Tidy, Within, Disjoint
<1>4. r \in Ordered(out, 1)
  <2>1. out.capacity \in Nat /\ 0 <= 0 + out.capacity /\ Onward(out, out)
    BY <1>1 DEF Onward
  <2> QED BY <1>1, <1>2, <1>3, <2>1 DEF Ordered
<1>5. rcv = [reassembler |-> r, SYN |-> FALSE, ISN |-> 0]
  BY DEF NewReceiver, r, out
<1>6. 0 \in Wrap32
  BY ModulusAssumption DEF Wrap32
<1> HIDE DEF rcv
<1>7. rcv \in Receiver /\ ~rcv.SYN /\ rcv.reassembler = r /\ Output(rcv) = out
  BY <1>2, <1>5, <1>6 DEF Receiver, Output
<1>8. Cover({}) = {} /\ Bytes(0, 0) = <<>> /\ Cardinality({}) = 0
  BY FS_EmptySet DEF Cover, Bytes
<1>9. Known(r) = {} /\ Faithful(r)
  <2>1. Known(r) = {}
    <3>1. 0 .. 0 - 1 = {}
      OBVIOUS
    <3> QED BY <1>1, <1>2, <1>8, <3>1 DEF Known
  <2>2. RingHolds(r, Cover({}))
    BY <1>8 DEF RingHolds
  <2>3. Cardinality(Cover({})) = 0 /\ r.output.total_poped <= r.output.total_pushed
    <3>1. Cardinality(Cover({})) = 0
      BY <1>8
    <3>2. r.output.total_poped = 0 /\ r.output.total_pushed = 0
      BY <1>1, <1>2
    <3> QED BY <3>1, <3>2
  <2>4. r.output.buffer = Bytes(r.output.total_poped, r.output.total_pushed)
    BY <1>1, <1>2, <1>8
  <2> QED BY <1>2, <2>1, <2>2, <2>3, <2>4 DEF Faithful
<1> QED BY <1>1, <1>2, <1>4, <1>7, <1>9 DEF rcv, out
-----------------------------------------------------------------------------
(* What is between a sender and the receiver of the other side.              *)

\* The sender s, and t, which the calls have made of it.
Forward(s, t) ==
  /\ t.isn = s.isn /\ t.next_seqno >= s.next_seqno
  /\ s.syn_sent => t.syn_sent
  /\ t.input.total_poped >= s.input.total_poped
  /\ s.fin_sent => /\ t.fin_sent /\ t.next_seqno = s.next_seqno
                   /\ t.input.total_poped = s.input.total_poped

\* A segment that the sender has sent, however long ago: it carries what
\* belongs at its position.
OfStream(snd, msg) ==
  \E p \in 0 .. snd.next_seqno :
    LET end == p + Count(msg.SYN) + Len(msg.payload)
    IN  /\ msg.seqno = Wrap(p, snd.isn)
        /\ msg.SYN => p = 0 /\ snd.syn_sent
        /\ ~msg.SYN /\ (msg.payload # <<>> \/ msg.FIN) => p > 0
        /\ \A j \in 1 .. Len(msg.payload) : msg.payload[j] = p + Count(msg.SYN) + j - 1
        /\ msg.payload # <<>> => end <= snd.input.total_poped + 1
        /\ msg.FIN => snd.fin_sent /\ end = snd.input.total_poped + 1

\* The receiver has what it was sent, and no more than was sent.
Heard(snd, rcv) ==
  LET r == rcv.reassembler
  IN  /\ rcv \in Receiver /\ r \in Ordered(r.output, 1) /\ Faithful(r)
      /\ rcv.SYN => rcv.ISN = snd.isn /\ snd.syn_sent
      /\ ~rcv.SYN => Known(r) = {} /\ ~r.eof_received
      /\ Known(r) \subseteq 0 .. snd.input.total_poped - 1
      /\ r.eof_received => snd.fin_sent /\ r.eof_index = snd.input.total_poped
      /\ r.output.closed => r.eof_received /\ r.output.total_pushed = r.eof_index

\* The receiver rcv, and next, which the calls have made of it.
Later(rcv, next) ==
  /\ rcv.SYN => next.SYN /\ next.ISN = rcv.ISN
  /\ Output(next).total_pushed >= Output(rcv).total_pushed
  /\ Output(rcv).closed => Output(next).closed
  /\ rcv.reassembler.eof_received => next.reassembler.eof_received

\* What the receiver acknowledges, or has acknowledged before.
Acked(rcv) == IF rcv.SYN THEN AbsoluteAckno(rcv) ELSE 0

OfReceiver(rcv, ack) ==
  ack.ackno # NoAck =>
    rcv.SYN /\ \E a \in 1 .. AbsoluteAckno(rcv) : ack.ackno = Wrap(a, rcv.ISN)
-----------------------------------------------------------------------------
(* The sender.                                                               *)

(* The counters of a good sender, as numbers.                                *)
LEMMA GoodCounters ==
  ASSUME NEW snd, Good(snd)
  PROVE  /\ snd \in Sender /\ snd.isn \in Wrap32 /\ snd.input \in Stream
         /\ snd.next_seqno \in Nat /\ snd.ackno \in Nat /\ snd.ackno <= snd.next_seqno
         /\ snd.flight \in Nat
         /\ snd.input.total_poped \in Nat /\ snd.input.total_pushed \in Nat
         /\ snd.input.total_poped <= snd.input.total_pushed
         /\ snd.syn_sent \in BOOLEAN /\ snd.fin_sent \in BOOLEAN
         /\ ~snd.syn_sent => snd.next_seqno = 0 /\ snd.input.total_poped = 0
         /\ ~snd.syn_sent => ~snd.fin_sent
         /\ snd.syn_sent /\ ~snd.fin_sent => snd.next_seqno = 1 + snd.input.total_poped
         /\ snd.fin_sent => /\ snd.next_seqno = 2 + snd.input.total_poped
                            /\ snd.input.total_pushed = snd.input.total_poped
                            /\ snd.input.closed
<1>1. /\ snd \in Sender /\ snd.isn \in Wrap32 /\ snd.input \in Stream
      /\ snd.next_seqno \in Nat /\ snd.ackno \in Nat
      /\ snd.input.total_poped \in Nat /\ snd.input.total_pushed \in Nat
      /\ snd.syn_sent \in BOOLEAN /\ snd.fin_sent \in BOOLEAN /\ snd.flight \in Nat
      /\ Len(snd.input.buffer) \in Nat
  BY SMTT(60) DEF Good, Sender, Stream
<1>2. /\ snd.next_seqno = Count(snd.syn_sent) + snd.input.total_poped + Count(snd.fin_sent)
      /\ snd.input.total_pushed = snd.input.total_poped + Len(snd.input.buffer)
      /\ snd.fin_sent => snd.input.closed /\ snd.input.buffer = <<>>
  BY DEF Good, Position
<1>3. snd.ackno <= snd.next_seqno
  BY DEF Good, Settled
<1>4. snd.input.total_poped <= snd.input.total_pushed
  BY <1>1, <1>2
<1>5. (~snd.syn_sent <=> snd.next_seqno = 0) /\ (snd.fin_sent => snd.syn_sent)
  BY <1>1, SynIsFirst
<1>6. ~snd.syn_sent => snd.next_seqno = 0 /\ snd.input.total_poped = 0
  BY <1>1, <1>2, <1>5 DEF Count
<1>7. snd.syn_sent /\ ~snd.fin_sent => snd.next_seqno = 1 + snd.input.total_poped
  BY <1>1, <1>2 DEF Count
<1>8. snd.fin_sent => /\ snd.next_seqno = 2 + snd.input.total_poped
                      /\ snd.input.total_pushed = snd.input.total_poped
  BY <1>1, <1>2, <1>5 DEF Count
<1> QED BY <1>1, <1>2, <1>3, <1>4, <1>5, <1>6, <1>7, <1>8

(* A sender whose position does not go back only moves forward, and stands   *)
(* still after the FIN.                                                      *)
LEMMA ForwardFromPosition ==
  ASSUME NEW s, NEW t, Good(s), Good(t), t.isn = s.isn, t.next_seqno >= s.next_seqno,
         t.input.total_pushed >= s.input.total_pushed,
         s.fin_sent => t.input.total_pushed = s.input.total_pushed
  PROVE  Forward(s, t)
<1>1. /\ s.next_seqno \in Nat /\ t.next_seqno \in Nat
      /\ s.input.total_poped \in Nat /\ t.input.total_poped \in Nat
      /\ s.input.total_pushed \in Nat /\ t.input.total_pushed \in Nat
      /\ t.input.total_poped <= t.input.total_pushed
      /\ s.input.total_poped <= s.input.total_pushed
      /\ s.syn_sent \in BOOLEAN /\ t.syn_sent \in BOOLEAN
      /\ s.fin_sent \in BOOLEAN /\ t.fin_sent \in BOOLEAN
  BY GoodCounters
<1>2. /\ ~t.syn_sent => t.next_seqno = 0 /\ t.input.total_poped = 0 /\ ~t.fin_sent
      /\ t.syn_sent /\ ~t.fin_sent => t.next_seqno = 1 + t.input.total_poped
      /\ t.fin_sent => /\ t.next_seqno = 2 + t.input.total_poped
                       /\ t.input.total_pushed = t.input.total_poped
  BY GoodCounters
<1>3. /\ ~s.syn_sent => s.next_seqno = 0 /\ s.input.total_poped = 0 /\ ~s.fin_sent
      /\ s.syn_sent /\ ~s.fin_sent => s.next_seqno = 1 + s.input.total_poped
      /\ s.fin_sent => /\ s.next_seqno = 2 + s.input.total_poped
                       /\ s.input.total_pushed = s.input.total_poped
  BY GoodCounters
<1>4. s.syn_sent => t.syn_sent
  BY <1>1, <1>2, <1>3
<1>5. t.input.total_poped >= s.input.total_poped
  BY <1>1, <1>2, <1>3
<1>6. s.fin_sent => /\ t.fin_sent /\ t.next_seqno = s.next_seqno
                    /\ t.input.total_poped = s.input.total_poped
  BY <1>1, <1>2, <1>3
<1> QED BY <1>4, <1>5, <1>6 DEF Forward

LEMMA ForwardTwice ==
  ASSUME NEW r, NEW s, NEW t, Good(r), Good(s), Good(t), Forward(r, s), Forward(s, t)
  PROVE  Forward(r, t)
<1>1. /\ r.next_seqno \in Nat /\ s.next_seqno \in Nat /\ t.next_seqno \in Nat
      /\ r.input.total_poped \in Nat /\ s.input.total_poped \in Nat
      /\ t.input.total_poped \in Nat
  BY GoodCounters
<1> QED BY <1>1 DEF Forward

(* What is outstanding is of the stream.                                     *)
LEMMA OutstandingOfStream ==
  ASSUME NEW snd, Good(snd), Carries(snd), NEW i \in 1 .. Len(snd.outstanding)
  PROVE  OfStream(snd, snd.outstanding[i])
<1> DEFINE n == Len(snd.outstanding)
           msg == snd.outstanding[i]
           len == Len(msg.payload)
           syn == Count(msg.SYN)
           fin == Count(msg.FIN)
           poped == snd.input.total_poped
           next == snd.next_seqno
<1>1. PICK pos : Layout(snd, pos)
  BY DEF Good
<1>2. /\ snd \in Sender /\ msg \in SenderMessage /\ n \in Nat /\ next \in Nat /\ poped \in Nat
      /\ snd.fin_sent \in BOOLEAN
  <2>1. snd \in Sender /\ snd.outstanding \in Seq(SenderMessage)
    BY DEF Good, Sender
  <2> QED BY <2>1, GoodCounters
<1> DEFINE p == pos[i]
<1>3. /\ p \in Nat /\ msg.seqno = Wrap(p, snd.isn) /\ p + SequenceLength(msg) <= next
      /\ Unwrap(msg.seqno, snd.isn, next) = p
  <2>1. i \in 1 .. n + 1 /\ i + 1 \in 1 .. n + 1 /\ n + 1 \in 1 .. n + 1 /\ i + 1 <= n + 1
    BY <1>2
  <2>2. /\ pos[i] \in Nat /\ msg.seqno = Wrap(pos[i], snd.isn)
        /\ pos[i + 1] = pos[i] + SequenceLength(msg)
        /\ pos[i + 1] <= pos[n + 1] /\ pos[n + 1] = next
    BY <1>1, <2>1 DEF Layout
  <2> HIDE DEF n, msg, next
  <2> QED BY <1>1, <1>2, <2>2, OutstandingPosition DEF msg, n, next
<1>4. Placed(snd, msg)
  BY DEF Carries
<1>5. /\ msg.SYN <=> p = 0
      /\ \A j \in 1 .. Len(msg.payload) : msg.payload[j] = p + Count(msg.SYN) + j - 1
      /\ msg.FIN <=> snd.fin_sent /\ p + SequenceLength(msg) = next
  BY <1>3, <1>4 DEF Placed
<1>6. snd.syn_sent
  <2>1. snd.outstanding # <<>>
    OBVIOUS
  <2> QED BY <1>2, <2>1, OutstandingAfterSyn
<1>7. /\ ~snd.fin_sent => next = 1 + poped
      /\ snd.fin_sent => next = 2 + poped
  BY <1>6, GoodCounters
<1>8. /\ len \in Nat /\ syn \in 0 .. 1 /\ fin \in 0 .. 1 /\ SequenceLength(msg) = syn + len + fin
      /\ (msg.FIN => fin = 1) /\ (~msg.FIN => fin = 0)
  BY <1>2 DEF SenderMessage, Count, SequenceLength
<1> HIDE DEF msg, len, syn, fin, p, next, poped
<1>9. /\ p + syn + len <= poped + 1
      /\ msg.FIN => snd.fin_sent /\ p + syn + len = poped + 1
  BY <1>2, <1>3, <1>5, <1>7, <1>8
<1>10. p \in 0 .. next
  BY <1>2, <1>3, <1>8
<1>11. ~msg.SYN => p > 0
  BY <1>3, <1>5
<1> QED BY <1>3, <1>5, <1>6, <1>9, <1>10, <1>11 DEF OfStream, msg, len, syn, next, poped

(* push: the sender moves forward, the owner's counters and the              *)
(* acknowledged position stay, and what is transmitted is of the stream.     *)
LEMMA PushSends ==
  ASSUME NEW snd, Good(snd), Carries(snd)
  PROVE  LET t   == Push(snd).snd
             out == Push(snd).out
         IN  /\ Good(t) /\ Carries(t) /\ Finished(t)
             /\ SameOwner(snd, t) /\ Forward(snd, t) /\ t.ackno = snd.ackno
             /\ out \in Seq(SenderMessage)
             /\ \A i \in 1 .. Len(out) : OfStream(t, out[i])
<1> DEFINE p == Push(snd)
           t == p.snd
<1>1. snd \in Sender
  BY GoodCounters
<1>2. p \in Reached(snd) /\ p.done
  BY <1>1, PushLeavesLoop
<1> HIDE DEF p
<1>3. /\ Good(t) /\ Carries(t) /\ Finished(t) /\ SameOwner(snd, t)
      /\ t.ackno = snd.ackno /\ t.next_seqno >= snd.next_seqno /\ Queued(t, p.out)
      /\ p.out \in Seq(SenderMessage)
  BY <1>2 DEF Reached, GoodPushState, PushState
<1> HIDE DEF t
<1>4. Forward(snd, t)
  <2>1. t.isn = snd.isn /\ t.input.total_pushed = snd.input.total_pushed
    BY <1>3 DEF SameOwner
  <2>2. snd.input.total_pushed \in Nat
    BY GoodCounters
  <2> QED BY <1>3, <2>1, <2>2, ForwardFromPosition
<1>5. ASSUME NEW i \in 1 .. Len(p.out) PROVE OfStream(t, p.out[i])
  <2>1. PICK j \in 1 .. Len(t.outstanding) : p.out[i] = t.outstanding[j]
    BY <1>3 DEF Queued
  <2>2. OfStream(t, t.outstanding[j])
    BY <1>3, OutstandingOfStream
  <2> QED BY <2>1, <2>2
<1> QED BY <1>3, <1>4, <1>5 DEF p, t

(* tick: the sender stays where it is, and repeats the oldest segment.       *)
LEMMA TickSends ==
  ASSUME NEW snd, Good(snd), Carries(snd), NEW ms \in Nat
  PROVE  LET t   == Tick(snd, ms).snd
             out == Tick(snd, ms).out
         IN  /\ Good(t) /\ Carries(t) /\ (Finished(snd) => Finished(t))
             /\ SameOwner(snd, t) /\ Forward(snd, t) /\ t.ackno = snd.ackno
             /\ out \in Seq(SenderMessage)
             /\ \A i \in 1 .. Len(out) : OfStream(t, out[i])
<1> DEFINE t   == Tick(snd, ms).snd
           out == Tick(snd, ms).out
           elapsed == snd.time_elapsed + (IF snd.timer_running THEN ms ELSE 0)
<1>1. snd \in Sender /\ snd.next_seqno \in Nat /\ snd.input.total_pushed \in Nat
  BY GoodCounters
<1>2. /\ Good(t) /\ Carries(t) /\ SamePlace(snd, t) /\ SameOwner(snd, t)
      /\ t.ackno = snd.ackno /\ t.flight = snd.flight /\ t.outstanding = snd.outstanding
      /\ out \in Seq(SenderMessage)
  BY <1>1, TickKeepsGood, TickKeepsStream
<1>3. out = IF elapsed < snd.current_RTO THEN <<>> ELSE <<Head(snd.outstanding)>>
  BY DEF Tick
<1>4. ~(elapsed < snd.current_RTO) => snd.outstanding # <<>>
  BY <1>1 DEF Good, Timer, Sender
<1> HIDE DEF t, out, elapsed
<1>5. Finished(snd) => Finished(t)
  BY <1>2 DEF Finished, SamePlace, SameOwner
<1>6. Forward(snd, t)
  <2>1. /\ t.isn = snd.isn /\ t.next_seqno = snd.next_seqno
        /\ t.input.total_pushed = snd.input.total_pushed
    BY <1>2 DEF SamePlace, SameOwner
  <2> QED BY <1>1, <1>2, <2>1, ForwardFromPosition
<1>7. ASSUME NEW i \in 1 .. Len(out) PROVE OfStream(t, out[i])
  <2>1. ~(elapsed < snd.current_RTO) /\ out = <<Head(snd.outstanding)>> /\ i = 1
    BY <1>3, <1>7
  <2>2. 1 \in 1 .. Len(t.outstanding) /\ Head(snd.outstanding) = t.outstanding[1]
    <3>1. snd.outstanding \in Seq(SenderMessage)
      BY <1>1 DEF Sender
    <3> QED BY <1>2, <1>4, <2>1, <3>1
  <2>3. out[i] = t.outstanding[1]
    BY <2>1, <2>2
  <2> QED BY <1>2, <2>2, <2>3, OutstandingOfStream
<1> QED BY <1>2, <1>5, <1>6, <1>7 DEF t, out

(* The owner writes, or closes: only its counters change.                    *)
LEMMA OwnerMoves ==
  ASSUME NEW snd, Good(snd), Carries(snd), ~snd.input.closed
  PROVE  /\ \A n \in Nat : n <= AvailableCapacity(snd.input) =>
              LET t == Written(snd, n)
              IN  /\ Good(t) /\ Carries(t) /\ Forward(snd, t) /\ t.ackno = snd.ackno
                  /\ t.input.total_pushed = snd.input.total_pushed + n
                  /\ t.input.closed = snd.input.closed
         /\ LET t == [snd EXCEPT !.input = Close(@)]
            IN  /\ Good(t) /\ Carries(t) /\ Forward(snd, t) /\ t.ackno = snd.ackno
                /\ t.input.total_pushed = snd.input.total_pushed /\ t.input.closed
<1>1. /\ snd \in Sender /\ snd.input \in Stream /\ snd.input.total_pushed \in Nat
      /\ snd.next_seqno \in Nat /\ ~snd.fin_sent
  BY GoodCounters
<1>2. ASSUME NEW n \in Nat, n <= AvailableCapacity(snd.input)
      PROVE  LET t == Written(snd, n)
             IN  /\ Good(t) /\ Carries(t) /\ Forward(snd, t) /\ t.ackno = snd.ackno
                 /\ t.input.total_pushed = snd.input.total_pushed + n
                 /\ t.input.closed = snd.input.closed
  <2> DEFINE t == Written(snd, n)
             data == [i \in 1 .. n |-> snd.input.total_pushed + i]
             in == PushBytes(snd.input, data)
  <2>1. Good(t) /\ Carries(t)
    BY <1>1, <1>2, WrittenKeepsGood, WrittenKeepsCarries
  <2>2. data \in Seq(Byte) /\ Len(data) = n
    <3>1. \A i \in 1 .. n : snd.input.total_pushed + i \in Byte
      BY <1>1 DEF Byte
    <3>2. data \in [1 .. n -> Byte]
      BY <3>1
    <3> HIDE DEF data
    <3> QED BY <3>2
  <2> HIDE DEF data
  <2>3. in.total_pushed = snd.input.total_pushed + n /\ in.closed = snd.input.closed
    BY <1>1, <1>2, <2>2, PushBytesFits
  <2>4. t = [snd EXCEPT !.input = in]
    BY DEF Written, data
  <2> HIDE DEF t, in
  <2>5. /\ t.input = in /\ t.isn = snd.isn /\ t.next_seqno = snd.next_seqno
        /\ t.ackno = snd.ackno
    BY <1>1, <2>4 DEF Sender
  <2>6. Forward(snd, t)
    BY <1>1, <2>1, <2>3, <2>5, ForwardFromPosition
  <2> QED BY <2>1, <2>3, <2>5, <2>6 DEF t
<1>3. LET t == [snd EXCEPT !.input = Close(@)]
      IN  /\ Good(t) /\ Carries(t) /\ Forward(snd, t) /\ t.ackno = snd.ackno
          /\ t.input.total_pushed = snd.input.total_pushed /\ t.input.closed
  <2> DEFINE t == [snd EXCEPT !.input = Close(@)]
  <2>1. Good(t) /\ Carries(t)
    BY <1>1, CloseKeepsGood, CloseKeepsCarries
  <2>2. /\ t.input = Close(snd.input) /\ t.isn = snd.isn /\ t.next_seqno = snd.next_seqno
        /\ t.ackno = snd.ackno
    BY <1>1 DEF Sender
  <2>3. Close(snd.input).total_pushed = snd.input.total_pushed /\ Close(snd.input).closed
    BY <1>1 DEF Close, Stream
  <2> HIDE DEF t
  <2>4. Forward(snd, t)
    BY <1>1, <2>1, <2>2, <2>3, ForwardFromPosition
  <2> QED BY <2>1, <2>2, <2>3, <2>4 DEF t
<1> QED BY <1>2, <1>3
-----------------------------------------------------------------------------
(* The receiver.                                                             *)

(* The receiver is behind the sender, and has reached it when its stream is  *)
(* closed.                                                                   *)
LEMMA HeardCounters ==
  ASSUME NEW snd, Good(snd), NEW rcv, Heard(snd, rcv)
  PROVE  /\ rcv \in Receiver /\ Output(rcv) \in Stream /\ rcv.SYN \in BOOLEAN
         /\ Output(rcv).total_poped \in Nat /\ Output(rcv).capacity \in Nat
         /\ Output(rcv).total_pushed <= Output(rcv).total_poped + Output(rcv).capacity
         /\ Output(rcv).total_pushed \in 0 .. snd.input.total_poped
         /\ ~rcv.SYN => Output(rcv).total_pushed = 0 /\ ~Output(rcv).closed
         /\ Output(rcv).closed =>
              /\ rcv.SYN /\ snd.fin_sent
              /\ Output(rcv).total_pushed = snd.input.total_poped
         /\ AbsoluteAckno(rcv) \in Nat /\ AbsoluteAckno(rcv) >= 1
         /\ rcv.SYN => AbsoluteAckno(rcv) <= snd.next_seqno
         /\ Output(rcv).closed => AbsoluteAckno(rcv) = snd.next_seqno
         /\ Acked(rcv) \in 0 .. snd.next_seqno
<1> DEFINE r == rcv.reassembler
           out == Output(rcv)
           poped == snd.input.total_poped
<1>1. /\ poped \in Nat /\ snd.next_seqno \in Nat /\ snd.fin_sent \in BOOLEAN
      /\ ~snd.syn_sent => ~snd.fin_sent
      /\ snd.syn_sent /\ ~snd.fin_sent => snd.next_seqno = 1 + poped
      /\ snd.fin_sent => snd.next_seqno = 2 + poped
  BY GoodCounters
<1>2. /\ rcv \in Receiver /\ r \in Reassembler /\ r.output = out /\ out \in Stream
      /\ out.total_pushed \in Nat /\ out.total_poped \in Nat /\ out.capacity \in Nat
      /\ out.closed \in BOOLEAN /\ rcv.SYN \in BOOLEAN
  BY DEF Heard, Output, Receiver, Reassembler, Stream
<1>3. /\ r \in Ordered(out, 1) /\ Known(r) \subseteq 0 .. poped - 1
      /\ rcv.SYN => snd.syn_sent
      /\ ~rcv.SYN => Known(r) = {} /\ ~r.eof_received
      /\ r.eof_received => snd.fin_sent /\ r.eof_index = poped
      /\ out.closed => r.eof_received /\ out.total_pushed = r.eof_index
  BY <1>2 DEF Heard
<1>4. out.total_pushed \in 0 .. poped /\ 0 .. out.total_pushed - 1 \subseteq Known(r)
  BY <1>1, <1>2, <1>3, FirstGap
<1>5. out.total_pushed <= out.total_poped + out.capacity
  BY <1>3, <1>2 DEF Ordered
<1>6. AbsoluteAckno(rcv) = out.total_pushed + 1 + Count(out.closed)
  BY DEF AbsoluteAckno
<1> HIDE DEF r, out, poped
<1>7. ~rcv.SYN => out.total_pushed = 0 /\ ~out.closed
  <2>1. out.total_pushed > 0 => 0 \in 0 .. out.total_pushed - 1
    BY <1>2
  <2> QED BY <1>2, <1>3, <1>4, <2>1
<1>8. out.closed => rcv.SYN /\ snd.fin_sent /\ out.total_pushed = poped
  BY <1>3, <1>7
<1>9. Count(out.closed) \in 0 .. 1 /\ (out.closed => Count(out.closed) = 1)
      /\ (~out.closed => Count(out.closed) = 0)
  BY <1>2 DEF Count
<1>10. /\ AbsoluteAckno(rcv) \in Nat /\ AbsoluteAckno(rcv) >= 1
       /\ rcv.SYN => AbsoluteAckno(rcv) <= snd.next_seqno
       /\ out.closed => AbsoluteAckno(rcv) = snd.next_seqno
  BY <1>1, <1>2, <1>3, <1>4, <1>6, <1>8, <1>9
<1>11. Acked(rcv) \in 0 .. snd.next_seqno
  BY <1>1, <1>10 DEF Acked
<1> QED BY <1>2, <1>4, <1>5, <1>7, <1>8, <1>10, <1>11 DEF out, poped

(* Whatever was said to the sender as it was is said to it as it is.         *)
LEMMA HeardForward ==
  ASSUME NEW s, NEW t, Good(s), Good(t), Forward(s, t), NEW rcv, Heard(s, rcv)
  PROVE  Heard(t, rcv)
<1>1. /\ s.input.total_poped \in Nat /\ t.input.total_poped \in Nat
      /\ s.input.total_poped <= t.input.total_poped
  BY GoodCounters DEF Forward
<1>2. 0 .. s.input.total_poped - 1 \subseteq 0 .. t.input.total_poped - 1
  BY <1>1
<1> QED BY <1>2 DEF Heard, Forward

LEMMA OfStreamForward ==
  ASSUME NEW s, NEW t, Good(s), Good(t), Forward(s, t),
         NEW msg \in SenderMessage, OfStream(s, msg)
  PROVE  OfStream(t, msg)
<1>1. /\ s.input.total_poped \in Nat /\ t.input.total_poped \in Nat
      /\ s.input.total_poped <= t.input.total_poped
      /\ s.next_seqno \in Nat /\ t.next_seqno \in Nat /\ s.next_seqno <= t.next_seqno
      /\ t.isn = s.isn
  BY GoodCounters DEF Forward
<1>2. PICK p \in 0 .. s.next_seqno :
        /\ msg.seqno = Wrap(p, s.isn)
        /\ msg.SYN => p = 0 /\ s.syn_sent
        /\ ~msg.SYN /\ (msg.payload # <<>> \/ msg.FIN) => p > 0
        /\ \A j \in 1 .. Len(msg.payload) : msg.payload[j] = p + Count(msg.SYN) + j - 1
        /\ msg.payload # <<>> => p + Count(msg.SYN) + Len(msg.payload) <= s.input.total_poped + 1
        /\ msg.FIN => /\ s.fin_sent
                      /\ p + Count(msg.SYN) + Len(msg.payload) = s.input.total_poped + 1
  BY DEF OfStream
<1>3. p \in 0 .. t.next_seqno
  BY <1>1
<1>4. msg.payload # <<>> => p + Count(msg.SYN) + Len(msg.payload) <= t.input.total_poped + 1
  <2>1. Len(msg.payload) \in Nat /\ Count(msg.SYN) \in Nat
    BY DEF SenderMessage, Count
  <2> QED BY SMTT(60), <1>1, <1>2, <2>1
<1>5. msg.SYN => t.syn_sent
  BY <1>2 DEF Forward
<1>6. msg.FIN => t.fin_sent /\ t.input.total_poped = s.input.total_poped
  BY <1>2 DEF Forward
<1> QED BY <1>1, <1>2, <1>3, <1>4, <1>5, <1>6 DEF OfStream

(* An acknowledgment stays one of the receiver.                              *)
LEMMA AckedLater ==
  ASSUME NEW snd, Good(snd), NEW rcv, Heard(snd, rcv), NEW next, Heard(snd, next),
         Later(rcv, next)
  PROVE  /\ AbsoluteAckno(rcv) <= AbsoluteAckno(next) /\ Acked(rcv) <= Acked(next)
         /\ \A ack \in ReceiverMessage : OfReceiver(rcv, ack) => OfReceiver(next, ack)
<1> DEFINE old == Output(rcv)
           new == Output(next)
<1>1. /\ AbsoluteAckno(rcv) \in Nat /\ AbsoluteAckno(next) \in Nat
      /\ old.total_pushed \in Nat /\ new.total_pushed \in Nat
      /\ AbsoluteAckno(next) >= 1 /\ rcv.SYN \in BOOLEAN /\ next.SYN \in BOOLEAN
      /\ old.closed \in BOOLEAN /\ new.closed \in BOOLEAN
      /\ Acked(rcv) \in Nat /\ Acked(next) \in Nat
  BY SMTT(60), HeardCounters DEF Stream
<1>2. Count(old.closed) <= Count(new.closed) /\ Count(old.closed) \in Nat /\ Count(new.closed) \in Nat
  BY <1>1 DEF Later, Count
<1>3. /\ AbsoluteAckno(rcv) = old.total_pushed + 1 + Count(old.closed)
      /\ AbsoluteAckno(next) = new.total_pushed + 1 + Count(new.closed)
      /\ new.total_pushed >= old.total_pushed
  BY DEF AbsoluteAckno, Later
<1> HIDE DEF old, new
<1>4. AbsoluteAckno(rcv) <= AbsoluteAckno(next)
  BY <1>1, <1>2, <1>3
<1>5. Acked(rcv) <= Acked(next)
  BY <1>1, <1>4 DEF Acked, Later
<1>6. ASSUME NEW ack \in ReceiverMessage, OfReceiver(rcv, ack) PROVE OfReceiver(next, ack)
  BY <1>1, <1>4, <1>6 DEF OfReceiver, Later
<1> QED BY <1>4, <1>5, <1>6

(* The sender takes an acknowledgment for what it is: it was wrapped around  *)
(* the same zero point, less than half of the numbers ago.                   *)
LEMMA AckUnwraps ==
  ASSUME NEW snd, Good(snd), snd.next_seqno < HalfModulus, NEW a \in 0 .. snd.next_seqno
  PROVE  Unwrap(Wrap(a, snd.isn), snd.isn, snd.next_seqno) = a
<1>1. snd.next_seqno \in Nat /\ snd.isn \in Wrap32 /\ a \in Nat /\ HalfModulus \in Int
  BY GoodCounters, ModulusAssumption DEF HalfModulus
<1>2. Distance(a, snd.next_seqno) < HalfModulus
  BY <1>1 DEF Distance
<1> QED BY <1>1, <1>2, UnwrapRoundTrip

\* An acknowledgment of something before the position limit.
Before(snd, limit, ack) ==
  ack.ackno # NoAck => \E a \in 1 .. limit : ack.ackno = Wrap(a, snd.isn)

(* receive: what the sender then believes to be acknowledged was delivered,  *)
(* and an acknowledgment of all that was sent is not missed.                 *)
LEMMA AckTaken ==
  ASSUME NEW snd, Good(snd), Carries(snd), snd.next_seqno < HalfModulus,
         NEW limit \in snd.ackno .. snd.next_seqno,
         NEW ack \in ReceiverMessage, Before(snd, limit, ack)
  PROVE  LET t == Receive(snd, ack)
         IN  /\ Good(t) /\ Carries(t) /\ SameOwner(snd, t) /\ Forward(snd, t)
             /\ t.next_seqno = snd.next_seqno /\ t.fin_sent = snd.fin_sent
             /\ snd.ackno <= t.ackno /\ t.ackno <= limit
             /\ \/ snd.ackno = snd.next_seqno
                \/ ack.ackno # NoAck /\ ack.ackno = Wrap(snd.next_seqno, snd.isn)
                => t.ackno = snd.next_seqno
<1> DEFINE t == Receive(snd, ack)
           ackno == Unwrap(ack.ackno, snd.isn, snd.next_seqno)
<1>1. /\ snd \in Sender /\ snd.next_seqno \in Nat /\ snd.ackno \in Nat
      /\ snd.ackno <= snd.next_seqno /\ snd.input.total_pushed \in Nat
      /\ limit \in 0 .. snd.next_seqno /\ snd.ackno <= limit
  BY GoodCounters
<1>2. /\ Good(t) /\ Carries(t) /\ SamePlace(snd, t) /\ SameOwner(snd, t)
      /\ t.ackno = IF ack.ackno # NoAck /\ ackno > snd.ackno /\ ackno <= snd.next_seqno
                   THEN ackno ELSE snd.ackno
  BY <1>1, ReceiveKeepsGood, ReceiveKeepsStream
<1>3. ack.ackno # NoAck => ackno \in 1 .. limit
  <2> SUFFICES ASSUME ack.ackno # NoAck PROVE ackno \in 1 .. limit
    OBVIOUS
  <2>1. PICK a \in 1 .. limit : ack.ackno = Wrap(a, snd.isn)
    BY DEF Before
  <2>2. a \in 0 .. snd.next_seqno
    BY <1>1, <2>1
  <2>3. ackno = a
    BY <2>1, <2>2, AckUnwraps
  <2> QED BY <2>1, <2>3
<1>4. ack.ackno # NoAck /\ ack.ackno = Wrap(snd.next_seqno, snd.isn) => ackno = snd.next_seqno
  BY <1>1, AckUnwraps
<1> HIDE DEF t, ackno
<1>5. Forward(snd, t) /\ t.next_seqno = snd.next_seqno /\ t.fin_sent = snd.fin_sent
  <2>1. /\ t.isn = snd.isn /\ t.next_seqno = snd.next_seqno /\ t.fin_sent = snd.fin_sent
        /\ t.input.total_pushed = snd.input.total_pushed
    BY <1>2 DEF SamePlace, SameOwner
  <2> QED BY <1>1, <1>2, <2>1, ForwardFromPosition
<1>6. snd.ackno <= t.ackno /\ t.ackno <= limit
  BY <1>1, <1>2, <1>3
<1>7. \/ snd.ackno = snd.next_seqno
      \/ ack.ackno # NoAck /\ ack.ackno = Wrap(snd.next_seqno, snd.isn)
      => t.ackno = snd.next_seqno
  <2>1. CASE snd.ackno = snd.next_seqno
    BY <1>1, <1>2, <1>3, <2>1
  <2>2. CASE ack.ackno # NoAck /\ ack.ackno = Wrap(snd.next_seqno, snd.isn)
    BY <1>1, <1>2, <1>4, <2>2
  <2> QED BY <2>1, <2>2
<1> QED BY <1>2, <1>5, <1>6, <1>7 DEF t

(* The acknowledgments of a receiver are of what it has heard.               *)
LEMMA OfReceiverBefore ==
  ASSUME NEW snd, Good(snd), NEW rcv, Heard(snd, rcv), snd.ackno <= Acked(rcv)
  PROVE  /\ Acked(rcv) \in snd.ackno .. snd.next_seqno
         /\ \A ack : OfReceiver(rcv, ack) => Before(snd, Acked(rcv), ack)
<1>1. /\ snd.next_seqno \in Nat /\ snd.ackno \in Nat
      /\ Acked(rcv) \in 0 .. snd.next_seqno
  BY GoodCounters, HeardCounters
<1>2. rcv.SYN => rcv.ISN = snd.isn /\ Acked(rcv) = AbsoluteAckno(rcv)
  BY DEF Heard, Acked
<1>3. ASSUME NEW ack, OfReceiver(rcv, ack) PROVE Before(snd, Acked(rcv), ack)
  BY <1>2, <1>3 DEF OfReceiver, Before
<1> QED BY <1>1, <1>3

(* What the receiver answers.                                                *)
LEMMA AnswerOfReceiver ==
  ASSUME NEW snd, Good(snd), NEW rcv, Heard(snd, rcv)
  PROVE  /\ Acknowledge(rcv) \in ReceiverMessage
         /\ OfReceiver(rcv, Acknowledge(rcv))
         /\ Output(rcv).closed => /\ Acknowledge(rcv).ackno # NoAck
                                  /\ Acknowledge(rcv).ackno = Wrap(snd.next_seqno, snd.isn)
<1> DEFINE out == Output(rcv)
           ackno == IF rcv.SYN THEN Wrap(AbsoluteAckno(rcv), rcv.ISN) ELSE NoAck
           size == AdvertisedWindow(rcv)
<1>1. /\ rcv \in Receiver /\ out \in Stream /\ rcv.ISN \in Wrap32
      /\ out.total_poped \in Nat /\ out.capacity \in Nat /\ out.total_pushed \in Nat
      /\ out.total_pushed <= out.total_poped + out.capacity /\ out.error \in BOOLEAN
      /\ AbsoluteAckno(rcv) \in Nat /\ AbsoluteAckno(rcv) >= 1
      /\ out.closed => rcv.SYN /\ AbsoluteAckno(rcv) = snd.next_seqno
  BY HeardCounters DEF Receiver, Stream
<1>2. rcv.SYN => rcv.ISN = snd.isn
  BY DEF Heard
<1>3. ackno \in Wrap32 \cup {NoAck}
  BY <1>1, WrapType
<1>4. size \in 0 .. MAX_WINDOW
  BY <1>1, WindowAssumption DEF AdvertisedWindow, AvailableCapacity, Least
<1>5. Wrap(AbsoluteAckno(rcv), rcv.ISN) # NoAck
  <2>1. Wrap(AbsoluteAckno(rcv), rcv.ISN) \in Wrap32
    BY <1>1, WrapType
  <2> QED BY <2>1, ModulusAssumption DEF Wrap32, NoAck
<1>6. Acknowledge(rcv) = [ackno |-> ackno, window_size |-> size, RST |-> out.error]
  BY DEF Acknowledge
<1> HIDE DEF ackno, size, out
<1>7. Acknowledge(rcv) \in ReceiverMessage /\ Acknowledge(rcv).ackno = ackno
  BY <1>1, <1>3, <1>4, <1>6 DEF ReceiverMessage
<1>8. OfReceiver(rcv, Acknowledge(rcv))
  BY <1>1, <1>7 DEF OfReceiver, ackno
<1>9. out.closed => ackno # NoAck /\ ackno = Wrap(snd.next_seqno, snd.isn)
  BY <1>1, <1>2, <1>5 DEF ackno
<1> QED BY <1>7, <1>8, <1>9 DEF out
-----------------------------------------------------------------------------
(* What a segment, a reset and the reader do to a receiver.                  *)

(* The segment that opens the receiver is the SYN of the sender.             *)
LEMMA HearSyn ==
  ASSUME NEW snd, Good(snd), NEW rcv, Heard(snd, rcv),
         NEW msg \in SenderMessage, OfStream(snd, msg)
  PROVE  LET opened == IF msg.SYN /\ ~rcv.SYN
                       THEN [rcv EXCEPT !.SYN = TRUE, !.ISN = msg.seqno] ELSE rcv
         IN  /\ Heard(snd, opened) /\ Later(rcv, opened) /\ Output(opened) = Output(rcv)
             /\ opened.reassembler = rcv.reassembler
<1> DEFINE opened == IF msg.SYN /\ ~rcv.SYN
                     THEN [rcv EXCEPT !.SYN = TRUE, !.ISN = msg.seqno] ELSE rcv
<1>1. rcv \in Receiver /\ snd.isn \in Wrap32 /\ Output(rcv).total_pushed \in Nat
  BY GoodCounters, HeardCounters
<1>2. CASE msg.SYN /\ ~rcv.SYN
  <2>1. msg.seqno = snd.isn /\ snd.syn_sent
    <3>1. msg.seqno = Wrap(0, snd.isn) /\ snd.syn_sent
      BY <1>2 DEF OfStream
    <3>2. snd.isn \in Int /\ 0 <= snd.isn /\ snd.isn < Modulus /\ Modulus \in Nat \ {0}
          /\ snd.isn + 0 = snd.isn
      BY <1>1, ModulusAssumption DEF Wrap32
    <3>3. snd.isn % Modulus = snd.isn
      BY <3>2, RemainderNear
    <3> QED BY <3>1, <3>2, <3>3 DEF Wrap
  <2>2. opened = [rcv EXCEPT !.SYN = TRUE, !.ISN = snd.isn]
    BY <1>2, <2>1
  <2> HIDE DEF opened
  <2>3. /\ opened \in Receiver /\ opened.SYN /\ opened.ISN = snd.isn
        /\ opened.reassembler = rcv.reassembler /\ Output(opened) = Output(rcv)
    BY <1>1, <2>2 DEF Receiver, Output
  <2>4. Heard(snd, opened)
    BY <2>1, <2>3 DEF Heard
  <2>5. Later(rcv, opened)
    BY <1>1, <1>2, <2>3 DEF Later
  <2> QED BY <2>3, <2>4, <2>5 DEF opened
<1>3. CASE ~(msg.SYN /\ ~rcv.SYN)
  <2>1. opened = rcv
    BY <1>3
  <2> HIDE DEF opened
  <2>2. Later(rcv, opened)
    BY <1>1, <2>1 DEF Later
  <2> QED BY <2>1, <2>2 DEF opened
<1> QED BY <1>2, <1>3

(* Where the payload of a segment of the stream belongs.                     *)
LEMMA IndexOfStream ==
  ASSUME NEW snd, Good(snd), snd.next_seqno < HalfModulus,
         snd.input.total_poped < IndexModulus,
         NEW rcv, Heard(snd, rcv), rcv.SYN,
         NEW msg \in SenderMessage, OfStream(snd, msg)
  PROVE  LET index == StreamIndex(rcv, msg)
             stop  == index + Len(msg.payload)
         IN  /\ index \in Nat /\ StreamBytes(msg.payload, index)
             /\ msg.payload # <<>> => stop <= snd.input.total_poped
             /\ msg.FIN => snd.fin_sent /\ stop = snd.input.total_poped
<1> DEFINE index == StreamIndex(rcv, msg)
           len   == Len(msg.payload)
           poped == snd.input.total_poped
           pushed == Output(rcv).total_pushed
           next  == snd.next_seqno
<1>1. /\ len \in Nat /\ poped \in Nat /\ next \in Nat /\ next < HalfModulus
      /\ pushed \in 0 .. poped /\ snd.isn \in Wrap32 /\ rcv.ISN = snd.isn
      /\ msg.seqno \in Wrap32 /\ msg.SYN \in BOOLEAN /\ snd.fin_sent \in BOOLEAN
      /\ HalfModulus \in Int
  <2>1. rcv.ISN = snd.isn
    BY DEF Heard
  <2>2. len \in Nat /\ msg.seqno \in Wrap32 /\ msg.SYN \in BOOLEAN
    BY DEF SenderMessage
  <2> QED BY <2>1, <2>2, GoodCounters, HeardCounters, ModulusAssumption DEF HalfModulus
<1>2. poped + 1 <= next
  <2>1. snd.syn_sent
    BY DEF Heard
  <2> QED BY <1>1, <2>1, GoodCounters
<1>3. PICK p \in 0 .. next :
        /\ msg.seqno = Wrap(p, snd.isn)
        /\ msg.SYN => p = 0 /\ snd.syn_sent
        /\ ~msg.SYN /\ (msg.payload # <<>> \/ msg.FIN) => p > 0
        /\ \A j \in 1 .. len : msg.payload[j] = p + Count(msg.SYN) + j - 1
        /\ msg.payload # <<>> => p + Count(msg.SYN) + len <= poped + 1
        /\ msg.FIN => snd.fin_sent /\ p + Count(msg.SYN) + len = poped + 1
  BY DEF OfStream
<1>4. CASE msg.SYN
  <2>1. index = 0 /\ p = 0 /\ Count(msg.SYN) = 1
    BY <1>3, <1>4 DEF StreamIndex, Count
  <2> HIDE DEF index, len, poped, next
  <2>2. /\ \A j \in 1 .. len : msg.payload[j] = index + j
        /\ msg.payload # <<>> => index + len <= poped
        /\ msg.FIN => snd.fin_sent /\ index + len = poped
    <3>1. \A j \in 1 .. len : 0 + 1 + j - 1 = 0 + j
      BY <1>1
    <3>2. \A j \in 1 .. len : msg.payload[j] = index + j
      BY <1>3, <2>1, <3>1
    <3>3. msg.payload # <<>> => index + len <= poped
      BY <1>1, <1>3, <2>1
    <3>4. msg.FIN => snd.fin_sent /\ index + len = poped
      BY <1>1, <1>3, <2>1
    <3> QED BY <3>2, <3>3, <3>4
  <2> QED BY <2>1, <2>2 DEF index, len, poped, StreamBytes
<1>5. CASE ~msg.SYN
  <2>1. Unwrap(msg.seqno, rcv.ISN, pushed + 1) = p
    <3>1. p \in Nat /\ pushed + 1 \in Nat /\ Distance(p, pushed + 1) < HalfModulus
      <4> HIDE DEF pushed, poped, next
      <4> QED BY <1>1, <1>2 DEF Distance
    <3> HIDE DEF pushed, next
    <3> QED BY <1>1, <1>3, <3>1, UnwrapRoundTrip
  <2>2. index = (p - 1) % IndexModulus /\ Count(msg.SYN) = 0
    BY <1>5, <2>1 DEF StreamIndex, Count
  <2>3. index \in Nat
    BY <1>1, <2>2, IndexAssumption
  <2>4. CASE msg.payload = <<>> /\ ~msg.FIN
    <3>1. StreamBytes(msg.payload, index)
      BY <2>4 DEF StreamBytes
    <3> QED BY <2>3, <2>4, <3>1
  <2>5. CASE msg.payload # <<>> \/ msg.FIN
    <3>1. p > 0 /\ p + 0 + len <= poped + 1
      BY <1>1, <1>3, <1>5, <2>2, <2>5
    <3>2. p - 1 \in Int /\ 0 <= p - 1 /\ p - 1 < IndexModulus /\ IndexModulus \in Nat \ {0}
      BY SMTT(60), <1>1, <3>1, IndexAssumption
    <3>3. index = p - 1
      BY <2>2, <3>2, RemainderNear
    <3>4. \A j \in 1 .. len : msg.payload[j] = p + 0 + j - 1 /\ p + 0 + j - 1 = p - 1 + j
      BY <1>1, <1>3, <2>2, <3>1
    <3> HIDE DEF index, poped, next
    <3>5. \A j \in 1 .. len : msg.payload[j] = index + j
      BY <3>3, <3>4
    <3>6. msg.payload # <<>> => index + len <= poped
      BY <1>1, <1>3, <2>2, <3>1, <3>3
    <3>7. msg.FIN => snd.fin_sent /\ index + len = poped
      <4>1. msg.FIN => snd.fin_sent /\ p + 0 + len = poped + 1
        BY <1>3, <2>2
      <4>2. p + 0 + len = poped + 1 => p - 1 + len = poped
        BY <1>1
      <4> QED BY <3>3, <4>1, <4>2, Zenon
    <3>8. StreamBytes(msg.payload, index)
      BY <3>5 DEF StreamBytes
    <3> QED BY <2>3, <3>6, <3>7, <3>8 DEF index, poped
  <2> QED BY <2>4, <2>5
<1> QED BY <1>4, <1>5

(* What the Reassembler takes in is of the stream, and leaves it in order.   *)
LEMMA HearPayload ==
  ASSUME NEW snd, Good(snd), snd.next_seqno < HalfModulus,
         snd.input.total_poped < IndexModulus,
         NEW rcv, Heard(snd, rcv), rcv.SYN,
         NEW msg \in SenderMessage, OfStream(snd, msg)
  PROVE  LET next == [rcv EXCEPT !.reassembler =
                        Insert(@, StreamIndex(rcv, msg), msg.payload, msg.FIN)]
         IN  /\ Heard(snd, next) /\ Later(rcv, next)
             /\ next.reassembler.eof_received => rcv.reassembler.eof_received \/ msg.FIN
             /\ Output(next).total_poped = Output(rcv).total_poped
             /\ Output(next).error = Output(rcv).error
<1> DEFINE r     == rcv.reassembler
           out   == r.output
           index == StreamIndex(rcv, msg)
           data  == msg.payload
           last  == msg.FIN
           stop  == index + Len(data)
           poped == snd.input.total_poped
           t     == Insert(r, index, data, last)
           next  == [rcv EXCEPT !.reassembler = Insert(@, index, data, last)]
<1>1. /\ rcv \in Receiver /\ r \in Reassembler /\ r \in Ordered(out, 1) /\ Faithful(r)
      /\ rcv.ISN = snd.isn /\ snd.syn_sent
      /\ Known(r) \subseteq 0 .. poped - 1
      /\ r.eof_received => snd.fin_sent /\ r.eof_index = poped
      /\ out.closed => r.eof_received /\ out.total_pushed = r.eof_index
      /\ out \in Stream /\ out.total_pushed \in Nat /\ Output(rcv) = out
  BY DEF Heard, Receiver, Reassembler, Stream, Output
<1>2. poped \in Nat /\ poped < IndexModulus
  BY GoodCounters
<1>3. /\ index \in Nat /\ StreamBytes(data, index)
      /\ data # <<>> => stop <= poped
      /\ last => snd.fin_sent /\ stop = poped
  BY IndexOfStream
<1>4. data \in Seq(Byte) /\ last \in BOOLEAN /\ Len(data) \in Nat
      /\ (data = <<>> => Len(data) = 0)
  BY DEF SenderMessage
<1>5. next = [rcv EXCEPT !.reassembler = t]
  OBVIOUS
<1> HIDE DEF r, index, data, last, poped
<1>6. stop \in Nat /\ stop = index + Len(data) /\ index <= stop
      /\ (data = <<>> => stop = index)
  BY <1>3, <1>4
<1> HIDE DEF stop
<1>7. data # <<>> \/ last => stop < IndexModulus
  BY <1>2, <1>3, <1>6, IndexAssumption
<1>8. /\ t \in Ordered(out, 1) /\ Faithful(t)
      /\ Known(t) = Known(r) \cup ((index .. stop - 1) \cap WithinCapacity(out))
      /\ t.eof_received = (r.eof_received \/ last)
      /\ t.eof_index = IF last THEN stop ELSE r.eof_index
      /\ t.output.closed =
           (out.closed \/ (t.eof_received /\ t.output.total_pushed = t.eof_index))
  BY <1>1, <1>3, <1>4, <1>6, <1>7, InsertFaithful
<1> HIDE DEF t
<1>9. t \in Ordered(t.output, 1) /\ t \in Reassembler
  <2>1. t \in Ordered(out, 1) /\ out \in Stream
    BY <1>1, <1>8
  <2>2. t \in Ordered(t.output, 1)
    BY <2>1, OrderedSelf
  <2> QED BY <2>1, <2>2 DEF Ordered
<1>10. /\ out.total_pushed <= t.output.total_pushed
       /\ out.closed => t.output.closed
       /\ t.output.total_poped = out.total_poped /\ t.output.error = out.error
  BY <1>8 DEF Ordered, Onward
<1>11. Known(t) \subseteq 0 .. poped - 1
  <2>1. index .. stop - 1 \subseteq 0 .. poped - 1
    BY <1>2, <1>3, <1>6
  <2> QED BY <1>1, <1>8, <2>1
<1>12. t.eof_received => snd.fin_sent /\ t.eof_index = poped
  <2>1. CASE last
    BY <1>3, <1>8, <2>1
  <2>2. CASE ~last
    BY <1>1, <1>8, <2>2
  <2> QED BY <2>1, <2>2
<1>13. t.output.closed => t.eof_received /\ t.output.total_pushed = t.eof_index
  <2>1. CASE t.eof_received /\ t.output.total_pushed = t.eof_index
    BY <2>1
  <2>2. CASE ~(t.eof_received /\ t.output.total_pushed = t.eof_index)
    <3> SUFFICES ASSUME t.output.closed PROVE FALSE
      BY <2>2
    <3>1. out.closed
      BY <1>8, <2>2
    <3>2. t.eof_received /\ t.eof_index = poped /\ out.total_pushed = poped
      BY <1>1, <1>8, <1>12, <3>1
    <3>3. t.output.total_pushed \in 0 .. poped
      BY <1>1, <1>2, <1>8, <1>9, <1>11, FirstGap
    <3>4. t.output.total_pushed = poped
      BY <1>2, <1>10, <3>2, <3>3
    <3> QED BY <2>2, <3>2, <3>4
  <2> QED BY <2>1, <2>2
<1> HIDE DEF next
<1>14. /\ next \in Receiver /\ next.reassembler = t /\ next.SYN /\ next.ISN = rcv.ISN
       /\ Output(next) = t.output
  BY <1>1, <1>5, <1>9 DEF Receiver, Output
<1>15. Heard(snd, next)
  BY <1>1, <1>8, <1>9, <1>11, <1>12, <1>13, <1>14 DEF Heard, poped
<1>16. Later(rcv, next)
  BY <1>1, <1>8, <1>10, <1>14 DEF Later, r
<1> QED BY <1>1, <1>8, <1>10, <1>14, <1>15, <1>16 DEF next, r, index, data, last

(* A reader that changes nothing but what it takes or the error.             *)
LEMMA SameStream ==
  ASSUME NEW snd, NEW rcv, Heard(snd, rcv), NEW r, NEW next,
         next = [rcv EXCEPT !.reassembler = r],
         r \in Reassembler, r \in Ordered(r.output, 1), Faithful(r),
         Known(r) = Known(rcv.reassembler),
         r.eof_received = rcv.reassembler.eof_received,
         r.eof_index = rcv.reassembler.eof_index,
         r.output.closed = Output(rcv).closed,
         r.output.total_pushed = Output(rcv).total_pushed
  PROVE  Heard(snd, next) /\ Later(rcv, next)
<1>1. rcv \in Receiver /\ Output(rcv) = rcv.reassembler.output
      /\ Output(rcv).total_pushed \in Nat
  BY DEF Heard, Output, Receiver, Reassembler, Stream
<1>2. /\ next \in Receiver /\ next.reassembler = r /\ next.SYN = rcv.SYN /\ next.ISN = rcv.ISN
      /\ Output(next) = r.output
  BY <1>1 DEF Receiver, Output
<1>3. Heard(snd, next)
  BY <1>1, <1>2 DEF Heard
<1>4. Later(rcv, next)
  BY <1>1, <1>2 DEF Later
<1> QED BY <1>3, <1>4

(* An error of the inbound stream.                                           *)
LEMMA HearReset ==
  ASSUME NEW snd, NEW rcv, Heard(snd, rcv)
  PROVE  LET next == [rcv EXCEPT !.reassembler.output = SetError(@)]
         IN  /\ Heard(snd, next) /\ Later(rcv, next)
             /\ next.reassembler.eof_received = rcv.reassembler.eof_received
             /\ Output(next).total_poped = Output(rcv).total_poped /\ Output(next).error
<1> DEFINE r    == rcv.reassembler
           out  == r.output
           t    == [r EXCEPT !.output = SetError(out)]
           next == [rcv EXCEPT !.reassembler.output = SetError(@)]
<1>1. /\ rcv \in Receiver /\ r \in Reassembler /\ r \in Ordered(out, 1) /\ Faithful(r)
      /\ out \in Stream /\ Output(rcv) = out
  BY DEF Heard, Receiver, Reassembler, Output
<1>2. next = [rcv EXCEPT !.reassembler = t]
  BY <1>1 DEF Receiver, Reassembler
<1>3. /\ SetError(out) \in Stream
      /\ SetError(out).buffer = out.buffer /\ SetError(out).closed = out.closed
      /\ SetError(out).total_pushed = out.total_pushed
      /\ SetError(out).total_poped = out.total_poped
      /\ SetError(out).capacity = out.capacity /\ SetError(out).error
  BY <1>1 DEF SetError, Stream
<1>4. /\ t \in Reassembler /\ t.output = SetError(out) /\ t.filled = r.filled
      /\ t.ring = r.ring /\ t.front_pos = r.front_pos
      /\ t.first_unassembled = r.first_unassembled /\ t.pending_bytes = r.pending_bytes
      /\ t.eof_received = r.eof_received /\ t.eof_index = r.eof_index
  BY <1>1, <1>3 DEF Reassembler
<1> HIDE DEF r, t, next
<1>5. t \in Ordered(t.output, 1)
  BY <1>1, <1>3, <1>4 DEF Ordered, Onward
<1>6. Known(t) = Known(r)
  BY <1>3, <1>4 DEF Known
<1>7. Faithful(t)
  BY <1>1, <1>3, <1>4, <1>6 DEF Faithful, RingHolds, Slot
<1>8. Heard(snd, next) /\ Later(rcv, next)
  BY <1>1, <1>2, <1>3, <1>4, <1>5, <1>6, <1>7, SameStream DEF r
<1>9. next.reassembler = t /\ Output(next) = t.output
  BY <1>1, <1>2 DEF Receiver, Output
<1> QED BY <1>1, <1>3, <1>4, <1>8, <1>9 DEF next, r

(* receive: the receiver has heard of no more than was sent.                 *)
LEMMA HearSegment ==
  ASSUME NEW snd, Good(snd), snd.next_seqno < HalfModulus,
         snd.input.total_poped < IndexModulus,
         NEW rcv, Heard(snd, rcv),
         NEW msg \in SenderMessage, OfStream(snd, msg)
  PROVE  LET next == ReceiveSegment(rcv, msg)
         IN  /\ Heard(snd, next) /\ Later(rcv, next)
             /\ next.reassembler.eof_received => rcv.reassembler.eof_received \/ msg.FIN
             /\ Output(next).total_poped = Output(rcv).total_poped
             /\ Output(next).error = (Output(rcv).error \/ msg.RST)
<1> DEFINE opened == IF msg.SYN /\ ~rcv.SYN
                     THEN [rcv EXCEPT !.SYN = TRUE, !.ISN = msg.seqno] ELSE rcv
           next == ReceiveSegment(rcv, msg)
<1>1. /\ Heard(snd, opened) /\ Later(rcv, opened) /\ opened.reassembler = rcv.reassembler
      /\ Output(opened) = Output(rcv)
  BY HearSyn
<1>2. next = IF msg.RST THEN [opened EXCEPT !.reassembler.output = SetError(@)]
             ELSE IF ~opened.SYN THEN opened
             ELSE [opened EXCEPT !.reassembler =
                     Insert(@, StreamIndex(opened, msg), msg.payload, msg.FIN)]
  BY DEF ReceiveSegment
<1> HIDE DEF opened, next
<1>3. /\ Heard(snd, next) /\ Later(opened, next)
      /\ next.reassembler.eof_received => opened.reassembler.eof_received \/ msg.FIN
      /\ Output(next).total_poped = Output(opened).total_poped
      /\ Output(next).error = (Output(opened).error \/ msg.RST)
  <2>0. Output(opened).total_pushed \in Nat /\ Output(opened).error \in BOOLEAN
    BY <1>1, HeardCounters DEF Stream
  <2>1. CASE msg.RST
    <3>1. next = [opened EXCEPT !.reassembler.output = SetError(@)]
      BY <1>2, <2>1
    <3>2. /\ Heard(snd, next) /\ Later(opened, next)
          /\ next.reassembler.eof_received = opened.reassembler.eof_received
          /\ Output(next).total_poped = Output(opened).total_poped /\ Output(next).error
      BY <1>1, <3>1, HearReset
    <3>3. Output(next).error \in BOOLEAN
      BY <3>2, HeardCounters DEF Stream
    <3> QED BY <2>1, <3>2, <3>3
  <2>2. CASE ~msg.RST /\ ~opened.SYN
    <3>1. next = opened
      BY <1>2, <2>2
    <3> QED BY <1>1, <2>0, <2>2, <3>1 DEF Later
  <2>3. CASE ~msg.RST /\ opened.SYN
    <3>1. next = [opened EXCEPT !.reassembler =
                    Insert(@, StreamIndex(opened, msg), msg.payload, msg.FIN)]
      BY <1>2, <2>3
    <3>2. /\ Heard(snd, next) /\ Later(opened, next)
          /\ next.reassembler.eof_received => opened.reassembler.eof_received \/ msg.FIN
          /\ Output(next).total_poped = Output(opened).total_poped
          /\ Output(next).error = Output(opened).error
      BY <1>1, <2>3, <3>1, HearPayload
    <3> QED BY <2>0, <2>3, <3>2
  <2> QED BY <2>1, <2>2, <2>3
<1>4. Later(rcv, next)
  <2>1. /\ Output(rcv).total_pushed \in Nat /\ Output(opened).total_pushed \in Nat
        /\ Output(next).total_pushed \in Nat
    BY <1>1, <1>3, HeardCounters
  <2> QED BY <1>1, <1>3, <2>1 DEF Later
<1> QED BY <1>1, <1>3, <1>4 DEF next

(* The owner reads.                                                          *)
LEMMA HearRead ==
  ASSUME NEW snd, NEW rcv, Heard(snd, rcv), NEW n \in 1 .. BytesBuffered(Output(rcv))
  PROVE  LET next == [rcv EXCEPT !.reassembler.output = PopBytes(@, n)]
         IN  /\ Heard(snd, next) /\ Later(rcv, next)
             /\ next.reassembler.eof_received = rcv.reassembler.eof_received
             /\ Output(next).closed = Output(rcv).closed
             /\ AbsoluteAckno(next) = AbsoluteAckno(rcv)
             /\ Acknowledge(next).ackno = Acknowledge(rcv).ackno
<1> DEFINE r    == rcv.reassembler
           out  == r.output
           less == PopBytes(out, n)
           t    == [r EXCEPT !.output = less]
           next == [rcv EXCEPT !.reassembler.output = PopBytes(@, n)]
<1>1. /\ rcv \in Receiver /\ r \in Reassembler /\ r \in Ordered(out, 1) /\ Faithful(r)
      /\ out \in Stream /\ Output(rcv) = out
      /\ out.total_pushed \in Nat /\ out.total_poped \in Nat
  BY DEF Heard, Receiver, Reassembler, Output, Stream
<1>2. next = [rcv EXCEPT !.reassembler = t]
  BY <1>1 DEF Receiver, Reassembler
<1>3. n \in Nat /\ n <= out.total_pushed - out.total_poped
  BY <1>1 DEF BytesBuffered
<1>4. /\ less \in Stream /\ less.buffer = SubSeq(out.buffer, n + 1, Len(out.buffer))
      /\ less.closed = out.closed /\ less.total_pushed = out.total_pushed
      /\ less.total_poped = out.total_poped + n /\ less.capacity = out.capacity
  <2>1. less.buffer = SubSeq(out.buffer, n + 1, Len(out.buffer))
    BY <1>1 DEF PopBytes, Stream
  <2> QED BY <1>1, <1>3, <2>1, PopBytesKeeps
<1>5. /\ t \in Reassembler /\ t.output = less /\ t.filled = r.filled
      /\ t.ring = r.ring /\ t.front_pos = r.front_pos
      /\ t.first_unassembled = r.first_unassembled /\ t.pending_bytes = r.pending_bytes
      /\ t.eof_received = r.eof_received /\ t.eof_index = r.eof_index
  BY <1>1, <1>4 DEF Reassembler
<1>6. next.reassembler = t /\ Output(next) = less /\ next.SYN = rcv.SYN /\ next.ISN = rcv.ISN
  BY <1>1, <1>2, <1>5 DEF Receiver, Output
<1>7. t \in Ordered(t.output, 1)
  <2>1. next.reassembler \in Ordered(Output(next), 1)
    BY <1>1, ReadKeeps
  <2> QED BY <1>5, <1>6, <2>1
<1> HIDE DEF r, t, next, less
<1>8. Known(t) = Known(r)
  BY <1>4, <1>5 DEF Known
<1>9. less.buffer = Bytes(less.total_poped, less.total_pushed)
  <2> DEFINE p == out.total_poped
             q == out.total_pushed
  <2>1. /\ p \in Nat /\ q \in Nat /\ n <= q - p
        /\ less.total_poped = p + n /\ less.total_pushed = q
        /\ less.buffer = SubSeq(Bytes(p, q), n + 1, Len(Bytes(p, q)))
    BY <1>1, <1>3, <1>4 DEF Faithful
  <2> HIDE DEF p, q
  <2>2. SubSeq(Bytes(p, q), n + 1, Len(Bytes(p, q))) = Bytes(p + n, q)
    BY ZenonT(60), <1>3, <2>1, BytesRest
  <2> QED BY <2>1, <2>2
<1>10. less.total_poped <= less.total_pushed
  BY <1>1, <1>3, <1>4
<1>11. Faithful(t)
  BY <1>1, <1>4, <1>5, <1>8, <1>9, <1>10 DEF Faithful, RingHolds, Slot
<1>12. Heard(snd, next) /\ Later(rcv, next)
  BY <1>1, <1>2, <1>4, <1>5, <1>7, <1>8, <1>11, SameStream DEF r
<1>13. AbsoluteAckno(next) = AbsoluteAckno(rcv)
  BY <1>1, <1>4, <1>6 DEF AbsoluteAckno
<1>14. Acknowledge(next).ackno = Acknowledge(rcv).ackno
  BY <1>6, <1>13 DEF Acknowledge
<1> QED BY <1>1, <1>4, <1>5, <1>6, <1>12, <1>13, <1>14 DEF next, r
-----------------------------------------------------------------------------
(* What is transmitted by a peer.                                            *)

(* A segment goes out with the receiver's answer.                            *)
LEMMA OutgoingTogether ==
  ASSUME NEW other, Good(other), NEW rcv, Heard(other, rcv),
         NEW snd, NEW msgs \in Seq(SenderMessage),
         \A i \in 1 .. Len(msgs) : OfStream(snd, msgs[i])
  PROVE  LET out == Outgoing(msgs, rcv)
         IN  /\ out \in Seq(Message)
             /\ \A i \in 1 .. Len(out) : /\ OfStream(snd, out[i].sender)
                                         /\ out[i].receiver.ackno = Acknowledge(rcv).ackno
<1> DEFINE out == Outgoing(msgs, rcv)
           ack == Acknowledge(rcv)
<1>1. ack \in ReceiverMessage
  BY AnswerOfReceiver
<1>2. Len(msgs) \in Nat /\ out = [i \in 1 .. Len(msgs) |-> OnWire(msgs[i], rcv)]
  BY DEF Outgoing
<1>3. ASSUME NEW i \in 1 .. Len(msgs)
      PROVE  LET wire == OnWire(msgs[i], rcv)
             IN  /\ wire \in Message /\ OfStream(snd, wire.sender)
                 /\ wire.receiver.ackno = ack.ackno
  <2> DEFINE msg   == msgs[i]
             reset == msg.RST \/ ack.RST
             wire  == OnWire(msgs[i], rcv)
  <2>1. wire = [sender |-> [msg EXCEPT !.RST = reset], receiver |-> [ack EXCEPT !.RST = reset]]
    BY DEF OnWire
  <2>2. msg \in SenderMessage /\ OfStream(snd, msg) /\ msg.RST \in BOOLEAN /\ ack.RST \in BOOLEAN
    <3>1. msgs[i] \in SenderMessage /\ OfStream(snd, msgs[i])
      OBVIOUS
    <3> QED BY <1>1, <3>1 DEF SenderMessage, ReceiverMessage
  <2>3. reset \in BOOLEAN
    OBVIOUS
  <2> HIDE DEF msg, ack, reset, wire
  <2>4. /\ wire.sender \in SenderMessage /\ wire.sender.seqno = msg.seqno
        /\ wire.sender.SYN = msg.SYN /\ wire.sender.payload = msg.payload
        /\ wire.sender.FIN = msg.FIN
    BY <2>1, <2>2, <2>3 DEF SenderMessage
  <2>5. wire.receiver \in ReceiverMessage /\ wire.receiver.ackno = ack.ackno
    BY <1>1, <2>1, <2>3 DEF ReceiverMessage
  <2>6. wire \in Message
    BY <2>1, <2>4, <2>5 DEF Message
  <2>7. OfStream(snd, wire.sender)
    BY <2>2, <2>4 DEF OfStream
  <2> QED BY <2>5, <2>6, <2>7 DEF wire
<1> HIDE DEF out, ack
<1>4. out \in Seq(Message) /\ Len(out) = Len(msgs)
  <2>1. out \in [1 .. Len(msgs) -> Message]
    BY <1>2, <1>3
  <2> QED BY <1>2, <2>1
<1>5. ASSUME NEW i \in 1 .. Len(out)
      PROVE  OfStream(snd, out[i].sender) /\ out[i].receiver.ackno = ack.ackno
  <2>1. i \in 1 .. Len(msgs) /\ out[i] = OnWire(msgs[i], rcv)
    BY <1>2, <1>4
  <2> QED BY <1>3, <2>1
<1> QED BY <1>4, <1>5 DEF out, ack

(* An empty segment stands at the position of the sender.                    *)
LEMMA EmptyOfStream ==
  ASSUME NEW snd, Good(snd)
  PROVE  MakeEmptyMessage(snd) \in SenderMessage /\ OfStream(snd, MakeEmptyMessage(snd))
<1> DEFINE msg == MakeEmptyMessage(snd)
<1>1. snd \in Sender /\ snd.next_seqno \in Nat /\ snd.isn \in Wrap32 /\ HasError(snd) \in BOOLEAN
  BY GoodCounters DEF HasError, Stream
<1>2. /\ msg.seqno = Wrap(snd.next_seqno, snd.isn) /\ msg.SYN = FALSE /\ msg.FIN = FALSE
      /\ msg.payload = <<>>
      /\ msg = [seqno |-> Wrap(snd.next_seqno, snd.isn), SYN |-> FALSE, payload |-> <<>>,
                FIN |-> FALSE, RST |-> HasError(snd)]
  BY DEF MakeEmptyMessage
<1>3. Wrap(snd.next_seqno, snd.isn) \in Wrap32 /\ <<>> \in Seq(Byte)
  BY <1>1, WrapType
<1> HIDE DEF msg
<1>4. msg \in SenderMessage
  BY <1>1, <1>2, <1>3 DEF SenderMessage
<1>5. snd.next_seqno \in 0 .. snd.next_seqno
  BY <1>1
<1>6. OfStream(snd, msg)
  BY <1>2, <1>5 DEF OfStream
<1> QED BY <1>4, <1>6 DEF msg

(* All is acknowledged exactly if nothing is in flight.                      *)
LEMMA NothingInFlight ==
  ASSUME NEW snd, Good(snd)
  PROVE  snd.flight = 0 <=> snd.ackno = snd.next_seqno
<1>1. PICK pos : Layout(snd, pos) /\ Settled(snd, pos)
  BY DEF Good
<1> DEFINE n == Len(snd.outstanding)
<1>2. n \in Nat /\ snd.next_seqno \in Nat /\ snd.ackno \in Nat
  <2>1. snd.outstanding \in Seq(SenderMessage)
    BY DEF Good, Sender
  <2> QED BY <2>1, GoodCounters
<1>3. /\ pos \in [1 .. n + 1 -> Nat] /\ pos[n + 1] = snd.next_seqno
      /\ snd.flight = snd.next_seqno - pos[1]
      /\ pos[1] <= snd.ackno /\ snd.ackno <= snd.next_seqno
      /\ \A i \in 1 .. n : pos[i + 1] > snd.ackno
  BY <1>1 DEF Layout, Settled
<1> HIDE DEF n
<1>4. pos[1] \in Nat
  BY <1>2, <1>3
<1>5. snd.ackno = snd.next_seqno => pos[1] = snd.next_seqno
  <2>1. CASE n = 0
    BY <1>3, <2>1
  <2>2. CASE n # 0
    <3>1. n \in 1 .. n
      BY <1>2, <2>2
    <3>2. pos[n + 1] > snd.ackno
      BY <1>3, <3>1
    <3> QED BY <1>2, <1>3, <3>2
  <2> QED BY <2>1, <2>2
<1> QED BY <1>2, <1>3, <1>4, <1>5
-----------------------------------------------------------------------------
(* What a call does to a peer.                                               *)

\* The peer p gets the segments of the sender other, and its own are heard up to
\* the position limit.
Between(p, other, limit) ==
  /\ p \in Peer /\ Good(p.sender) /\ Carries(p.sender) /\ Good(other)
  /\ Heard(other, p.receiver) /\ limit \in p.sender.ackno .. p.sender.next_seqno

\* A call made p into q, and out was transmitted: its halves have moved forward.
Moved(p, q, out, other, limit) ==
  /\ q \in Peer /\ out \in Seq(Message)
  /\ Good(q.sender) /\ Carries(q.sender)
  /\ Forward(p.sender, q.sender) /\ SameOwner(p.sender, q.sender)
  /\ Heard(other, q.receiver) /\ Later(p.receiver, q.receiver)
  /\ p.sender.ackno <= q.sender.ackno /\ q.sender.ackno <= limit
  /\ \A i \in 1 .. Len(out) : /\ OfStream(q.sender, out[i].sender)
                              /\ out[i].receiver.ackno = Acknowledge(q.receiver).ackno

(* Nothing moves back where nothing is done.                                 *)
LEMMA StandsStill ==
  ASSUME NEW snd, Good(snd), NEW other, Good(other), NEW rcv, Heard(other, rcv)
  PROVE  Forward(snd, snd) /\ SameOwner(snd, snd) /\ Later(rcv, rcv)
<1>1. snd.next_seqno \in Nat /\ snd.input.total_pushed \in Nat
  BY GoodCounters
<1>2. Output(rcv).total_pushed \in Nat
  BY HeardCounters
<1> QED BY <1>1, <1>2, ForwardFromPosition DEF SameOwner, Later

(* A call that leaves the receiver alone, and the acknowledged position.     *)
LEMMA SenderMoved ==
  ASSUME NEW p, NEW other, NEW limit, Between(p, other, limit),
         NEW q \in Peer, q.receiver = p.receiver,
         Good(q.sender), Carries(q.sender), Forward(p.sender, q.sender),
         SameOwner(p.sender, q.sender), q.sender.ackno = p.sender.ackno,
         NEW msgs \in Seq(SenderMessage),
         \A i \in 1 .. Len(msgs) : OfStream(q.sender, msgs[i])
  PROVE  Moved(p, q, Outgoing(msgs, p.receiver), other, limit)
<1> DEFINE out == Outgoing(msgs, p.receiver)
           snd == q.sender
           rcv == p.receiver
<1>1. /\ Good(p.sender) /\ Good(other) /\ Heard(other, rcv)
      /\ p.sender.ackno <= limit
  BY GoodCounters DEF Between
<1>2. Later(rcv, rcv) /\ p.sender.ackno \in Nat
  BY <1>1, StandsStill, GoodCounters
<1>3. /\ out \in Seq(Message)
      /\ \A i \in 1 .. Len(out) : /\ OfStream(snd, out[i].sender)
                                  /\ out[i].receiver.ackno = Acknowledge(rcv).ackno
  <2>1. \A i \in 1 .. Len(msgs) : OfStream(snd, msgs[i])
    OBVIOUS
  <2> HIDE DEF snd, rcv
  <2>2. Outgoing(msgs, rcv) = out
    BY DEF rcv
  <2> HIDE DEF out
  <2> QED BY <1>1, <2>1, <2>2, OutgoingTogether
<1> HIDE DEF out
<1>4. Moved(p, q, out, other, limit)
  BY <1>1, <1>2, <1>3 DEF Moved
<1> QED BY <1>4 DEF out

(* push                                                                      *)
LEMMA PushMoved ==
  ASSUME NEW p, NEW other, NEW limit, Between(p, other, limit)
  PROVE  LET call == PeerPush(p)
         IN  /\ Moved(p, call.peer, call.out, other, limit)
             /\ Finished(call.peer.sender) /\ call.peer.receiver = p.receiver
             /\ call.peer.linger_after_streams_finish = p.linger_after_streams_finish
             /\ call.peer.sender.ackno = p.sender.ackno
<1> DEFINE call == PeerPush(p)
           t    == Push(p.sender).snd
           msgs == Push(p.sender).out
           q    == [p EXCEPT !.sender = t]
<1>1. p \in Peer /\ Good(p.sender) /\ Carries(p.sender)
  BY DEF Between
<1>2. /\ Good(t) /\ Carries(t) /\ Finished(t)
      /\ SameOwner(p.sender, t) /\ Forward(p.sender, t) /\ t.ackno = p.sender.ackno
      /\ msgs \in Seq(SenderMessage)
      /\ \A i \in 1 .. Len(msgs) : OfStream(t, msgs[i])
  BY <1>1, PushSends
<1>3. call = [peer |-> q, out |-> Outgoing(msgs, p.receiver)]
  BY DEF PeerPush
<1> HIDE DEF t, msgs, call
<1>4. t \in Sender
  BY <1>2, GoodCounters
<1>5. /\ q \in Peer /\ q.sender = t /\ q.receiver = p.receiver
      /\ q.linger_after_streams_finish = p.linger_after_streams_finish
  BY <1>1, <1>4 DEF Peer
<1> HIDE DEF q
<1>6. Moved(p, q, Outgoing(msgs, p.receiver), other, limit)
  BY <1>2, <1>5, SenderMoved
<1> QED BY <1>2, <1>3, <1>5, <1>6 DEF call

(* tick                                                                      *)
LEMMA TickMoved ==
  ASSUME NEW p, NEW other, NEW limit, Between(p, other, limit), NEW ms \in Nat
  PROVE  LET call == PeerTick(p, ms)
         IN  /\ Moved(p, call.peer, call.out, other, limit)
             /\ Finished(p.sender) => Finished(call.peer.sender)
             /\ call.peer.receiver = p.receiver
             /\ call.peer.linger_after_streams_finish = p.linger_after_streams_finish
             /\ call.peer.sender.ackno = p.sender.ackno
<1> DEFINE call == PeerTick(p, ms)
           t    == Tick(p.sender, ms).snd
           msgs == Tick(p.sender, ms).out
           idle == Least(p.idle + ms, LingerTime)
           q    == [p EXCEPT !.sender = t, !.idle = idle]
<1>1. p \in Peer /\ Good(p.sender) /\ Carries(p.sender) /\ p.idle \in 0 .. LingerTime
  BY DEF Between, Peer
<1>2. /\ Good(t) /\ Carries(t) /\ (Finished(p.sender) => Finished(t))
      /\ SameOwner(p.sender, t) /\ Forward(p.sender, t) /\ t.ackno = p.sender.ackno
      /\ msgs \in Seq(SenderMessage)
      /\ \A i \in 1 .. Len(msgs) : OfStream(t, msgs[i])
  BY <1>1, TickSends
<1>3. idle \in 0 .. LingerTime
  BY <1>1, LingerAssumption, SenderAssumption DEF LingerTime, Least
<1>4. call = [peer |-> q, out |-> Outgoing(msgs, p.receiver)]
  <2> HIDE DEF t, msgs
  <2> QED BY <1>1 DEF PeerTick, t, msgs, Peer
<1> HIDE DEF t, msgs, call, idle
<1>5. t \in Sender
  BY <1>2, GoodCounters
<1>6. /\ q \in Peer /\ q.sender = t /\ q.receiver = p.receiver
      /\ q.linger_after_streams_finish = p.linger_after_streams_finish
  BY <1>1, <1>3, <1>5 DEF Peer
<1> HIDE DEF q
<1>7. Moved(p, q, Outgoing(msgs, p.receiver), other, limit)
  BY <1>2, <1>6, SenderMoved
<1> QED BY <1>2, <1>4, <1>6, <1>7 DEF call

(* receive: of a segment which the receiver takes for what it is, with an    *)
(* acknowledgment of the other side.                                         *)
LEMMA ReceiveMoved ==
  ASSUME NEW p, NEW other, NEW limit, Between(p, other, limit), Active(p),
         p.sender.next_seqno < HalfModulus,
         NEW m, m.receiver \in ReceiverMessage, Before(p.sender, limit, m.receiver),
         Heard(other, ReceiveSegment(p.receiver, m.sender)),
         Later(p.receiver, ReceiveSegment(p.receiver, m.sender))
  PROVE  LET call == PeerReceive(p, m)
             q    == call.peer
             rcv  == ReceiveSegment(p.receiver, m.sender)
         IN  /\ Moved(p, q, call.out, other, limit)
             /\ Finished(q.sender) /\ q.receiver = rcv
             /\ q.linger_after_streams_finish <=>
                  /\ p.linger_after_streams_finish
                  /\ ~(Output(rcv).closed /\ ~IsFinished(q.sender.input))
             /\ /\ p.sender.fin_sent
                /\ \/ p.sender.ackno = p.sender.next_seqno
                   \/ m.receiver.ackno # NoAck /\ m.receiver.ackno = Wrap(p.sender.next_seqno, p.sender.isn)
                => q.sender.fin_sent /\ q.sender.ackno = q.sender.next_seqno
<1> DEFINE call == PeerReceive(p, m)
           old  == p.sender
           rcv  == ReceiveSegment(p.receiver, m.sender)
           ackd == Receive(old, m.receiver)
           snd  == Push(ackd).snd
           sent == Push(ackd).out
           msgs == IF sent = <<>> /\ NeedsReply(p, m.sender)
                   THEN <<MakeEmptyMessage(snd)>> ELSE sent
           mid  == [p EXCEPT !.sender = snd, !.receiver = rcv, !.idle = 0]
           q    == Lingers(mid)
<1>1. /\ p \in Peer /\ Good(old) /\ Carries(old) /\ Good(other)
      /\ limit \in old.ackno .. old.next_seqno
      /\ p.linger_after_streams_finish \in BOOLEAN
  BY DEF Between, Peer
<1>2. /\ Good(ackd) /\ Carries(ackd) /\ SameOwner(old, ackd) /\ Forward(old, ackd)
      /\ ackd.next_seqno = old.next_seqno /\ ackd.fin_sent = old.fin_sent
      /\ old.ackno <= ackd.ackno /\ ackd.ackno <= limit
      /\ \/ old.ackno = old.next_seqno
         \/ m.receiver.ackno # NoAck /\ m.receiver.ackno = Wrap(old.next_seqno, old.isn)
         => ackd.ackno = old.next_seqno
  <2> HIDE DEF old
  <2>1. old.next_seqno < HalfModulus
    BY DEF old
  <2>2. Before(old, limit, m.receiver)
    BY DEF old
  <2> QED BY <1>1, <2>1, <2>2, AckTaken
<1> HIDE DEF ackd
<1>3. /\ Good(snd) /\ Carries(snd) /\ Finished(snd)
      /\ SameOwner(ackd, snd) /\ Forward(ackd, snd) /\ snd.ackno = ackd.ackno
      /\ sent \in Seq(SenderMessage)
      /\ \A i \in 1 .. Len(sent) : OfStream(snd, sent[i])
  BY <1>2, PushSends
<1> HIDE DEF snd, sent
<1>4. msgs \in Seq(SenderMessage) /\ \A i \in 1 .. Len(msgs) : OfStream(snd, msgs[i])
  <2>1. CASE sent = <<>> /\ NeedsReply(p, m.sender)
    <3> DEFINE empty == MakeEmptyMessage(snd)
    <3>1. empty \in SenderMessage /\ OfStream(snd, empty)
      BY <1>3, EmptyOfStream
    <3> HIDE DEF empty
    <3>2. msgs = <<empty>>
      BY <2>1 DEF empty
    <3> HIDE DEF msgs
    <3> QED BY <3>1, <3>2
  <2>2. CASE ~(sent = <<>> /\ NeedsReply(p, m.sender))
    BY <1>3, <2>2
  <2> QED BY <2>1, <2>2
<1>5. rcv \in Receiver /\ Heard(other, rcv) /\ Later(p.receiver, rcv)
  BY DEF Heard
<1>6. call = [peer |-> q, out |-> Outgoing(msgs, rcv)]
  BY DEF PeerReceive, snd, sent, ackd
<1> HIDE DEF rcv, msgs, call
<1>7. /\ mid \in Peer /\ mid.sender = snd /\ mid.receiver = rcv
      /\ mid.linger_after_streams_finish = p.linger_after_streams_finish
  <2>1. snd \in Sender /\ 0 \in 0 .. LingerTime
    BY <1>3, GoodCounters, LingerAssumption, SenderAssumption DEF LingerTime
  <2> QED BY <1>1, <1>5, <2>1 DEF Peer
<1> HIDE DEF mid
<1>8. /\ q \in Peer /\ q.sender = snd /\ q.receiver = rcv
      /\ q.linger_after_streams_finish =
           (/\ p.linger_after_streams_finish
            /\ ~(Output(rcv).closed /\ ~IsFinished(snd.input)))
  <2>1. q = IF InboundClosed(mid) /\ ~OutboundFinished(mid)
            THEN [mid EXCEPT !.linger_after_streams_finish = FALSE] ELSE mid
    BY DEF Lingers
  <2>2. /\ InboundClosed(mid) = Output(rcv).closed
        /\ OutboundFinished(mid) = IsFinished(snd.input)
    BY <1>7 DEF InboundClosed, OutboundFinished
  <2>3. CASE InboundClosed(mid) /\ ~OutboundFinished(mid)
    <3>1. q = [mid EXCEPT !.linger_after_streams_finish = FALSE]
      BY <2>1, <2>3
    <3> HIDE DEF q
    <3>2. /\ q \in Peer /\ q.sender = snd /\ q.receiver = rcv
          /\ q.linger_after_streams_finish = FALSE
      BY <1>7, <3>1 DEF Peer
    <3> QED BY <2>2, <2>3, <3>2
  <2>4. CASE ~(InboundClosed(mid) /\ ~OutboundFinished(mid))
    BY <1>1, <1>7, <2>1, <2>2, <2>4
  <2> QED BY <2>3, <2>4
<1> HIDE DEF q
<1>9. Forward(old, snd) /\ SameOwner(old, snd)
  BY <1>1, <1>2, <1>3, ForwardTwice DEF SameOwner
<1>10. old.ackno <= snd.ackno /\ snd.ackno <= limit
  BY <1>2, <1>3
<1>11. /\ Outgoing(msgs, rcv) \in Seq(Message)
       /\ \A i \in 1 .. Len(Outgoing(msgs, rcv)) :
            /\ OfStream(snd, Outgoing(msgs, rcv)[i].sender)
            /\ Outgoing(msgs, rcv)[i].receiver.ackno = Acknowledge(rcv).ackno
  BY <1>1, <1>4, <1>5, OutgoingTogether
<1>12. Moved(p, q, Outgoing(msgs, rcv), other, limit)
  <2> DEFINE out == Outgoing(msgs, rcv)
  <2> HIDE DEF out
  <2>1. /\ out \in Seq(Message)
        /\ \A i \in 1 .. Len(out) : /\ OfStream(snd, out[i].sender)
                                    /\ out[i].receiver.ackno = Acknowledge(rcv).ackno
    BY <1>11 DEF out
  <2>2. Moved(p, q, out, other, limit)
    BY <1>3, <1>5, <1>8, <1>9, <1>10, <2>1 DEF Moved
  <2> QED BY <2>2 DEF out
<1>13. /\ old.fin_sent
       /\ \/ old.ackno = old.next_seqno
          \/ m.receiver.ackno # NoAck /\ m.receiver.ackno = Wrap(old.next_seqno, old.isn)
       => snd.fin_sent /\ snd.ackno = snd.next_seqno
  <2> HIDE DEF old
  <2> QED BY <1>2, <1>3 DEF Forward
<1>14. /\ call.peer = q /\ call.out = Outgoing(msgs, rcv)
       /\ q.sender = snd /\ q.receiver = rcv
  BY <1>6, <1>8
<1> HIDE DEF old
<1>15. /\ Moved(p, call.peer, call.out, other, limit)
       /\ Finished(call.peer.sender) /\ call.peer.receiver = rcv
       /\ call.peer.linger_after_streams_finish =
            (/\ p.linger_after_streams_finish
             /\ ~(Output(rcv).closed /\ ~IsFinished(call.peer.sender.input)))
       /\ /\ old.fin_sent
          /\ \/ old.ackno = old.next_seqno
             \/ m.receiver.ackno # NoAck /\ m.receiver.ackno = Wrap(old.next_seqno, old.isn)
          => call.peer.sender.fin_sent /\ call.peer.sender.ackno = call.peer.sender.next_seqno
  BY <1>3, <1>8, <1>12, <1>13, <1>14
<1> QED BY <1>15 DEF call, rcv, old
=============================================================================
