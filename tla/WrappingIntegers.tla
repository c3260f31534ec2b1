-------------------------- MODULE WrappingIntegers --------------------------
(* Wrap32 (src/src/wrapping_integers.cc): sequence numbers on the wire are   *)
(* absolute stream positions reduced modulo 2^32 around a zero point (the    *)
(* ISN), and are turned back into absolute positions with a checkpoint near  *)
(* the expected answer.  The word size is a parameter, so that the wrap      *)
(* happens within the reach of the model checker.                            *)
EXTENDS Integers

CONSTANT Modulus              \* 2^32 in the code

ASSUME ModulusAssumption == Modulus \in Nat \ {0} /\ Modulus % 2 = 0

HalfModulus == Modulus \div 2 \* 2^31 in the code

\* The values a Wrap32 can hold.
Wrap32 == 0 .. Modulus - 1

\* Wrap32::wrap
Wrap(n, zero_point) == (zero_point + n) % Modulus

\* Wrap32::unwrap
Unwrap(raw, zero_point, checkpoint) ==
  LET offset    == (raw - zero_point) % Modulus
      candidate == offset + (checkpoint - (checkpoint % Modulus))
  IN  CASE /\ candidate > checkpoint
           /\ candidate - checkpoint > HalfModulus
           /\ candidate > Modulus                    -> candidate - Modulus
        [] /\ candidate < checkpoint
           /\ checkpoint - candidate > HalfModulus   -> candidate + Modulus
        [] OTHER                                     -> candidate

Distance(a, b) == IF a > b THEN a - b ELSE b - a
=============================================================================
