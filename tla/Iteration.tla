----------------------------- MODULE Iteration ------------------------------
(* Loops as functions.  A `while' loop of the code is written as a function  *)
(* Step that maps the state at the head of the loop to the state after one   *)
(* pass, and to itself once the loop has left; Iterate runs it n times, with *)
(* n at least the number of passes the loop can make.  Also std::min and     *)
(* std::max.                                                                 *)
EXTENDS Integers

\* The state after n passes of Step from x.
Iterate(Step, x, n) ==
  LET f[i \in Nat] == IF i = 0 THEN x ELSE Step[f[i-1]]
  IN  f[n]

Least(a, b)    == IF a <= b THEN a ELSE b
Greatest(a, b) == IF a >= b THEN a ELSE b
=============================================================================
