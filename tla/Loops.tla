------------------------------- MODULE Loops -------------------------------
(***************************************************************************)
(* A loop of the code as a function that is applied again and again: its   *)
(* states are the elements of the function's domain, its body takes one    *)
(* state to the next, and a state in which the loop ends is taken to       *)
(* itself.                                                                 *)
(***************************************************************************)
EXTENDS Naturals

\* the state after n passes of the body f from x
Iterate(f, x, n) ==
  LET state[k \in 0 .. n] == IF k = 0 THEN x ELSE f[state[k - 1]] IN state[n]
=============================================================================
