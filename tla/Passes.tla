-------------------------------- MODULE Passes --------------------------------
(***************************************************************************)
(* A loop over indexes 1 .. n that carries a value along: what the for     *)
(* loops of the code do to the state they are given.                       *)
(***************************************************************************)
EXTENDS Naturals

\* The value after Step(v, 1), then Step(_, 2), ... to Step(_, n).  Each value is bound
\* once, so that a step may use it often.
Repeat(Step(_, _), base, n) ==
  LET after[i \in 0 .. n] ==
        IF i = 0 THEN base
        ELSE CHOOSE w \in {Step(v, i) : v \in {after[i - 1]}} : TRUE
  IN after[n]
===============================================================================
