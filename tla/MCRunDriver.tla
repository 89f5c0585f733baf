---------------------------- MODULE MCRunDriver ----------------------------
(***************************************************************************)
(* Small environments for RunDriver.                                       *)
(***************************************************************************)
EXTENDS RunDriver

Env(fun, start, max) ==
  [fun |-> fun, start |-> start, max |-> max,
   env |-> TRUE, hasX |-> TRUE, template |-> TRUE]

Next1 == [n \in Index |-> n + 1]
Twice == [n \in Index |-> 2 * n]
Power == [n \in Index |-> 2 ^ n]
Half  == [n \in Index |-> n \div 2]
Same  == [n \in Index |-> 1]

Good == {Env(Next1, 0, 2), Env(Twice, 0, 3), Env(Power, 1, 4), Env(Power, 3, 4)}
Odd  == {Env(Half, 0, 1), Env(Same, 0, 2)}
Wrong == {[Env(Twice, 0, 2) EXCEPT !.env = FALSE],
          [Env(Twice, 0, 2) EXCEPT !.hasX = FALSE],
          [Env(Twice, 0, 2) EXCEPT !.template = FALSE]}

MCSetups == Good \union Odd \union Wrong

=============================================================================
