----------------------------- MODULE MCSettings -----------------------------
(***************************************************************************)
(* Arguments for Settings with ints of 5 bits (-16 .. 15) and longs of 7   *)
(* bits (-64 .. 63): negative, zero, small, the largest int, and numbers   *)
(* that are no int (cut to a positive, a smaller and a negative one) or no *)
(* long.                                                                   *)
(***************************************************************************)
EXTENDS Settings

MCNumbers == {-20, -2, 0, 5, 8, 15, 34, 20, 64}

=============================================================================
