----------------------------- MODULE MCMkStats -----------------------------
(***************************************************************************)
(* Small series for MkStats: one of three sizes, one that runs one size    *)
(* twice, and one that dies before its first job.                          *)
(***************************************************************************)
EXTENDS MkStats, MCRunDriver, TLC

MCSeries == {Env(Twice, 0, 5), Env(Half, 0, 1),
             [Env(Twice, 0, 2) EXCEPT !.template = FALSE]}

(* Readers differ in nothing. *)
ReaderSymmetry == Permutations(Reader)

=============================================================================
