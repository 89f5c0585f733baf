----------------------------- MODULE MCMpimemu -----------------------------
(* Small jobs: placements up to the names of the nodes, the node of a rank *)
(* being named for the first rank on it.                                   *)
EXTENDS Mpimemu

Place(nodes) == [r \in Rank |-> nodes[r + 1]]

(* Every placement of N processes. *)
AllPlacements ==
  {f \in [Rank -> Rank] : \A r \in Rank : f[r] <= r /\ f[f[r]] = f[r]}

(* Four processes: two nodes of two, by block and in turn, and uneven nodes. *)
FourRanks ==
  {Place(<<0, 0, 2, 2>>), Place(<<0, 1, 0, 1>>), Place(<<0, 1, 1, 1>>)}

Line(input, iters, work) == [input |-> input, iters |-> iters, work |-> work]

BadLines == {Line("help", 1, FALSE), Line("invalid", 1, FALSE), Line("run", 0, FALSE)}

(* Two samples per stage, and all the ways not to get to sampling. *)
TwoSamples == BadLines \cup {Line("run", 2, FALSE), Line("run", 2, TRUE)}

OneSample == BadLines \cup {Line("run", 1, FALSE), Line("run", 1, TRUE)}

NoFault == {}
AnyFault == FailurePoint

=============================================================================
