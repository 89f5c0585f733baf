----------------------------- MODULE ReportFile -----------------------------
(***************************************************************************)
(* What the report of src/memnesia/trace promises its readers: there is    *)
(* none until rank 0 has the texts of all ranks; then it has all of them,  *)
(* whole, in the order of ranks, each saying whose it is and of how many;  *)
(* it is written once.  It stays out only where the file cannot be opened, *)
(* and the job ends all the same.  Nothing is promised of a job that has   *)
(* not told the tool its ranks by MPI_Init.                                *)
(***************************************************************************)
EXTENDS Naturals, Sequences

CONSTANT N  \* number of ranks

VARIABLES
  known,   \* whether MPI_Init was called
  lossy,   \* whether opening the file may fail
  texts,   \* by rank, its text, empty until it has one
  closed,  \* whether rank 0 is through with the report
  file     \* the report, empty while there is none

vars == <<known, lossy, texts, closed, file>>

Rank == 0..(N - 1)

Init ==
  /\ known \in BOOLEAN /\ lossy \in BOOLEAN
  /\ texts = [r \in Rank |-> << >>]
  /\ closed = FALSE
  /\ file = << >>

Contribute(r) ==
  /\ texts[r] = << >> /\ texts'[r] # << >>
  /\ \A s \in Rank \ {r} : texts'[s] = texts[s]
  /\ LET line == texts'[r][1] IN <<line[1], line[2], line[3]>> = <<"RUN", r, N>>
  /\ UNCHANGED <<known, lossy, closed, file>>

Complete == \A r \in Rank : texts[r] # << >>

InOrder == LET upto[n \in 0..N] == IF n = 0 THEN << >> ELSE upto[n - 1] \o texts[n - 1]
           IN  upto[N]

Publish ==
  /\ ~closed /\ Complete
  /\ file' = InOrder
  /\ closed' = TRUE
  /\ UNCHANGED <<known, lossy, texts>>

Lose ==
  /\ ~closed /\ Complete /\ lossy
  /\ closed' = TRUE
  /\ UNCHANGED <<known, lossy, texts, file>>

Anything == ~known /\ UNCHANGED <<known, lossy>>

Next == (\E r \in Rank : Contribute(r)) \/ Publish \/ Lose \/ Anything

Spec == Init /\ [][Next]_vars

=============================================================================
