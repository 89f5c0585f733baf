----------------------------- MODULE MCMemnesia -----------------------------
(***************************************************************************)
(* Small applications for MemnesiaReport: ranks with different numbers of  *)
(* calls, so that their texts have different lengths, wrapped and bare     *)
(* collectives, one without any wrapped call, MPI_Init and MPI_Init_thread,*)
(* with every fault and without any; samples of the ranks at the same      *)
(* time and at different ones, several of a rank at one time.              *)
(***************************************************************************)
EXTENDS MemnesiaReport

MCAppGrowth == {0, 2}
MCLibGrowth == {-1, 1}
One == {1}

AnyFault == {"sample", "metadata", "open"}

App(init, calls, faults, clock) ==
  [init |-> init, calls |-> calls, faults |-> faults, clock |-> clock]

Unequal == 0 :> <<"MPI_Bcast">> @@ 1 :> <<"MPI_Send", "MPI_Bcast">>

(* A collective the tool does not know, and one that waits for all.        *)
Mixed == 0 :> <<"MPI_Gather", "MPI_Allreduce">> @@ 1 :> <<"MPI_Gather", "MPI_Allreduce">>

Aborting == 0 :> <<>> @@ 1 :> <<"MPI_Abort">>

Together == [r \in Rank |-> <<0, 1, 1, 2, 2, 3>>]
Apart == 0 :> <<0, 2, 4, 6, 8, 8>> @@ 1 :> <<1, 1, 3, 4, 5, 7>>
Behind == 0 :> <<0, 0, 1, 1, 2, 2>> @@ 1 :> <<3, 4, 5, 6, 7, 8>>

(* A rank with samples of which a report may be left, and one without any. *)
Threads == App("MPI_Init_thread", 0 :> <<"MPI_Isend", "MPI_Gather">> @@ 1 :> <<"MPI_Wtime", "MPI_Gather">>,
               {}, Together)

MCPrograms ==
  {App("MPI_Init", Unequal, AnyFault, Apart), App("MPI_Init", Unequal, {}, Together),
   App("MPI_Init", Mixed, {}, Behind), App("MPI_Init", Aborting, AnyFault, Together), Threads}

ThreadPrograms == {Threads}

=============================================================================
