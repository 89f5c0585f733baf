------------------------------ MODULE Locality ------------------------------
(***************************************************************************)
(* How a build against MPI 1 or 2 finds the processes of its node:         *)
(* set_locality_info of src/src/mmu_mpi.c:187-268 up to the first split.   *)
(* Every process looks up the number of its network address, all exchange  *)
(* them, each sorts its copy and numbers the runs of equal entries; the    *)
(* number of the run of its own entries is its color in MPI_Comm_split.    *)
(* (Builds against MPI 3 call MPI_Comm_split_type: module Mpimemu.)        *)
(*                                                                         *)
(* The comparison cmp_uli_fn returns the difference of two unsigned longs  *)
(* as an int, which is not an order on network numbers: a < b < c < a may  *)
(* come out.  What qsort then leaves is unspecified, so sorted may be any  *)
(* arrangement of the numbers, the same for all processes, as they run the *)
(* same program on the same input.                                         *)
(*                                                                         *)
(* A Bug_ operator is the definition after it with a plausible slip; no    *)
(* specification uses it.  README.md says which property notices it.       *)
(***************************************************************************)
EXTENDS Integers, FiniteSets

CONSTANTS
  N,           \* number of processes, num_ranks
  NetNum       \* the numbers of the nodes' network addresses

ASSUME NAssumption == N \in Nat \ {0}
ASSUME NetNumAssumption == NetNum \subseteq Nat

Rank == 0..(N - 1)

VARIABLES
  netnum,    \* my_netnum of each process: that of the node it is on
  sorted,    \* what qsort makes of the exchanged numbers
  pc,
  i, node_i, prev_num,   \* the local variables of get_my_color
  color,     \* my_color
  smp        \* the members of smp_comm

vars == <<netnum, sorted, pc, i, node_i, prev_num, color, smp>>

(* sorted holds the numbers of the processes in some order. *)
Arrangement ==
  {f \in [Rank -> NetNum] :
     \A n \in NetNum : Cardinality({k \in Rank : f[k] = n}) =
                       Cardinality({r \in Rank : netnum[r] = n})}

Init ==
  /\ netnum \in [Rank -> NetNum]
  /\ sorted \in Arrangement
  /\ pc = [r \in Rank |-> "lookup"]
  /\ i = [r \in Rank |-> 0]
  /\ node_i = [r \in Rank |-> 0]
  /\ prev_num = [r \in Rank |-> 0]
  /\ color = [r \in Rank |-> 0]
  /\ smp = [r \in Rank |-> {}]

Goto(r, where) == pc' = [pc EXCEPT ![r] = where]

(* get_netnum asks the resolver for the address of the host name. *)
Lookup(r) ==
  /\ pc[r] = "lookup"
  /\ Goto(r, "gather")
  /\ UNCHANGED <<netnum, sorted, i, node_i, prev_num, color, smp>>

(* The resolver does not know the name, or there is no memory for the      *)
(* numbers of all processes: r never enters the exchange.                  *)
LookupFails(r) ==
  /\ pc[r] = "lookup"
  /\ Goto(r, "failed")
  /\ UNCHANGED <<netnum, sorted, i, node_i, prev_num, color, smp>>

(* MPI_Allgather returns once all processes are in it; then the array is   *)
(* sorted, and the scan starts at its first entry.                         *)
Gather(r) ==
  /\ pc[r] = "gather"
  /\ \A s \in Rank : pc[s] \notin {"lookup", "failed"}
  /\ i' = [i EXCEPT ![r] = 0]
  /\ node_i' = [node_i EXCEPT ![r] = 0]
  /\ prev_num' = [prev_num EXCEPT ![r] = sorted[0]]
  /\ Goto(r, "scan")
  /\ UNCHANGED <<netnum, sorted, color, smp>>

-----------------------------------------------------------------------------
(* get_my_color: the outer loop at "scan", the inner one at "skip" *)

Bug_MoreToScan(r) == i[r] < N

MoreToScan(r) == i[r] < N /\ prev_num[r] # netnum[r]

Scan(r) ==
  /\ pc[r] = "scan"
  /\ MoreToScan(r)
  /\ Goto(r, "skip")
  /\ UNCHANGED <<netnum, sorted, i, node_i, prev_num, color, smp>>

(* netnums[i] is read without a look at the length of the array. *)
Readable(r) == i[r] \in Rank

Skip(r) ==
  /\ pc[r] = "skip"
  /\ Readable(r)
  /\ sorted[i[r]] = prev_num[r]
  /\ i' = [i EXCEPT ![r] = @ + 1]
  /\ UNCHANGED <<netnum, sorted, pc, node_i, prev_num, color, smp>>

Bug_NextNode(r) ==
  /\ pc[r] = "skip"
  /\ Readable(r)
  /\ sorted[i[r]] # prev_num[r]
  /\ node_i' = [node_i EXCEPT ![r] = IF sorted[i[r]] > prev_num[r] THEN @ + 1 ELSE @]
  /\ prev_num' = [prev_num EXCEPT ![r] = sorted[i[r]]]
  /\ Goto(r, "scan")
  /\ UNCHANGED <<netnum, sorted, i, color, smp>>

NextNode(r) ==
  /\ pc[r] = "skip"
  /\ Readable(r)
  /\ sorted[i[r]] # prev_num[r]
  /\ node_i' = [node_i EXCEPT ![r] = @ + 1]
  /\ prev_num' = [prev_num EXCEPT ![r] = sorted[i[r]]]
  /\ Goto(r, "scan")
  /\ UNCHANGED <<netnum, sorted, i, color, smp>>

(* The other end of the scan, at i = N, is an error no process reaches: see *)
(* ScanInBounds.                                                           *)
Found(r) ==
  /\ pc[r] = "scan"
  /\ ~MoreToScan(r)
  /\ i[r] < N
  /\ color' = [color EXCEPT ![r] = node_i[r]]
  /\ Goto(r, "split")
  /\ UNCHANGED <<netnum, sorted, i, node_i, prev_num, smp>>

(* MPI_Comm_split returns once all processes have named their color.       *)
Split(r) ==
  /\ pc[r] = "split"
  /\ \A s \in Rank : pc[s] \in {"split", "done"}
  /\ smp' = [smp EXCEPT ![r] = {s \in Rank : color[s] = color[r]}]
  /\ Goto(r, "done")
  /\ UNCHANGED <<netnum, sorted, i, node_i, prev_num, color>>

Next ==
  \E r \in Rank :
    \/ Lookup(r)
    \/ LookupFails(r)
    \/ Gather(r)
    \/ Scan(r)
    \/ Skip(r)
    \/ NextNode(r)
    \/ Found(r)
    \/ Split(r)

Spec == Init /\ [][Next]_vars

-----------------------------------------------------------------------------
TypeOK ==
  /\ netnum \in [Rank -> NetNum]
  /\ sorted \in [Rank -> NetNum]
  /\ pc \in [Rank -> {"lookup", "failed", "gather", "scan", "skip", "split", "done"}]
  /\ i \in [Rank -> 0..N]
  /\ node_i \in [Rank -> 0..N]
  /\ prev_num \in [Rank -> Nat]
  /\ color \in [Rank -> 0..N]
  /\ smp \in [Rank -> SUBSET Rank]

(* The scan never leaves the array, and always ends at an entry of the     *)
(* process's own: "we din't find our netnum" (mmu_mpi.c:138) cannot be, as *)
(* every process has put its number there, however qsort arranged them.    *)
ScanInBounds ==
  \A r \in Rank :
    /\ pc[r] = "skip" => Readable(r)
    /\ pc[r] = "scan" => i[r] < N

(* The smp communicator holds exactly the processes with one's own network *)
(* number, "processes that are located on the same node" (mmu_mpi.c:214):  *)
(* colors tell nodes apart although the comparison does not order them.    *)
SplitByNode ==
  \A r \in Rank : pc[r] = "done" => smp[r] = {s \in Rank : netnum[s] = netnum[r]}

=============================================================================
