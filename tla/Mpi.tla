--------------------------------- MODULE Mpi ---------------------------------
(***************************************************************************)
(* The MPI runtime, as mpimemu uses it: blocking collectives and blocking  *)
(* MPI_Sendrecv.  The library is not part of the repository; this module   *)
(* is modelled from the calls of src/src/mmu_mpi.c and src/src/            *)
(* mmu_process.c.  No error handler is ever installed there, so a call     *)
(* that fails aborts the job: a call that returns has succeeded.           *)
(*                                                                         *)
(* log[r][c] is the sequence of calls rank r has made in context c.  The   *)
(* i-th collective of a rank on a communicator is matched with the i-th of *)
(* every other member; the i-th message s sends to r with the i-th receive *)
(* r posts for s.  Point-to-point traffic has contexts of its own: "ring"  *)
(* is that of MPI_COMM_WORLD, "exchange" that of the worker communicator.  *)
(***************************************************************************)
EXTENDS Integers, Sequences, FiniteSets

CONSTANT N   \* number of processes in the job

ASSUME NAssumption == N \in Nat \ {0}

Rank == 0..(N - 1)
NoRank == -1

Communicator == {"world", "smp", "worker"}
Context == Communicator \cup {"ring", "exchange"}

(* Collectives whose result needs the contribution of every member. *)
Rendezvous == {"split_type", "split", "sum_int", "max_int2", "max_double",
               "barrier", "min_ull", "max_ull", "sum_double"}

(* Collectives that may return before the other members have called. *)
Loose == {"init", "comm_free", "finalize"}

Op == Rendezvous \cup Loose \cup {"sendrecv"}

Call == [op : Op, val : Int, to : Rank \cup {NoRank}, from : Rank \cup {NoRank}]

Collective(op, val) == [op |-> op, val |-> val, to |-> NoRank, from |-> NoRank]

Sendrecv(to, from, bytes) ==
  [op |-> "sendrecv", val |-> bytes, to |-> to, from |-> from]

VARIABLES
  comm,     \* comm[r][c]: the members of r's communicator c, {} before the split
  log,      \* log[r][c]: the calls r has made in context c
  blocked   \* blocked[r]: the context of the call r is in, "none" outside calls

MpiInit ==
  /\ comm = [r \in Rank |-> [c \in Communicator |-> IF c = "world" THEN Rank ELSE {}]]
  /\ log = [r \in Rank |-> [c \in Context |-> << >>]]
  /\ blocked = [r \in Rank |-> "none"]

(* r enters a call. *)
Enter(r, c, call) ==
  /\ blocked[r] = "none"
  /\ blocked' = [blocked EXCEPT ![r] = c]
  /\ log' = [log EXCEPT ![r][c] = Append(@, call)]

(* r leaves the call it is in. *)
Leave(r) ==
  /\ blocked' = [blocked EXCEPT ![r] = "none"]
  /\ UNCHANGED log

-----------------------------------------------------------------------------
(* The call r is in, and its matching. *)

Nth(r) == Len(log[r][blocked[r]])
Current(r) == log[r][blocked[r]][Nth(r)]

Matched(r, s) ==
  LET c == blocked[r] IN
  /\ Nth(r) <= Len(log[s][c])
  /\ log[s][c][Nth(r)].op = Current(r).op

AllMatched(r) == \A s \in comm[r][blocked[r]] : Matched(r, s)

(* What s contributes to the collective r is in. *)
Contribution(r, s) == log[s][blocked[r]][Nth(r)].val

Contributions(r) == {Contribution(r, s) : s \in comm[r][blocked[r]]}

SendsTo(s, r, c) == {i \in DOMAIN log[s][c] : log[s][c][i].to = r}
ReceivesFrom(r, s, c) == {i \in DOMAIN log[r][c] : log[r][c][i].from = s}

(* The message r waits for has been sent; the one it sends has a receive.  *)
Arrived(r) ==
  LET c == blocked[r]  s == Current(r).from IN
  Cardinality(ReceivesFrom(r, s, c)) <= Cardinality(SendsTo(s, r, c))

Taken(r) ==
  LET c == blocked[r]  s == Current(r).to IN
  Cardinality(SendsTo(r, s, c)) <= Cardinality(ReceivesFrom(s, r, c))

(* When a call may return (a send may be buffered), and when it must. *)
MayReturn(r) ==
  /\ blocked[r] # "none"
  /\ Current(r).op \in Rendezvous => AllMatched(r)
  /\ Current(r).op = "sendrecv" => Arrived(r)

MustReturn(r) ==
  /\ MayReturn(r)
  /\ Current(r).op \in Loose => AllMatched(r)
  /\ Current(r).op = "sendrecv" => Taken(r)

-----------------------------------------------------------------------------
(* Ranks within a communicator follow the order of world ranks: every      *)
(* split passes a key that leaves that order alone.                        *)
RankIn(group, r) == Cardinality({s \in group : s < r})

Member(group, i) == CHOOSE r \in group : RankIn(group, r) = i

MaxOf(S) == CHOOSE x \in S : \A y \in S : y <= x

MpiTypeOK ==
  /\ comm \in [Rank -> [Communicator -> SUBSET Rank]]
  /\ log \in [Rank -> [Context -> Seq(Call)]]
  /\ blocked \in [Rank -> Context \cup {"none"}]

=============================================================================
