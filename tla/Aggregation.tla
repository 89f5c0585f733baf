---------------------------- MODULE Aggregation ----------------------------
(***************************************************************************)
(* From samples to the report: mmu_memory_sample_get_mma reduces a list of *)
(* samples to a minimum, a maximum and an average, get_node_mmas those of  *)
(* the processes of a node, get_global_mmas those of all processes         *)
(* (src/src/mmu_memory_sample.c, src/src/mmu_process.c).                   *)
(*                                                                         *)
(* One item (MemFree, say) of one sample type is followed; all others are  *)
(* treated alike.  Numbers of kB are words of Bits bits; averages, doubles *)
(* in the code, are exact fractions.  The allreduces are atomic here; how  *)
(* processes go through them is the matter of module Mpimemu, which also   *)
(* shows (PpnGate) that nodes are filled evenly when they are reached.     *)
(*                                                                         *)
(* A Bug_ operator is the definition after it with a plausible slip; no    *)
(* specification uses it.  README.md says which property notices it.       *)
(***************************************************************************)
EXTENDS Integers, SequencesExt

CONSTANTS
  N,            \* number of processes
  Placement,    \* the placements of the processes on nodes
  SampleType,   \* the types of sample followed
  Iters,        \* samples per process
  Bits,         \* width of unsigned long long
  Value         \* what /proc may say

Rank == 0..(N - 1)
Word == 0..(2^Bits - 1)

OnNodeOf(place, r) == {s \in Rank : place[s] = place[r]}

ASSUME NAssumption == N \in Nat \ {0}
ASSUME ItersAssumption == Iters \in Nat \ {0}
ASSUME ValueAssumption == Bits \in Nat /\ Value \subseteq Word
ASSUME EvenAssumption ==
  \A place \in Placement : \A r, s \in Rank :
    Cardinality(OnNodeOf(place, r)) = Cardinality(OnNodeOf(place, s))

VARIABLES
  node, type,   \* the placement and the sample type of this job
  taken,        \* the samples each process took
  list,         \* those still on its list
  pc,           \* "local", "node", "crashed", "reduce", "global" or "done"
  mma,          \* what get_mma, get_node_mmas and get_global_mmas make of them
  nodeMma,
  globalMma

vars == <<node, type, taken, list, pc, mma, nodeMma, globalMma>>

OnNode(r) == OnNodeOf(node, r)

(* One process of each node has taken real node samples after MPI_Init;    *)
(* the elements of the bogus ones of the others are zero.                  *)
IsBogus(r) == type = "node_post" /\ r # Min(OnNode(r))

Zero == [num |-> 0, den |-> 1]

Over(fraction, n) == [fraction EXCEPT !.den = @ * n]

Plus(a, b) == [num |-> a.num * b.den + b.num * a.den, den |-> a.den * b.den]

SumOf(f, S) == FoldFunctionOnSet(Plus, Zero, f, S)

(* An mma as it is calloc'd, and the NULL pointer in its place. *)
Blank == [min |-> 0, max |-> 0, total |-> 0, ave |-> Zero]
Null == [Blank EXCEPT !.total = -1]

Init ==
  /\ node \in Placement
  /\ type \in SampleType
  /\ taken \in [Rank -> [1..Iters -> Value \cup {0}]]
  /\ \A r \in Rank :
       IF IsBogus(r) THEN taken[r] = [i \in 1..Iters |-> 0]
                     ELSE taken[r] \in [1..Iters -> Value]
  /\ list = taken
  /\ pc = [r \in Rank |-> "local"]
  /\ mma = [r \in Rank |-> Blank]
  /\ nodeMma = [r \in Rank |-> Blank]
  /\ globalMma = [r \in Rank |-> Blank]

Goto(r, where) == pc' = [pc EXCEPT ![r] = where]

-----------------------------------------------------------------------------
(* mmu_memory_sample_get_mma *)

(* mmu_list_pop takes the latest sample off the list. *)
Popped(r) == Last(list[r])
Rest(r) == Front(list[r])

NewTotal(r) == (mma[r].total + Popped(r)) % 2^Bits

Bug_Overflows(r) == NewTotal(r) <= Popped(r)

Overflows(r) == NewTotal(r) < Popped(r)

FirstTime(r) == list[r] = taken[r]

Accumulated(r) ==
  [mma[r] EXCEPT !.min = IF FirstTime(r) \/ Popped(r) < @ THEN Popped(r) ELSE @,
                 !.max = IF FirstTime(r) \/ Popped(r) > @ THEN Popped(r) ELSE @,
                 !.total = NewTotal(r)]

AddSample(r) ==
  /\ pc[r] = "local"
  /\ list[r] # << >>
  /\ ~Overflows(r)
  /\ mma' = [mma EXCEPT ![r] = Accumulated(r)]
  /\ list' = [list EXCEPT ![r] = Rest(r)]
  /\ UNCHANGED <<node, type, taken, pc, nodeMma, globalMma>>

(* "overflow exception. cannot continue.": but the error code is dropped,  *)
(* and the caller goes on with no mma where one should be.                 *)
Overflow(r) ==
  /\ pc[r] = "local"
  /\ list[r] # << >>
  /\ Overflows(r)
  /\ mma' = [mma EXCEPT ![r] = Null]
  /\ list' = [list EXCEPT ![r] = Rest(r)]
  /\ Goto(r, "node")
  /\ UNCHANGED <<node, type, taken, nodeMma, globalMma>>

Average(r) ==
  /\ pc[r] = "local"
  /\ list[r] = << >>
  /\ mma' = [mma EXCEPT ![r].ave = [num |-> mma[r].total, den |-> Len(taken[r])]]
  /\ Goto(r, "node")
  /\ UNCHANGED <<node, type, taken, list, nodeMma, globalMma>>

-----------------------------------------------------------------------------
(* get_node_mmas, get_global_mmas *)

(* Each process asks for the length of its own mma before it reduces.      *)
Dereference(r) ==
  /\ pc[r] = "node"
  /\ IF mma[r] = Null THEN Goto(r, "crashed") ELSE Goto(r, "reduce")
  /\ UNCHANGED <<node, type, taken, list, mma, nodeMma, globalMma>>

Bug_NodeMin(values) == Min(values)

(* All but one of the contributions to node_post are zeros.                *)
NodeMin(values) == IF type = "node_post" THEN Max(values) ELSE Min(values)

NodeDivisor(r) == IF type = "node_post" THEN 1 ELSE Cardinality(OnNode(r))

Ready(group, places) == \A s \in group : pc[s] \in places

ReduceNode(r) ==
  /\ pc[r] = "reduce"
  /\ Ready(OnNode(r), {"reduce", "global", "done"})
  /\ nodeMma' = [nodeMma EXCEPT ![r] =
       [min |-> NodeMin({mma[s].min : s \in OnNode(r)}),
        max |-> Max({mma[s].max : s \in OnNode(r)}),
        total |-> 0,
        ave |-> Over(SumOf([s \in OnNode(r) |-> mma[s].ave], OnNode(r)),
                     NodeDivisor(r))]]
  /\ Goto(r, "global")
  /\ UNCHANGED <<node, type, taken, list, mma, globalMma>>

ReduceGlobal(r) ==
  /\ pc[r] = "global"
  /\ Ready(Rank, {"global", "done"})
  /\ globalMma' = [globalMma EXCEPT ![r] =
       [min |-> Min({nodeMma[s].min : s \in Rank}),
        max |-> Max({nodeMma[s].max : s \in Rank}),
        total |-> 0,
        ave |-> Over(SumOf([s \in Rank |-> nodeMma[s].ave], Rank), N)]]
  /\ Goto(r, "done")
  /\ UNCHANGED <<node, type, taken, list, mma, nodeMma>>

Next ==
  \E r \in Rank :
    \/ AddSample(r)
    \/ Overflow(r)
    \/ Average(r)
    \/ Dereference(r)
    \/ ReduceNode(r)
    \/ ReduceGlobal(r)

Spec == Init /\ [][Next]_vars

-----------------------------------------------------------------------------
(* The samples that were really taken. *)
Collector == {r \in Rank : ~IsBogus(r)}
Real == {taken[r][i] : r \in Collector, i \in 1..Iters}

SumTaken(r) == SumFunction(taken[r])
SumReal == SumFunction([r \in Collector |-> SumTaken(r)])
CountReal == Iters * Cardinality(Collector)

(* The report is that of the real samples of the whole job: the minima,    *)
(* maxima and averages of averages that three stages make, with zeros from *)
(* all but one process of a node, are the minimum, the maximum and the     *)
(* mean of the samples that count.  An overflow on the way never ends in a *)
(* wrong number.                                                           *)
ReportIsOfRealSamples ==
  \A r \in Rank : pc[r] = "done" =>
    /\ globalMma[r].min = Min(Real)
    /\ globalMma[r].max = Max(Real)
    /\ globalMma[r].ave.den > 0
    /\ globalMma[r].ave.num * CountReal = SumReal * globalMma[r].ave.den

(* The "rudimentary overflow protection" (mmu_memory_sample.c:197) goes    *)
(* off exactly when the samples do not fit an unsigned long long.          *)
OverflowDetected ==
  \A r \in Rank : pc[r] # "local" => (mma[r] = Null <=> SumTaken(r) \notin Word)

=============================================================================
