--------------------------- MODULE MpimemuProofs ---------------------------
(***************************************************************************)
(* What is proved of Mpimemu for every number of processes, placement,     *)
(* command line and choice of what may fail.                               *)
(***************************************************************************)
EXTENDS Mpimemu, FiniteSetTheorems, SequenceTheorems, TLAPS

(***************************************************************************)
(* What the operators of module Mpi on ranks and contributions compute,    *)
(* for every finite set of integers.                                       *)
(***************************************************************************)
LEMMA RanksAreFinite == IsFiniteSet(Rank) /\ Cardinality(Rank) = N
BY NAssumption, FS_Interval DEF Rank

(* The ranks within a communicator are 0, 1, ..., size - 1. *)
LEMMA RankInBounds ==
  ASSUME NEW S \in SUBSET Int, IsFiniteSet(S), NEW r \in S
  PROVE  RankIn(S, r) \in 0..(Cardinality(S) - 1)
<1> DEFINE Below == {s \in S : s < r}
<1>1. Below \subseteq S \ {r}
  OBVIOUS
<1>2. IsFiniteSet(S \ {r}) /\ Cardinality(S \ {r}) = Cardinality(S) - 1
  BY FS_RemoveElement
<1>3. IsFiniteSet(Below) /\ Cardinality(Below) <= Cardinality(S) - 1
  <2>1. IsFiniteSet(Below) /\ Cardinality(Below) <= Cardinality(S \ {r})
    <3> HIDE DEF Below
    <3> QED
      BY <1>1, <1>2, FS_Subset
  <2> QED
    BY <1>2, <2>1
<1>4. Cardinality(Below) \in Nat /\ Cardinality(S) \in Nat
  BY <1>3, FS_CardinalityType
<1> QED
  BY <1>3, <1>4 DEF RankIn

(* Two members have different ranks, in the order of their world ranks. *)
LEMMA RankInMonotonic ==
  ASSUME NEW S \in SUBSET Int, IsFiniteSet(S), NEW r \in S, NEW t \in S, r < t
  PROVE  RankIn(S, r) < RankIn(S, t)
<1> DEFINE Below(x) == {s \in S : s < x}
<1>1. IsFiniteSet(Below(r)) /\ IsFiniteSet(Below(t))
  <2>1. Below(r) \subseteq S /\ Below(t) \subseteq S
    OBVIOUS
  <2> QED
    BY <2>1, FS_Subset, Zenon
<1>2. Below(r) \cup {r} \subseteq Below(t) /\ r \notin Below(r)
  <2>1. \A x, y \in Int : x < r => x < t
    OBVIOUS
  <2>2. ~(r < r)
    OBVIOUS
  <2> QED
    BY <2>1, <2>2
<1>3. /\ IsFiniteSet(Below(r) \cup {r})
      /\ Cardinality(Below(r) \cup {r}) = Cardinality(Below(r)) + 1
  <2> HIDE DEF Below
  <2> QED
    BY <1>1, <1>2, FS_AddElement
<1>4. Cardinality(Below(r) \cup {r}) <= Cardinality(Below(t))
  <2> HIDE DEF Below
  <2> QED
    BY <1>1, <1>2, FS_Subset, Zenon
<1>5. Cardinality(Below(r)) \in Nat /\ Cardinality(Below(t)) \in Nat
  BY <1>1, FS_CardinalityType
<1> QED
  BY <1>3, <1>4, <1>5 DEF RankIn

LEMMA RankInInjective ==
  ASSUME NEW S \in SUBSET Int, IsFiniteSet(S), NEW r \in S, NEW t \in S,
         RankIn(S, r) = RankIn(S, t)
  PROVE  r = t
<1>1. RankIn(S, r) \in Int /\ RankIn(S, t) \in Int
  BY RankInBounds
<1>2. ~(r < t) /\ ~(t < r)
  BY <1>1, RankInMonotonic
<1> QED
  BY <1>2

(* Every rank within a communicator is the rank of a member, by counting:  *)
(* otherwise size members would share size - 1 ranks.                      *)
LEMMA MemberHasRank ==
  ASSUME NEW S \in SUBSET Int, IsFiniteSet(S), NEW i \in 0..(Cardinality(S) - 1)
  PROVE  Member(S, i) \in S /\ RankIn(S, Member(S, i)) = i
<1>1. \E r \in S : RankIn(S, r) = i
  <2>1. SUFFICES ASSUME \A r \in S : RankIn(S, r) # i
                 PROVE  FALSE
    OBVIOUS
  <2> DEFINE T == 0..(Cardinality(S) - 1)
             f == [r \in S |-> RankIn(S, r)]
  <2>2. Cardinality(S) \in Nat
    BY FS_CardinalityType
  <2>3. IsFiniteSet(T) /\ Cardinality(T) = Cardinality(S)
    BY <2>2, FS_Interval
  <2>4. IsFiniteSet(T \ {i}) /\ Cardinality(T \ {i}) < Cardinality(S)
    <3>1. i \in T
      OBVIOUS
    <3>2. IsFiniteSet(T \ {i}) /\ Cardinality(T \ {i}) = Cardinality(T) - 1
      <4> HIDE DEF T
      <4> QED
        BY <2>3, <3>1, FS_RemoveElement
    <3> QED
      BY <2>2, <2>3, <3>2
  <2>5. f \in [S -> T \ {i}]
    BY <2>1, RankInBounds
  <2>6. \E x, y \in S : x # y /\ f[x] = f[y]
    <3> HIDE DEF f, T
    <3> QED
      BY <2>4, <2>5, FS_PigeonHole, Zenon
  <2> QED
    BY <2>6, RankInInjective
<1> QED
  BY <1>1 DEF Member

(* MaxOf finds a maximum: the member whose rank is the last.               *)
LEMMA MaxOfIsMaximum ==
  ASSUME NEW S \in SUBSET Int, IsFiniteSet(S), S # {}
  PROVE  MaxOf(S) \in S /\ \A y \in S : y <= MaxOf(S)
<1>1. Cardinality(S) \in Nat \ {0}
  BY FS_CardinalityType, FS_EmptySet
<1>2. PICK x \in S : RankIn(S, x) = Cardinality(S) - 1
  <2>1. Cardinality(S) - 1 \in 0..(Cardinality(S) - 1)
    BY <1>1
  <2> QED
    BY <2>1, MemberHasRank
<1>3. \A y \in S : y <= x
  <2>1. SUFFICES ASSUME NEW y \in S, x < y
                 PROVE  FALSE
    OBVIOUS
  <2>2. RankIn(S, x) < RankIn(S, y)
    BY <2>1, RankInMonotonic
  <2>3. RankIn(S, y) \in 0..(Cardinality(S) - 1)
    BY RankInBounds
  <2> QED
    BY <1>1, <1>2, <2>2, <2>3
<1> QED
  BY <1>3 DEF MaxOf

(* world_root_verify_smp_size (mmu_mpi.c:340-357): the maximum of the      *)
(* sizes equals minus the maximum of their negations exactly if all sizes  *)
(* are the same.                                                           *)
THEOREM MaximaAgreeIffEqual ==
  ASSUME NEW S \in SUBSET Int, IsFiniteSet(S), S # {}
  PROVE  MaxOf(S) = -MaxOf({-n : n \in S}) <=> \A m, n \in S : m = n
<1> DEFINE Neg == {-n : n \in S}
<1>1. IsFiniteSet(Neg)
  <2> DEFINE f == [n \in S |-> -n]
  <2>1. f \in Surjection(S, Neg)
    BY DEF Surjection
  <2> HIDE DEF f, Neg
  <2> QED
    BY <2>1, FS_Surjection
<1>2. Neg \in SUBSET Int /\ Neg # {}
  OBVIOUS
<1>3. MaxOf(Neg) \in Neg /\ \A y \in Neg : y <= MaxOf(Neg)
  <2> HIDE DEF Neg
  <2> QED
    BY <1>1, <1>2, MaxOfIsMaximum
<1>4. PICK low \in S : MaxOf(Neg) = -low
  BY <1>3
<1>5. \A n \in S : low <= n
  <2>1. SUFFICES ASSUME NEW n \in S
                 PROVE  low <= n
    OBVIOUS
  <2>2. -n <= -low
    BY <1>3, <1>4
  <2> QED
    BY <2>2
<1>6. MaxOf(S) \in S /\ \A y \in S : y <= MaxOf(S)
  BY MaxOfIsMaximum
<1>7. -MaxOf(Neg) = low
  BY <1>4
<1>8. MaxOf(S) = low <=> \A m, n \in S : m = n
  <2>1. ASSUME MaxOf(S) = low, NEW m \in S, NEW n \in S
        PROVE  m = n
    <3>1. m <= low /\ low <= m /\ n <= low /\ low <= n
      BY <1>5, <1>6, <2>1
    <3> QED
      BY <3>1
  <2>2. ASSUME \A m, n \in S : m = n
        PROVE  MaxOf(S) = low
    BY <1>6, <2>2
  <2> QED
    BY <2>1, <2>2
<1> QED
  BY <1>7, <1>8, Zenon

-----------------------------------------------------------------------------
(***************************************************************************)
(* The inductive invariant.                                                *)
(***************************************************************************)

(* How many MPI calls a function makes. *)
CallsIn(p) ==
  IF p = "work" THEN LastWork
  ELSE IF p \in {"node_mma", "global_mma"} THEN LastReduction
  ELSE IF p \in MpiPc THEN 1
  ELSE 0

(* Between two calls of a function there is one left to make; a process in *)
(* a call has entered it.                                                  *)
Counting(r) ==
  /\ step[r] <= CallsIn(pc[r])
  /\ blocked[r] = "none" => step[r] = 0 \/ step[r] < CallsIn(pc[r])
  /\ blocked[r] # "none" => pc[r] \in MpiPc /\ step[r] > 0

(* A process that has yet to sample before MPI_Init has made no MPI call.  *)
Early(r) == pc[r] \in {"setup", "sample_pre"} => log[r]["world"] = << >>

(* A process belongs to its own worker communicator once that is split.    *)
HasWorkers(r) ==
  pc[r] \in {"num_nodes", "verify", "work", "sample_post"} => r \in Workers(r)

(* Whoever got past the start of main has samples to take.                 *)
HasSamples(r) == pc[r] \notin {"setup", "exited"} => args.iters > 0

ControlOf(r) == Counting(r) /\ Early(r) /\ HasWorkers(r) /\ HasSamples(r)

Control == \A r \in Rank : ControlOf(r)

TypeInv == TypeOK /\ Control

-----------------------------------------------------------------------------
(* The calls a process makes *)

(* Every rank the neighbour arithmetic of mmu_mpi_work arrives at is one.  *)
LEMMA RingNeighbors ==
  ASSUME NEW r \in Rank
  PROVE  /\ RightNeighbor(r) \in Rank
         /\ LeftNeighbor(r) \in Rank
<1>1. N \in Nat /\ N > 0 /\ r \in Int
  BY NAssumption DEF Rank
<1>2. ASSUME NEW k \in Int
      PROVE  k % N \in 0..(N - 1)
  BY <1>1
<1>3. (r + 1) % N \in 0..(N - 1)
  <2>1. r + 1 \in Int
    BY <1>1
  <2> QED
    BY <1>2, <2>1, Zenon
<1>4. (r + N - 1) % N \in 0..(N - 1)
  <2>1. r + N - 1 \in Int
    BY <1>1
  <2> QED
    BY <1>2, <2>1, Zenon
<1> QED
  BY <1>3, <1>4 DEF Rank, RightNeighbor, LeftNeighbor

LEMMA WorkerNeighbors ==
  ASSUME TypeOK, NEW r \in Rank, r \in Workers(r), NEW i \in 1..3
  PROVE  /\ RightWorker(r, i) \in Rank
         /\ LeftWorker(r, i) \in Rank
<1> DEFINE W == Workers(r)
           n == NumWorkers(r)
           w == WorkerRank(r)
<1>1. W \subseteq Rank
  BY DEF TypeOK, MpiTypeOK, Workers, Communicator
<1>2. IsFiniteSet(W) /\ W \in SUBSET Int
  <2>1. Rank \in SUBSET Int
    BY DEF Rank
  <2>2. W \in SUBSET Int
    BY <1>1, <2>1
  <2>3. IsFiniteSet(W)
    <3> HIDE DEF W
    <3> QED
      BY <1>1, RanksAreFinite, FS_Subset
  <2> QED
    BY <2>2, <2>3
<1>3. w \in 0..(n - 1)
  BY <1>2, RankInBounds DEF WorkerRank, NumWorkers
<1>4. n \in Nat \ {0}
  BY <1>2, <1>3, FS_CardinalityType DEF NumWorkers
<1>5. \A k \in 0..(n - 1) : Member(W, k) \in Rank
  BY <1>1, <1>2, MemberHasRank DEF NumWorkers
<1>6. \A k \in 0..(n - 1) : OneLeft(k, n) \in 0..(n - 1)
  <2> HIDE DEF n
  <2> QED
    BY <1>4 DEF OneLeft
<1>7. (w + i) % n \in 0..(n - 1)
  <2> HIDE DEF n, w
  <2> QED
    BY <1>3, <1>4
<1>8. RightWorker(r, i) \in Rank
  BY <1>5, <1>7 DEF RightWorker
<1>9. LeftWorker(r, i) \in Rank
  <2>1. /\ OneLeft(w, n) \in 0..(n - 1)
        /\ OneLeft(OneLeft(w, n), n) \in 0..(n - 1)
        /\ OneLeft(OneLeft(OneLeft(w, n), n), n) \in 0..(n - 1)
    BY <1>3, <1>6
  <2>2. i = 1 \/ i = 2 \/ i = 3
    OBVIOUS
  <2> QED
    BY <1>5, <2>1, <2>2 DEF LeftWorker
<1> QED
  BY <1>8, <1>9

LEMMA BuffSizeIsInt ==
  ASSUME TypeOK, NEW r \in Rank
  PROVE  BuffSize(r) \in Int
<1>1. sizeCalls[r] \in 0..4 /\ Len(MsgSizes) = 5
  BY DEF TypeOK, MsgSizes
<1>2. (sizeCalls[r] % 5) + 1 \in 1..5
  BY <1>1
<1> QED
  BY <1>1, <1>2 DEF BuffSize, MsgSizes

LEMMA WorkCallType ==
  ASSUME TypeOK, NEW r \in Rank, r \in Workers(r), NEW n \in 1..LastWork
  PROVE  /\ WorkCall(r, n) \in Call
         /\ WorkCall(r, n).op \in {"max_double", "barrier", "sendrecv"}
<1>1. ASSUME NEW to \in Rank, NEW from \in Rank
      PROVE  /\ Sendrecv(to, from, BuffSize(r)) \in Call
             /\ Sendrecv(to, from, BuffSize(r)).op = "sendrecv"
  BY BuffSizeIsInt DEF Sendrecv, Call, Op
<1>2. CASE n = 1
  BY <1>2 DEF WorkCall, Collective, Call, Op, Rendezvous, Rank
<1>3. CASE n = 2
  BY <1>3 DEF WorkCall, Collective, Call, Op, Rendezvous
<1>4. CASE n = 3
  BY <1>1, <1>4, RingNeighbors DEF WorkCall
<1>5. CASE n = 4
  BY <1>1, <1>5, RingNeighbors DEF WorkCall
<1>6. CASE n > 4
  <2> DEFINE i == (n - 3) \div 2
  <2>1. i \in 1..3
    BY <1>6 DEF LastWork
  <2>2. LeftWorker(r, i) \in Rank /\ RightWorker(r, i) \in Rank
    BY <2>1, WorkerNeighbors
  <2>3. n % 2 = 1 \/ n % 2 = 0
    OBVIOUS
  <2> HIDE DEF i
  <2>4. \/ WorkCall(r, n) = Sendrecv(LeftWorker(r, i), RightWorker(r, i), BuffSize(r))
        \/ WorkCall(r, n) = Sendrecv(RightWorker(r, i), LeftWorker(r, i), BuffSize(r))
    BY <1>6, <2>3 DEF WorkCall, i
  <2> QED
    BY <1>1, <2>2, <2>4
<1> QED
  BY <1>2, <1>3, <1>4, <1>5, <1>6 DEF LastWork

LEMMA NodeIsInt ==
  ASSUME TypeOK, NEW r \in Rank
  PROVE  node[r] \in Int
BY PlacementAssumption DEF TypeOK

(* What a process calls next, and where: only the split of mmu_mpi_init by *)
(* node carries a node, only world_root_verify_smp_size a size.            *)
LEMMA NextCallType ==
  ASSUME TypeInv, NEW r \in Rank, pc[r] \in MpiPc, blocked[r] = "none"
  PROVE  /\ NextCall(r) \in Call
         /\ CallContext(r) \in Context
         /\ NextCall(r).op = "split_type" =>
              pc[r] = "split_smp" /\ NextCall(r).val = node[r]
         /\ NextCall(r).op = "max_int2" =>
              pc[r] = "verify" /\ NextCall(r).val = smpSize[r]
         /\ pc[r] = "split_smp" =>
              CallContext(r) = "world" /\ NextCall(r).op = "split_type"
         /\ pc[r] = "verify" =>
              CallContext(r) = "world" /\ NextCall(r).op = "max_int2"
<1> USE DEF NextCall, CallContext, Context, Communicator, Collective, Call, Op,
            Rendezvous, Loose
<1>1. CASE pc[r] = "work"
  <2>1. step[r] + 1 \in 1..LastWork /\ r \in Workers(r)
    <3>1. Counting(r) /\ HasWorkers(r)
      BY DEF TypeInv, Control, ControlOf
    <3>2. step[r] \in Nat /\ CallsIn(pc[r]) = LastWork
      BY <1>1 DEF TypeInv, TypeOK, CallsIn
    <3> QED
      BY <1>1, <3>1, <3>2 DEF Counting, HasWorkers, LastWork
  <2>2. /\ WorkCall(r, step[r] + 1) \in Call
        /\ WorkCall(r, step[r] + 1).op \in {"max_double", "barrier", "sendrecv"}
    BY <2>1, WorkCallType DEF TypeInv
  <2>3. NextCall(r) = WorkCall(r, step[r] + 1)
    BY <1>1
  <2>4. CallContext(r) \in Context
    BY <1>1 DEF WorkContext
  <2>5. NextCall(r).op \notin {"split_type", "max_int2"}
    BY <2>2, <2>3
  <2> QED
    BY <1>1, <2>2, <2>3, <2>4, <2>5
<1>2. CASE pc[r] = "node_mma"
  <2>1. NodeReduction(step[r] + 1) \in {"max_ull", "min_ull", "sum_double"}
    <3>1. step[r] + 1 \in Nat
      BY DEF TypeInv, TypeOK
    <3>2. \/ (step[r] + 1) % 3 = 0
          \/ (step[r] + 1) % 3 = 1
          \/ (step[r] + 1) % 3 = 2
      BY <3>1
    <3> QED
      BY <3>2 DEF NodeReduction
  <2> QED
    BY <1>2, <2>1
<1>3. CASE pc[r] = "global_mma"
  <2>1. GlobalReduction(step[r] + 1) \in {"max_ull", "min_ull", "sum_double"}
    <3>1. step[r] + 1 \in Nat
      BY DEF TypeInv, TypeOK
    <3>2. \/ (step[r] + 1) % 3 = 0
          \/ (step[r] + 1) % 3 = 1
          \/ (step[r] + 1) % 3 = 2
      BY <3>1
    <3> QED
      BY <3>2 DEF GlobalReduction
  <2> QED
    BY <1>3, <2>1
<1>4. CASE pc[r] \in {"split_smp", "split_worker", "verify"}
  <2>1. node[r] \in Int /\ smpRank[r] \in Int /\ smpSize[r] \in Int
    BY NodeIsInt DEF TypeInv, TypeOK
  <2> QED
    BY <1>4, <2>1
<1>5. CASE pc[r] \in {"init", "num_nodes", "free_smp", "free_worker", "finalize"}
  BY <1>5
<1> QED
  BY <1>1, <1>2, <1>3, <1>4, <1>5 DEF MpiPc

-----------------------------------------------------------------------------
(* Type correctness *)

LEMMA InitTypeInv == Init => TypeInv
<1> SUFFICES ASSUME Init PROVE TypeInv
  OBVIOUS
<1>1. MpiTypeOK
  BY DEF Init, MpiInit, MpiTypeOK, Communicator
<1>2. TypeOK
  BY <1>1, NAssumption DEF Init, TypeOK, Pc, LastReduction, MsgSizes
<1>3. Control
  BY DEF Init, MpiInit, Control, ControlOf, Counting, Early, HasWorkers, HasSamples,
         CallsIn, MpiPc, Communicator, Context
<1> QED
  BY <1>2, <1>3 DEF TypeInv

LEMMA ItersIsNat == TypeOK => args.iters \in Nat
BY CommandLineAssumption DEF TypeOK

LEMMA StutterTypeInv == TypeInv /\ UNCHANGED vars => TypeInv'
<1> SUFFICES ASSUME TypeInv, UNCHANGED vars PROVE TypeInv'
  OBVIOUS
<1>1. TypeOK'
  BY DEF vars, TypeInv, TypeOK, MpiTypeOK
<1>2. Control'
  BY DEF vars, TypeInv, Control, ControlOf, Counting, Early, HasWorkers,
     HasSamples, Workers
<1> QED
  BY <1>1, <1>2 DEF TypeInv

(* A step of one process leaves the others where they are.                 *)
Same(s) ==
  /\ pc'[s] = pc[s]
  /\ step'[s] = step[s]
  /\ blocked'[s] = blocked[s]
  /\ log'[s] = log[s]
  /\ comm'[s] = comm[s]

LEMMA OthersStay ==
  ASSUME TypeOK, NEW r \in Rank, Run(r) \/ Failure(r)
  PROVE  args' = args /\ \A s \in Rank \ {r} : Same(s)
<1> USE DEF TypeOK, MpiTypeOK, Same, Fail, Goto, Proceed, Returns, Enter, Leave, jobVars
<1>1. CASE Setup(r)
  BY <1>1 DEF Setup
<1>2. CASE SetupFails(r)
  BY <1>2 DEF SetupFails
<1>3. CASE TakeSample(r)
  BY <1>3 DEF TakeSample
<1>4. CASE TakeSampleFails(r)
  BY <1>4 DEF TakeSampleFails
<1>5. CASE EnterCall(r)
  BY <1>5 DEF EnterCall
<1>6. CASE FinishInit(r)
  BY <1>6 DEF FinishInit
<1>7. CASE FinishSplitSmp(r)
  BY <1>7 DEF FinishSplitSmp
<1>8. CASE FinishSplitWorker(r)
  BY <1>8 DEF FinishSplitWorker
<1>9. CASE FinishNumNodes(r)
  BY <1>9 DEF FinishNumNodes
<1>10. CASE FinishVerify(r)
  BY <1>10 DEF FinishVerify, PpnDiffers, PpnAgrees
<1>11. CASE FinishWork(r)
  BY <1>11 DEF FinishWork
<1>12. CASE WorkFails(r)
  BY <1>12 DEF WorkFails
<1>13. CASE LocalMmas(r)
  BY <1>13 DEF LocalMmas
<1>14. CASE FinishNodeMma(r)
  BY <1>14 DEF FinishNodeMma
<1>15. CASE FinishGlobalMma(r)
  BY <1>15 DEF FinishGlobalMma
<1>16. CASE UsageFails(r)
  BY <1>16 DEF UsageFails
<1>17. CASE FinishFreeSmp(r)
  BY <1>17 DEF FinishFreeSmp
<1>18. CASE FinishFreeWorker(r)
  BY <1>18 DEF FinishFreeWorker
<1>19. CASE FinishFinalize(r)
  BY <1>19 DEF FinishFinalize
<1> QED
  BY <1>1, <1>2, <1>3, <1>4, <1>5, <1>6, <1>7, <1>8, <1>9, <1>10, <1>11,
     <1>12, <1>13, <1>14, <1>15, <1>16, <1>17, <1>18, <1>19 DEF Run, Failure,
     Return

LEMMA ControlStep ==
  ASSUME Control, NEW r \in Rank, args' = args, \A s \in Rank \ {r} : Same(s),
         ControlOf(r)'
  PROVE  Control'
<1>1. SUFFICES ASSUME NEW s \in Rank, s # r
               PROVE  ControlOf(s)'
  BY DEF Control
<1>2. ControlOf(s) /\ Same(s)
  BY <1>1 DEF Control
<1> QED
  BY <1>2 DEF ControlOf, Counting, Early, HasWorkers, HasSamples, Workers, Same

LEMMA SubsetOfRanks ==
  ASSUME NEW S \in SUBSET Rank
  PROVE  IsFiniteSet(S) /\ Cardinality(S) \in Nat
<1>1. IsFiniteSet(S)
  BY RanksAreFinite, FS_Subset
<1> QED
  BY <1>1, FS_CardinalityType

SampleLists == [SampleType -> Seq({"real", "bogus"})]

LEMMA SampleListsGrow ==
  ASSUME NEW lists \in SampleLists, NEW flags
  PROVE  WithSelf(lists, flags) \in SampleLists /\ WithNode(lists, flags) \in SampleLists
BY DEF SampleLists, SampleType, WithSelf, WithNode, SelfList, NodeList, NodeSample

LEMMA ProceedType ==
  ASSUME pc \in [Rank -> Pc], step \in [Rank -> 0..LastReduction],
         NEW r \in Rank, NEW where \in Pc, Proceed(r, where) \/ UNCHANGED <<pc, step>>
  PROVE  pc' \in [Rank -> Pc] /\ step' \in [Rank -> 0..LastReduction]
<1>1. CASE Proceed(r, where)
  BY <1>1 DEF Proceed, Goto, LastReduction
<1>2. CASE UNCHANGED <<pc, step>>
  BY <1>2
<1> QED
  BY <1>1, <1>2

LEMMA StepTypeOK ==
  ASSUME TypeInv, NEW r \in Rank, Run(r) \/ Failure(r)
  PROVE  TypeOK'
<1> USE DEF TypeInv, TypeOK, MpiTypeOK, Pc, MpiPc, Fail, Goto, Proceed, Returns,
            Leave, jobVars, infoVars, dataVars, LastReduction, LastWork
<1>1. CASE Setup(r)
  BY <1>1 DEF Setup
<1>2. CASE SetupFails(r)
  BY <1>2 DEF SetupFails
<1>3. CASE TakeSample(r)
  <2>1. args.iters \in Nat /\ args.iters > 0
    BY <1>3, ItersIsNat DEF Control, ControlOf, HasSamples, TakeSample
  <2>2. samples' \in [Rank -> SampleLists]
    BY <1>3, SampleListsGrow DEF TakeSample, SampleLists
  <2>3. iter' \in [Rank -> Nat]
    BY <1>3 DEF TakeSample
  <2>4. \A s \in Rank : iter'[s] = 0 \/ iter'[s] < args.iters
    <3>1. iter[r] \in Nat /\ (iter[r] = 0 \/ iter[r] < args.iters)
      OBVIOUS
    <3>2. iter[r] + 1 # args.iters => iter[r] + 1 < args.iters
      BY <2>1, <3>1
    <3>3. iter'[r] = 0 \/ iter'[r] < args.iters
      BY <1>3, <3>2 DEF TakeSample
    <3>4. \A s \in Rank \ {r} : iter'[s] = iter[s]
      BY <1>3 DEF TakeSample
    <3> QED
      BY <3>3, <3>4
  <2>5. pc' \in [Rank -> Pc]
    BY <1>3 DEF TakeSample, StartIteration
  <2> QED
    BY <1>3, <2>2, <2>3, <2>4, <2>5 DEF TakeSample, SampleLists
<1>4. CASE TakeSampleFails(r)
  <2>1. samples' \in [Rank -> SampleLists]
    <3>1. samples \in [Rank -> SampleLists]
      BY DEF SampleLists
    <3>2. WithSelf(samples[r], Flags(r)) \in SampleLists
      BY <3>1, SampleListsGrow
    <3>3. \/ UNCHANGED samples
          \/ samples' = [samples EXCEPT ![r] = WithSelf(@, Flags(r))]
      BY <1>4 DEF TakeSampleFails
    <3> QED
      BY <3>1, <3>2, <3>3
  <2> QED
    BY <1>4, <2>1 DEF TakeSampleFails, SampleLists
<1>5. CASE EnterCall(r)
  <2>1. NextCall(r) \in Call /\ CallContext(r) \in Context
    BY <1>5, NextCallType DEF EnterCall, Enter
  <2>2. log' \in [Rank -> [Context -> Seq(Call)]]
    BY <1>5, <2>1 DEF EnterCall, Enter
  <2>3. blocked' \in [Rank -> Context \cup {"none"}]
    BY <1>5, <2>1 DEF EnterCall, Enter
  <2>4. step' \in [Rank -> 0..LastReduction]
    <3>1. Counting(r)
      BY DEF Control, ControlOf
    <3>2. step[r] + 1 \in 0..LastReduction
      <4>1. step[r] \in Nat /\ blocked[r] = "none"
        <5>1. step \in [Rank -> 0..LastReduction]
          OBVIOUS
        <5> HIDE DEF TypeInv, TypeOK
        <5> QED
          BY <1>5, <5>1 DEF EnterCall, Enter
      <4>2. CallsIn(pc[r]) \in 1..LastReduction
        BY <1>5 DEF EnterCall, CallsIn
      <4> HIDE DEF TypeInv, TypeOK
      <4>3. step[r] = 0 \/ step[r] < CallsIn(pc[r])
        BY <3>1, <4>1 DEF Counting
      <4> QED
        BY <4>1, <4>2, <4>3
    <3> QED
      BY <1>5, <3>2 DEF EnterCall
  <2> QED
    BY <1>5, <2>2, <2>3, <2>4 DEF EnterCall
<1>6. CASE FinishInit(r)
  BY <1>6 DEF FinishInit
<1>7. CASE FinishSplitSmp(r)
  <2>1. SameColor(r) \in SUBSET Rank
    BY DEF SameColor
  <2>2. Cardinality(SameColor(r)) \in Nat /\ RankIn(SameColor(r), r) \in Nat
    BY <2>1, SubsetOfRanks DEF RankIn
  <2>3. comm' \in [Rank -> [Communicator -> SUBSET Rank]]
    BY <1>7, <2>1 DEF FinishSplitSmp
  <2> QED
    BY <1>7, <2>2, <2>3 DEF FinishSplitSmp
<1>8. CASE FinishSplitWorker(r)
  <2>1. SameColor(r) \in SUBSET Rank
    BY DEF SameColor
  <2>2. comm' \in [Rank -> [Communicator -> SUBSET Rank]]
    BY <1>8, <2>1 DEF FinishSplitWorker
  <2> QED
    BY <1>8, <2>2 DEF FinishSplitWorker
<1>9. CASE FinishNumNodes(r)
  <2> DEFINE leaders == {s \in Rank : Contribution(r, s) = 1}
  <2>1. Cardinality(leaders) \in Nat
    BY SubsetOfRanks
  <2> HIDE DEF leaders
  <2>2. numNodes' = [numNodes EXCEPT ![r] = Cardinality(leaders)]
    BY <1>9 DEF FinishNumNodes, leaders
  <2> QED
    BY <1>9, <2>1, <2>2 DEF FinishNumNodes
<1>10. CASE FinishVerify(r)
  <2>1. CASE PpnDiffers(r)
    BY <1>10, <2>1 DEF FinishVerify, PpnDiffers
  <2>2. CASE PpnAgrees(r)
    BY <1>10, <2>2 DEF FinishVerify, PpnAgrees, StartIteration
  <2> QED
    BY <1>10, <2>1, <2>2 DEF FinishVerify
<1>11. CASE FinishWork(r)
  <2>1. sizeCalls' \in [Rank -> 0..(Len(MsgSizes) - 1)]
    <3>1. Len(MsgSizes) = 5
      BY DEF MsgSizes
    <3>2. (sizeCalls[r] + 1) % 5 \in 0..4
      <4>1. sizeCalls[r] \in Int
        <5>1. sizeCalls \in [Rank -> 0..(Len(MsgSizes) - 1)]
          OBVIOUS
        <5> HIDE DEF TypeInv, TypeOK
        <5> QED
          BY <3>1, <5>1
      <4> HIDE DEF TypeInv, TypeOK
      <4> QED
        BY <4>1
    <3> QED
      BY <1>11, <3>1, <3>2 DEF FinishWork
  <2>2. step' \in [Rank -> 0..LastReduction] /\ pc' \in [Rank -> Pc] /\ ec' \in [Rank -> {0, 1}]
    <3>1. CASE InvalidResult(r)
      <4>1. Fail(r) /\ step' = [step EXCEPT ![r] = 0]
        BY <1>11, <3>1 DEF FinishWork
      <4> QED
        BY <4>1
    <3>2. CASE ~InvalidResult(r) /\ step[r] = LastWork
      <4>1. Proceed(r, "sample_post") /\ UNCHANGED ec
        BY <1>11, <3>2 DEF FinishWork
      <4> QED
        BY <4>1
    <3>3. CASE ~InvalidResult(r) /\ step[r] # LastWork
      BY <1>11, <3>3 DEF FinishWork
    <3> QED
      BY <3>1, <3>2, <3>3
  <2> QED
    BY <1>11, <2>1, <2>2 DEF FinishWork
<1>12. CASE WorkFails(r)
  BY <1>12 DEF WorkFails
<1>13. CASE LocalMmas(r)
  BY <1>13 DEF LocalMmas
<1>14. CASE FinishNodeMma(r)
  <2>1. Proceed(r, "global_mma") \/ UNCHANGED <<pc, step>>
    BY <1>14 DEF FinishNodeMma
  <2>2. pc' \in [Rank -> Pc] /\ step' \in [Rank -> 0..LastReduction]
    <3>1. pc \in [Rank -> Pc] /\ step \in [Rank -> 0..LastReduction]
      OBVIOUS
    <3>2. {"global_mma", "free_smp"} \subseteq Pc
      OBVIOUS
    <3> HIDE DEF TypeInv, TypeOK, Pc, Proceed, LastReduction
    <3> QED
      BY <2>1, <3>1, <3>2, ProceedType
  <2> QED
    BY <1>14, <2>2 DEF FinishNodeMma
<1>15. CASE FinishGlobalMma(r)
  <2>1. Proceed(r, "free_smp") \/ UNCHANGED <<pc, step>>
    BY <1>15 DEF FinishGlobalMma
  <2>2. pc' \in [Rank -> Pc] /\ step' \in [Rank -> 0..LastReduction]
    <3>1. pc \in [Rank -> Pc] /\ step \in [Rank -> 0..LastReduction]
      OBVIOUS
    <3>2. {"global_mma", "free_smp"} \subseteq Pc
      OBVIOUS
    <3> HIDE DEF TypeInv, TypeOK, Pc, Proceed, LastReduction
    <3> QED
      BY <2>1, <3>1, <3>2, ProceedType
  <2>3. said' \in [Rank -> SUBSET {"ppn_differs", "settings", "report"}]
    <3>1. \/ UNCHANGED said
          \/ said' = [said EXCEPT ![r] = IF r = 0 THEN @ \cup {"report"} ELSE @]
      BY <1>15 DEF FinishGlobalMma
    <3>2. said \in [Rank -> SUBSET {"ppn_differs", "settings", "report"}]
      OBVIOUS
    <3> HIDE DEF TypeInv, TypeOK
    <3> QED
      BY <3>1, <3>2
  <2>4. /\ Leave(r)
        /\ UNCHANGED <<comm, jobVars, iter, infoVars, sizeCalls, dataVars, ec>>
    BY <1>15 DEF FinishGlobalMma
  <2> QED
    BY <2>2, <2>3, <2>4
<1>16. CASE UsageFails(r)
  BY <1>16 DEF UsageFails
<1>17. CASE FinishFreeSmp(r)
  BY <1>17 DEF FinishFreeSmp
<1>18. CASE FinishFreeWorker(r)
  BY <1>18 DEF FinishFreeWorker
<1>19. CASE FinishFinalize(r)
  BY <1>19 DEF FinishFinalize
<1> QED
  BY <1>1, <1>2, <1>3, <1>4, <1>5, <1>6, <1>7, <1>8, <1>9, <1>10, <1>11,
     <1>12, <1>13, <1>14, <1>15, <1>16, <1>17, <1>18, <1>19 DEF Run, Failure,
     Return

-----------------------------------------------------------------------------
(* Control *)

(* A process that gets to a function between two MPI calls.                *)
LEMMA Arrive ==
  ASSUME NEW r \in Rank, NEW where, pc'[r] = where, step'[r] = 0, blocked'[r] = "none",
         args' = args, args.iters > 0 \/ where = "exited",
         where \notin {"setup", "sample_pre"},
         where \in {"num_nodes", "verify", "work", "sample_post"} => r \in Workers(r)'
  PROVE  ControlOf(r)'
BY DEF ControlOf, Counting, CallsIn, Early, HasWorkers, HasSamples, LastWork,
   LastReduction

(* The return of the last call of a function.                              *)
LEMMA ProceedControl ==
  ASSUME TypeInv, NEW r \in Rank, NEW from, from \in MpiPc, Returns(r, from),
         NEW where, Proceed(r, where), where \notin {"setup", "sample_pre"},
         args' = args,
         where \in {"num_nodes", "verify", "work", "sample_post"} => r \in Workers(r)'
  PROVE  ControlOf(r)'
<1>1. args.iters > 0
  BY DEF TypeInv, Control, ControlOf, HasSamples, Returns, MpiPc
<1>2. pc'[r] = where /\ step'[r] = 0
  BY DEF TypeInv, TypeOK, Proceed, Goto
<1>3. blocked'[r] = "none"
  BY DEF TypeInv, TypeOK, MpiTypeOK, Returns, Leave
<1> QED
  BY <1>1, <1>2, <1>3, Arrive

(* A process outside MPI has no call to count.                             *)
LEMMA OutsideMpi ==
  ASSUME TypeInv, NEW r \in Rank, pc[r] \notin MpiPc
  PROVE  step[r] = 0 /\ blocked[r] = "none"
<1>1. Counting(r)
  BY DEF TypeInv, Control, ControlOf
<1>2. CallsIn(pc[r]) = 0
  BY DEF CallsIn, MpiPc
<1>3. step[r] \in Nat
  BY DEF TypeInv, TypeOK
<1>4. blocked[r] = "none"
  BY <1>1 DEF Counting
<1> QED
  BY <1>1, <1>2, <1>3, <1>4 DEF Counting

LEMMA StepControl ==
  ASSUME TypeInv, NEW r \in Rank, Run(r) \/ Failure(r)
  PROVE  ControlOf(r)'
<1>1. ControlOf(r) /\ TypeOK
  BY DEF TypeInv, Control
<1>2. args' = args
  BY <1>1, OthersStay
<1>3. CASE Setup(r)
  <2>1. step[r] = 0 /\ blocked[r] = "none"
    BY <1>3, OutsideMpi DEF Setup, MpiPc
  <2>2. step'[r] = 0 /\ blocked'[r] = "none" /\ log'[r] = log[r]
    BY <1>3, <2>1 DEF Setup
  <2>3. \/ pc'[r] = "exited"
        \/ pc'[r] = "sample_pre" /\ args.iters > 0 /\ log[r]["world"] = << >>
    BY <1>1, <1>3 DEF Setup, Goto, TypeOK, ControlOf, Early
  <2> QED
    BY <1>2, <2>2, <2>3 DEF ControlOf, Counting, CallsIn, Early, HasWorkers,
       HasSamples, MpiPc
<1>4. CASE SetupFails(r)
  <2>1. step[r] = 0 /\ blocked[r] = "none"
    BY <1>4, OutsideMpi DEF SetupFails, MpiPc
  <2>2. step'[r] = 0 /\ blocked'[r] = "none"
    BY <1>4, <2>1 DEF SetupFails
  <2>3. pc'[r] = "exited"
    BY <1>1, <1>4 DEF SetupFails, Fail, Goto, TypeOK, ControlOf, Early, Initialized
  <2> QED
    BY <1>2, <2>2, <2>3, Arrive
<1>5. CASE TakeSample(r)
  <2>1. /\ step[r] = 0 /\ blocked[r] = "none"
        /\ args.iters > 0
    BY <1>1, <1>5, OutsideMpi DEF TakeSample, MpiPc, ControlOf, HasSamples
  <2>2. step'[r] = 0 /\ blocked'[r] = "none" /\ comm' = comm /\ log' = log
    BY <1>5, <2>1 DEF TakeSample
  <2>3. \/ pc'[r] \in {"local_mma", "init"}
        \/ pc'[r] = "sample_pre" /\ log[r]["world"] = << >>
        \/ pc'[r] \in {"work", "sample_post"} /\ Initialized(r)
    BY <1>1, <1>5 DEF TakeSample, Goto, TypeOK, StartIteration, Initialized
  <2>4. Initialized(r) => r \in Workers(r)
    BY <1>1, <1>5 DEF TakeSample, ControlOf, Early, HasWorkers, Initialized
  <2> QED
    BY <1>2, <2>1, <2>2, <2>3, <2>4
    DEF ControlOf, Counting, CallsIn, Early, HasWorkers, HasSamples, Workers, MpiPc,
        LastWork
<1>6. CASE TakeSampleFails(r)
  <2>1. step[r] = 0 /\ blocked[r] = "none" /\ args.iters > 0
    BY <1>1, <1>6, OutsideMpi DEF TakeSampleFails, MpiPc, ControlOf, HasSamples
  <2>2. step'[r] = 0 /\ blocked'[r] = "none"
    BY <1>6, <2>1 DEF TakeSampleFails
  <2>3. pc'[r] \in {"free_smp", "exited"}
    BY <1>1, <1>6 DEF TakeSampleFails, Fail, Goto, TypeOK
  <2> QED
    BY <1>2, <2>1, <2>2, <2>3, Arrive
<1>7. CASE EnterCall(r)
  <2>1. /\ pc' = pc /\ comm' = comm
        /\ pc[r] \in MpiPc
        /\ blocked[r] = "none"
    BY <1>7 DEF EnterCall, Enter
  <2>2. step[r] \in Nat /\ step'[r] = step[r] + 1
    BY <1>1, <1>7 DEF EnterCall, TypeOK
  <2>3. step[r] < CallsIn(pc[r])
    <3>1. CallsIn(pc[r]) \in Nat \ {0}
      BY <2>1 DEF CallsIn, LastWork, LastReduction
    <3> QED
      BY <1>1, <2>1, <2>2, <3>1 DEF ControlOf, Counting
  <2>4. blocked'[r] # "none"
    <3>1. CallContext(r) \in Context
      BY <2>1, NextCallType
    <3> QED
      BY <1>1, <1>7, <3>1 DEF EnterCall, Enter, TypeOK, MpiTypeOK, Context, Communicator
  <2>5. CallsIn(pc[r]) \in Nat
    BY DEF CallsIn, LastWork, LastReduction
  <2>6. Counting(r)'
    BY <2>1, <2>2, <2>3, <2>4, <2>5 DEF Counting, CallsIn
  <2> QED
    BY <1>1, <1>2, <2>1, <2>6 DEF ControlOf, Early, HasWorkers, HasSamples, Workers, MpiPc
<1>8. CASE FinishInit(r)
  BY <1>2, <1>8, ProceedControl DEF FinishInit, MpiPc
<1>9. CASE FinishSplitSmp(r)
  BY <1>2, <1>9, ProceedControl DEF FinishSplitSmp, MpiPc
<1>10. CASE FinishSplitWorker(r)
  <2>1. r \in SameColor(r)
    BY DEF SameColor
  <2>2. r \in Workers(r)'
    BY <1>1, <1>10, <2>1 DEF FinishSplitWorker, Workers, TypeOK, MpiTypeOK, Communicator
  <2> QED
    BY <1>2, <1>10, <2>2, ProceedControl DEF FinishSplitWorker, MpiPc
<1>11. CASE FinishNumNodes(r)
  <2>1. r \in Workers(r)'
    BY <1>1, <1>11 DEF FinishNumNodes, Returns, Workers, ControlOf, HasWorkers
  <2> QED
    BY <1>2, <1>11, <2>1, ProceedControl DEF FinishNumNodes, MpiPc
<1>12. CASE FinishVerify(r)
  <2>1. r \in Workers(r)'
    BY <1>1, <1>12 DEF FinishVerify, Returns, Workers, ControlOf, HasWorkers
  <2>2. PICK where : Proceed(r, where) /\ where \in {"free_smp", "work", "sample_post"}
    BY <1>12 DEF FinishVerify, PpnDiffers, PpnAgrees, StartIteration
  <2>3. Returns(r, "verify")
    BY <1>12 DEF FinishVerify
  <2> QED
    BY <1>2, <2>1, <2>2, <2>3, ProceedControl DEF MpiPc
<1>13. CASE FinishWork(r)
  <2>1. r \in Workers(r)' /\ Returns(r, "work")
    BY <1>1, <1>13 DEF FinishWork, Returns, Workers, ControlOf, HasWorkers
  <2>2. CASE InvalidResult(r)
    <3>1. pc'[r] \in {"free_smp", "exited"} /\ step'[r] = 0
      BY <1>1, <1>13, <2>2 DEF FinishWork, Fail, Goto, TypeOK
    <3>2. blocked'[r] = "none"
      BY <1>1, <2>1 DEF Returns, Leave, TypeOK, MpiTypeOK
    <3>3. args.iters > 0
      BY <1>1, <2>1 DEF Returns, ControlOf, HasSamples
    <3> QED
      BY <1>2, <3>1, <3>2, <3>3, Arrive
  <2>3. CASE ~InvalidResult(r) /\ step[r] = LastWork
    <3>1. Proceed(r, "sample_post")
      BY <1>13, <2>3 DEF FinishWork
    <3> QED
      BY <1>2, <2>1, <3>1, ProceedControl DEF MpiPc
  <2>4. CASE ~InvalidResult(r) /\ step[r] # LastWork
    <3>1. pc' = pc /\ step' = step /\ comm' = comm /\ log' = log
      BY <1>13, <2>4 DEF FinishWork, Returns, Leave
    <3>2. blocked'[r] = "none"
      BY <1>1, <2>1 DEF Returns, Leave, TypeOK, MpiTypeOK
    <3>3. step[r] < CallsIn(pc[r])
      <4>1. CallsIn(pc[r]) = LastWork /\ step[r] \in Nat
        BY <1>1, <2>1 DEF Returns, CallsIn, TypeOK
      <4> QED
        BY <1>1, <2>4, <4>1 DEF ControlOf, Counting, LastWork
    <3> QED
      BY <1>1, <1>2, <3>1, <3>2, <3>3
      DEF ControlOf, Counting, CallsIn, Early, HasWorkers, HasSamples, Workers
  <2> QED
    BY <2>2, <2>3, <2>4
<1>14. CASE WorkFails(r)
  <2>1. step'[r] = 0 /\ blocked'[r] = "none" /\ args.iters > 0
    BY <1>1, <1>14 DEF WorkFails, TypeOK, ControlOf, HasSamples
  <2>2. pc'[r] \in {"free_smp", "exited"}
    BY <1>1, <1>14 DEF WorkFails, Fail, Goto, TypeOK
  <2> QED
    BY <1>2, <2>1, <2>2, Arrive
<1>15. CASE LocalMmas(r)
  <2>1. pc'[r] = "node_mma" /\ step'[r] = 0
    BY <1>1, <1>15 DEF LocalMmas, Proceed, Goto, TypeOK
  <2>2. blocked'[r] = "none" /\ args.iters > 0
    BY <1>1, <1>15, OutsideMpi DEF LocalMmas, MpiPc, ControlOf, HasSamples
  <2> QED
    BY <1>2, <2>1, <2>2, Arrive
<1>16. CASE FinishNodeMma(r)
  <2>1. CASE step[r] = LastReduction
    BY <1>2, <1>16, <2>1, ProceedControl DEF FinishNodeMma, MpiPc
  <2>2. CASE step[r] # LastReduction
    <3>1. pc' = pc /\ step' = step /\ comm' = comm /\ log' = log /\ pc[r] = "node_mma"
      BY <1>16, <2>2 DEF FinishNodeMma, Returns, Leave
    <3>2. blocked'[r] = "none"
      BY <1>1, <1>16 DEF FinishNodeMma, Returns, Leave, TypeOK, MpiTypeOK
    <3>3. step[r] < CallsIn(pc[r])
      <4>1. CallsIn(pc[r]) = LastReduction /\ step[r] \in Nat
        BY <1>1, <3>1 DEF CallsIn, TypeOK
      <4> QED
        BY <1>1, <2>2, <4>1 DEF ControlOf, Counting, LastReduction
    <3> QED
      BY <1>1, <1>2, <3>1, <3>2, <3>3
      DEF ControlOf, Counting, CallsIn, Early, HasWorkers, HasSamples, Workers
  <2> QED
    BY <2>1, <2>2
<1>17. CASE FinishGlobalMma(r)
  <2>1. CASE step[r] = LastReduction
    BY <1>2, <1>17, <2>1, ProceedControl DEF FinishGlobalMma, MpiPc
  <2>2. CASE step[r] # LastReduction
    <3>1. pc' = pc /\ step' = step /\ comm' = comm /\ log' = log /\ pc[r] = "global_mma"
      BY <1>17, <2>2 DEF FinishGlobalMma, Returns, Leave
    <3>2. blocked'[r] = "none"
      BY <1>1, <1>17 DEF FinishGlobalMma, Returns, Leave, TypeOK, MpiTypeOK
    <3>3. step[r] < CallsIn(pc[r])
      <4>1. CallsIn(pc[r]) = LastReduction /\ step[r] \in Nat
        BY <1>1, <3>1 DEF CallsIn, TypeOK
      <4> QED
        BY <1>1, <2>2, <4>1 DEF ControlOf, Counting, LastReduction
    <3> QED
      BY <1>1, <1>2, <3>1, <3>2, <3>3
      DEF ControlOf, Counting, CallsIn, Early, HasWorkers, HasSamples, Workers
  <2> QED
    BY <2>1, <2>2
<1>18. CASE UsageFails(r)
  <2>1. step[r] = 0 /\ blocked[r] = "none"
    <3>1. CASE pc[r] = "local_mma"
      BY <3>1, OutsideMpi DEF MpiPc
    <3>2. CASE step[r] = 0
      BY <1>1, <3>2 DEF ControlOf, Counting
    <3> QED
      BY <1>18, <3>1, <3>2 DEF UsageFails
  <2>2. step'[r] = 0 /\ blocked'[r] = "none"
    BY <1>18, <2>1 DEF UsageFails
  <2>3. pc'[r] \in {"free_smp", "exited"} /\ args.iters > 0
    BY <1>1, <1>18 DEF UsageFails, Fail, Goto, TypeOK, ControlOf, HasSamples
  <2> QED
    BY <1>2, <2>2, <2>3, Arrive
<1>19. CASE FinishFreeSmp(r)
  BY <1>2, <1>19, ProceedControl DEF FinishFreeSmp, MpiPc
<1>20. CASE FinishFreeWorker(r)
  BY <1>2, <1>20, ProceedControl DEF FinishFreeWorker, MpiPc
<1>21. CASE FinishFinalize(r)
  BY <1>2, <1>21, ProceedControl DEF FinishFinalize, MpiPc
<1> QED
  BY <1>3, <1>4, <1>5, <1>6, <1>7, <1>8, <1>9, <1>10, <1>11, <1>12, <1>13, <1>14,
     <1>15, <1>16, <1>17, <1>18, <1>19, <1>20, <1>21 DEF Run, Failure, Return

LEMMA StepTypeInv == TypeInv /\ [Next]_vars => TypeInv'
<1>1. SUFFICES ASSUME TypeInv, [Next]_vars
               PROVE  TypeInv'
  OBVIOUS
<1>2. CASE UNCHANGED vars
  BY <1>1, <1>2, StutterTypeInv
<1>3. CASE Next
  <2>1. PICK r \in Rank : Run(r) \/ Failure(r)
    BY <1>3 DEF Next
  <2>2. TypeOK'
    BY <1>1, <2>1, StepTypeOK
  <2>3. Control'
    BY <1>1, <2>1, StepControl, OthersStay, ControlStep DEF TypeInv
  <2> QED
    BY <2>2, <2>3 DEF TypeInv
<1> QED
  BY <1>1, <1>2, <1>3

(* Every variable of the job keeps its type, which includes that every     *)
(* neighbour mmu_mpi_work computes is a process of the job.                *)
THEOREM JobTypeCorrect == Spec => []TypeOK
<1>1. TypeInv => TypeOK
  BY DEF TypeInv
<1> QED
  BY <1>1, InitTypeInv, StepTypeInv, PTL DEF Spec

(***************************************************************************)
(* The agreement on the processes per node.  Its inductive invariant: what *)
(* a process has announced in the split by node and in the verification is *)
(* its node and the size of its node, so that whoever returns from the     *)
(* verification has seen all sizes.                                        *)
(***************************************************************************)

WorldIsAll == \A r \in Rank : comm[r]["world"] = Rank

PpnOf(r) == Cardinality(OnNode(r))

Announced(r) ==
  \A i \in DOMAIN log[r]["world"] :
    /\ log[r]["world"][i].op = "split_type" => log[r]["world"][i].val = node[r]
    /\ log[r]["world"][i].op = "max_int2" => log[r]["world"][i].val = PpnOf(r)

Sized == {"split_worker", "num_nodes", "verify"}

SizeKnown(r) == pc[r] \in Sized => smpSize[r] = PpnOf(r)

(* The call a process is in while it learns of the others' nodes or sizes. *)
InWorldCall(r, op) ==
  /\ blocked[r] = "world"
  /\ log[r]["world"] # << >>
  /\ Current(r).op = op

Asking(r) ==
  blocked[r] # "none" =>
    /\ pc[r] = "split_smp" => InWorldCall(r, "split_type")
    /\ pc[r] = "verify" => InWorldCall(r, "max_int2")

GateInv ==
  /\ TypeInv
  /\ WorldIsAll
  /\ \A r \in Rank : Announced(r) /\ SizeKnown(r) /\ Asking(r)
  /\ PpnGate

(* What each step does to the state the gate depends on.                   *)
LEMMA StepEffects ==
  ASSUME TypeInv, NEW r \in Rank, Run(r) \/ Failure(r)
  PROVE  /\ node' = node
         /\ EnterCall(r) \/ (log' = log /\ blocked'[r] = "none")
         /\ \A s \in Rank : comm'[s]["world"] = comm[s]["world"]
         /\ FinishSplitSmp(r) \/ (smpSize' = smpSize /\ (pc'[r] \in Sized => pc[r] \in Sized))
         /\ \/ pc'[r] \in Measuring => pc[r] \in Measuring
            \/ FinishVerify(r) /\ ~SizesDiffer(r)
<1>1. TypeOK /\ ControlOf(r)
  BY DEF TypeInv, Control
<1>2. pc[r] \notin MpiPc \/ step[r] = 0 => blocked[r] = "none"
  BY <1>1, OutsideMpi DEF ControlOf, Counting
<1> USE DEF TypeOK, MpiTypeOK, Fail, Goto, Proceed, Returns, Leave, jobVars, infoVars,
            dataVars, Measuring, Sized, Communicator
<1>3. CASE Setup(r)
  BY <1>1, <1>2, <1>3 DEF Setup, MpiPc
<1>4. CASE SetupFails(r)
  BY <1>1, <1>2, <1>4 DEF SetupFails, MpiPc
<1>5. CASE TakeSample(r)
  BY <1>1, <1>2, <1>5 DEF TakeSample, StartIteration, Initialized, ControlOf, Early, MpiPc
<1>6. CASE TakeSampleFails(r)
  BY <1>1, <1>2, <1>6 DEF TakeSampleFails, MpiPc
<1>7. CASE EnterCall(r)
  BY <1>1, <1>2, <1>7 DEF EnterCall
<1>8. CASE FinishInit(r)
  BY <1>1, <1>2, <1>8 DEF FinishInit
<1>9. CASE FinishSplitSmp(r)
  BY <1>1, <1>2, <1>9 DEF FinishSplitSmp
<1>10. CASE FinishSplitWorker(r)
  BY <1>1, <1>2, <1>10 DEF FinishSplitWorker
<1>11. CASE FinishNumNodes(r)
  BY <1>1, <1>2, <1>11 DEF FinishNumNodes
<1>12. CASE FinishVerify(r)
  BY <1>1, <1>2, <1>12 DEF FinishVerify, PpnDiffers, PpnAgrees, StartIteration
<1>13. CASE FinishWork(r)
  BY <1>1, <1>2, <1>13 DEF FinishWork
<1>14. CASE WorkFails(r)
  BY <1>1, <1>2, <1>14 DEF WorkFails
<1>15. CASE LocalMmas(r)
  BY <1>1, <1>2, <1>15 DEF LocalMmas, MpiPc
<1>16. CASE FinishNodeMma(r)
  BY <1>1, <1>2, <1>16 DEF FinishNodeMma
<1>17. CASE FinishGlobalMma(r)
  BY <1>1, <1>2, <1>17 DEF FinishGlobalMma
<1>18. CASE UsageFails(r)
  BY <1>1, <1>2, <1>18 DEF UsageFails, MpiPc
<1>19. CASE FinishFreeSmp(r)
  BY <1>1, <1>2, <1>19 DEF FinishFreeSmp
<1>20. CASE FinishFreeWorker(r)
  BY <1>1, <1>2, <1>20 DEF FinishFreeWorker
<1>21. CASE FinishFinalize(r)
  BY <1>1, <1>2, <1>21 DEF FinishFinalize
<1> QED
  BY <1>3, <1>4, <1>5, <1>6, <1>7, <1>8, <1>9, <1>10, <1>11, <1>12, <1>13,
     <1>14, <1>15, <1>16, <1>17, <1>18, <1>19, <1>20, <1>21 DEF Run, Failure,
     Return

LEMMA OnNodeIsFinite ==
  ASSUME NEW r \in Rank
  PROVE  IsFiniteSet(OnNode(r)) /\ PpnOf(r) \in Nat
<1>1. OnNode(r) \in SUBSET Rank
  BY DEF OnNode
<1> QED
  BY <1>1, SubsetOfRanks DEF PpnOf

(* Whoever is in a matched collective of the world sees what all announced. *)
LEMMA AllAnnounced ==
  ASSUME GateInv, NEW r \in Rank, NEW op \in Rendezvous, InWorldCall(r, op), MayReturn(r),
         NEW s \in Rank
  PROVE  /\ Nth(r) \in DOMAIN log[s]["world"]
         /\ log[s]["world"][Nth(r)].op = op
         /\ Contribution(r, s) = log[s]["world"][Nth(r)].val
<1>1. blocked[r] = "world" /\ comm[r]["world"] = Rank
  BY DEF GateInv, WorldIsAll, InWorldCall
<1>2. AllMatched(r)
  BY DEF MayReturn, InWorldCall
<1>3. Nth(r) <= Len(log[s]["world"]) /\ log[s]["world"][Nth(r)].op = op
  BY <1>1, <1>2 DEF AllMatched, Matched, InWorldCall
<1>4. log[r]["world"] \in Seq(Call) /\ log[s]["world"] \in Seq(Call)
  <2>1. log \in [Rank -> [Context -> Seq(Call)]] /\ "world" \in Context
    BY DEF GateInv, TypeInv, TypeOK, MpiTypeOK, Context, Communicator
  <2> QED
    BY <2>1
<1>5. Nth(r) \in Nat /\ Nth(r) > 0
  BY <1>1, <1>4, EmptySeq, LenProperties DEF Nth, InWorldCall
<1> QED
  BY <1>1, <1>3, <1>4, <1>5, LenProperties DEF Contribution

(* The split by node puts a process with those on its node.                *)
LEMMA SplitByNode ==
  ASSUME GateInv, NEW r \in Rank, FinishSplitSmp(r)
  PROVE  SameColor(r) = OnNode(r)
<1>1. InWorldCall(r, "split_type") /\ MayReturn(r)
  BY DEF GateInv, Asking, FinishSplitSmp, Returns, MayReturn
<1>2. \A s \in Rank : Contribution(r, s) = node[s]
  BY <1>1, AllAnnounced DEF GateInv, Announced, Rendezvous
<1> QED
  BY <1>2 DEF SameColor, OnNode

(* The verification tells whether all nodes hold as many processes.        *)
LEMMA VerifyJudges ==
  ASSUME GateInv, NEW r \in Rank, FinishVerify(r)
  PROVE  SizesDiffer(r) <=> ~EvenPlacement
<1>1. InWorldCall(r, "max_int2") /\ MayReturn(r)
  BY DEF GateInv, Asking, FinishVerify, Returns, MayReturn
<1>2. \A s \in Rank : Contribution(r, s) = PpnOf(s)
  BY <1>1, AllAnnounced DEF GateInv, Announced, Rendezvous
<1>3. comm[r][blocked[r]] = Rank
  BY <1>1 DEF GateInv, WorldIsAll, InWorldCall
<1> DEFINE S == Contributions(r)
           f == [s \in Rank |-> Contribution(r, s)]
<1>4. S = {Contribution(r, s) : s \in Rank}
  BY <1>3 DEF Contributions
<1>5. S \in SUBSET Int /\ S # {}
  BY <1>2, <1>4, OnNodeIsFinite
<1>6. IsFiniteSet(S)
  <2>1. f \in Surjection(Rank, S)
    BY <1>4 DEF Surjection
  <2> HIDE DEF f, S
  <2> QED
    BY <2>1, FS_Surjection, RanksAreFinite
<1>7. ~SizesDiffer(r) <=> \A m, n \in S : m = n
  <2> HIDE DEF S
  <2> QED
    BY <1>5, <1>6, MaximaAgreeIffEqual DEF SizesDiffer, S
<1>8. EvenPlacement <=> \A s, t \in Rank : PpnOf(s) = PpnOf(t)
  BY DEF EvenPlacement, PpnOf
<1> QED
  BY <1>2, <1>4, <1>7, <1>8

(* A process that finds the sizes equal has seen those of all nodes.       *)
LEMMA VerifySeesAll ==
  ASSUME GateInv, NEW r \in Rank, FinishVerify(r), ~SizesDiffer(r)
  PROVE  \A s, t \in Rank : PpnOf(s) = PpnOf(t)
BY VerifyJudges DEF EvenPlacement, PpnOf

LEMMA InitGateInv == Init => GateInv
<1> SUFFICES ASSUME Init PROVE GateInv
  OBVIOUS
<1>1. TypeInv
  BY InitTypeInv
<1>2. WorldIsAll
  BY DEF Init, MpiInit, WorldIsAll, Communicator
<1>3. ASSUME NEW r \in Rank
      PROVE  Announced(r) /\ SizeKnown(r) /\ Asking(r)
  <2>1. pc[r] = "setup" /\ blocked[r] = "none" /\ log[r]["world"] = << >>
    BY DEF Init, MpiInit, Context, Communicator
  <2> QED
    BY <2>1 DEF Announced, SizeKnown, Sized, Asking
<1>4. PpnGate
  BY DEF Init, PpnGate, Measuring
<1> QED
  BY <1>1, <1>2, <1>3, <1>4 DEF GateInv

LEMMA StepGateInv ==
  ASSUME GateInv, TypeInv', NEW r \in Rank, Run(r) \/ Failure(r)
  PROVE  GateInv'
<1>1. /\ node' = node
      /\ EnterCall(r) \/ (log' = log /\ blocked'[r] = "none")
      /\ \A s \in Rank : comm'[s]["world"] = comm[s]["world"]
      /\ FinishSplitSmp(r) \/ (smpSize' = smpSize /\ (pc'[r] \in Sized => pc[r] \in Sized))
      /\ \/ pc'[r] \in Measuring => pc[r] \in Measuring
         \/ FinishVerify(r) /\ ~SizesDiffer(r)
  BY StepEffects DEF GateInv
<1>2. \A s \in Rank \ {r} : Same(s)
  BY OthersStay DEF GateInv, TypeInv
<1>3. TypeOK /\ ControlOf(r)
  BY DEF GateInv, TypeInv, Control
<1>4. \A s \in Rank : PpnOf(s)' = PpnOf(s)
  BY <1>1 DEF PpnOf, OnNode
<1>5. WorldIsAll'
  BY <1>1 DEF GateInv, WorldIsAll
<1>6. ASSUME NEW s \in Rank \ {r}
      PROVE  Announced(s)' /\ SizeKnown(s)' /\ Asking(s)'
  <2>1. Same(s) /\ node'[s] = node[s] /\ smpSize'[s] = smpSize[s] /\ PpnOf(s)' = PpnOf(s)
    BY <1>1, <1>2, <1>3, <1>4, <1>6 DEF FinishSplitSmp, TypeOK
  <2>2. Announced(s) /\ SizeKnown(s) /\ Asking(s)
    BY <1>6 DEF GateInv
  <2> QED
    BY <2>1, <2>2
    DEF Announced, SizeKnown, Asking, InWorldCall, Current, Nth, Same
<1>7. Announced(r)' /\ SizeKnown(r)' /\ Asking(r)'
  <2>1. Announced(r) /\ SizeKnown(r) /\ Asking(r)
    BY DEF GateInv
  <2>2. CASE EnterCall(r)
    <3> DEFINE call == NextCall(r)
               old == log[r]["world"]
    <3>1. /\ pc' = pc /\ smpSize' = smpSize
          /\ pc[r] \in MpiPc /\ blocked[r] = "none"
      BY <2>2 DEF EnterCall, Enter, infoVars
    <3>2. /\ call \in Call
          /\ CallContext(r) \in Context
          /\ call.op = "split_type" => pc[r] = "split_smp" /\ call.val = node[r]
          /\ call.op = "max_int2" => pc[r] = "verify" /\ call.val = smpSize[r]
          /\ pc[r] = "split_smp" => CallContext(r) = "world" /\ call.op = "split_type"
          /\ pc[r] = "verify" => CallContext(r) = "world" /\ call.op = "max_int2"
      BY <3>1, NextCallType DEF GateInv
    <3>3. old \in Seq(Call)
      <4>1. log \in [Rank -> [Context -> Seq(Call)]] /\ "world" \in Context
        BY <1>3 DEF TypeOK, MpiTypeOK, Context, Communicator
      <4> QED
        BY <4>1
    <3>4. IF CallContext(r) = "world"
            THEN log'[r]["world"] = Append(old, call)
            ELSE log'[r]["world"] = old
      <4>1. log \in [Rank -> [Context -> Seq(Call)]] /\ "world" \in Context
        BY <1>3 DEF TypeOK, MpiTypeOK, Context, Communicator
      <4>2. log' = [log EXCEPT ![r][CallContext(r)] = Append(@, call)]
        BY <2>2 DEF EnterCall, Enter
      <4> QED
        BY <3>2, <4>1, <4>2
    <3>5. blocked'[r] = CallContext(r)
      BY <1>3, <2>2 DEF EnterCall, Enter, TypeOK, MpiTypeOK
    <3> HIDE DEF call, old
    <3>6. /\ Len(Append(old, call)) = Len(old) + 1
          /\ Len(old) \in Nat
          /\ DOMAIN Append(old, call) = 1..(Len(old) + 1)
          /\ DOMAIN old = 1..Len(old)
          /\ \A i \in 1..Len(old) : Append(old, call)[i] = old[i]
          /\ Append(old, call)[Len(old) + 1] = call
      BY <3>2, <3>3, AppendProperties, LenProperties
    <3>7. Announced(r)'
      <4>1. SUFFICES ASSUME NEW i \in DOMAIN log'[r]["world"]
                     PROVE  LET c == log'[r]["world"][i]
                            IN  /\ c.op = "split_type" => c.val = node[r]
                                /\ c.op = "max_int2" => c.val = PpnOf(r)
        BY <1>1, <1>4 DEF Announced
      <4>2. \/ i \in DOMAIN old /\ log'[r]["world"][i] = old[i]
            \/ log'[r]["world"][i] = call
        BY <3>4, <3>6
      <4>3. smpSize[r] = PpnOf(r) \/ pc[r] # "verify"
        BY <2>1 DEF SizeKnown, Sized
      <4> QED
        BY <2>1, <3>2, <4>2, <4>3 DEF Announced, old
    <3>8. SizeKnown(r)'
      BY <1>4, <2>1, <3>1 DEF SizeKnown
    <3>9. Asking(r)'
      <4>1. SUFFICES ASSUME CallContext(r) = "world"
                     PROVE  log'[r]["world"] # << >> /\ Current(r)'.op = call.op
        BY <3>1, <3>2, <3>5 DEF Asking, InWorldCall
      <4>2. log'[r]["world"] = Append(old, call)
        BY <3>4, <4>1
      <4>3. Nth(r)' = Len(old) + 1
        BY <3>5, <3>6, <4>1, <4>2 DEF Nth
      <4>4. Current(r)' = call
        BY <3>5, <3>6, <4>1, <4>2, <4>3 DEF Current
      <4> QED
        BY <3>2, <3>3, <4>2, <4>4, AppendProperties
    <3> QED
      BY <3>7, <3>8, <3>9
  <2>3. CASE ~EnterCall(r)
    <3>1. log' = log /\ blocked'[r] = "none"
      BY <1>1, <2>3
    <3>2. Announced(r)'
      BY <1>1, <1>4, <2>1, <3>1 DEF Announced
    <3>3. SizeKnown(r)'
      <4>1. CASE FinishSplitSmp(r)
        <5>1. smpSize'[r] = PpnOf(r)
          BY <1>3, <4>1, SplitByNode DEF FinishSplitSmp, TypeOK, PpnOf
        <5> QED
          BY <1>4, <5>1 DEF SizeKnown
      <4>2. CASE ~FinishSplitSmp(r)
        BY <1>1, <1>4, <2>1, <4>2 DEF SizeKnown
      <4> QED
        BY <4>1, <4>2
    <3> QED
      BY <3>1, <3>2, <3>3 DEF Asking
  <2> QED
    BY <2>2, <2>3
<1>8. PpnGate'
  <2>1. SUFFICES ASSUME NEW s \in Rank, NEW t \in Rank, pc'[s] \in Measuring
                 PROVE  PpnOf(s) = PpnOf(t)
    BY <1>4 DEF PpnGate, PpnOf
  <2>2. CASE pc[s] \in Measuring
    BY <2>2 DEF GateInv, PpnGate, PpnOf
  <2>3. CASE pc[s] \notin Measuring
    <3>1. s = r
      BY <1>2, <2>1, <2>3 DEF Same
    <3> QED
      BY <1>1, <2>1, <2>3, <3>1, VerifySeesAll
  <2> QED
    BY <2>2, <2>3
<1> QED
  BY <1>5, <1>6, <1>7, <1>8 DEF GateInv

LEMMA GateInvKept == GateInv /\ [Next]_vars => GateInv'
<1>1. SUFFICES ASSUME GateInv, [Next]_vars
               PROVE  GateInv'
  OBVIOUS
<1>2. TypeInv'
  BY <1>1, StepTypeInv DEF GateInv
<1>3. CASE UNCHANGED vars
  <2>1. /\ node' = node /\ log' = log /\ blocked' = blocked /\ comm' = comm
        /\ smpSize' = smpSize /\ pc' = pc
    BY <1>3 DEF vars
  <2>2. \A r \in Rank : PpnOf(r)' = PpnOf(r)
    BY <2>1 DEF PpnOf, OnNode
  <2>3. WorldIsAll'
    BY <1>1, <2>1 DEF GateInv, WorldIsAll
  <2>4. ASSUME NEW r \in Rank
        PROVE  Announced(r)' /\ SizeKnown(r)' /\ Asking(r)'
    <3>1. Announced(r) /\ SizeKnown(r) /\ Asking(r)
      BY <1>1 DEF GateInv
    <3> QED
      BY <2>1, <2>2, <3>1
      DEF Announced, SizeKnown, Asking, InWorldCall, Current, Nth
  <2>5. PpnGate'
    BY <1>1, <2>1 DEF GateInv, PpnGate, OnNode
  <2> QED
    BY <1>2, <2>3, <2>4, <2>5 DEF GateInv
<1>4. CASE Next
  BY <1>1, <1>2, <1>4, StepGateInv DEF Next
<1> QED
  BY <1>1, <1>3, <1>4

(* In a job whose nodes hold different numbers of processes no process     *)
(* measures after MPI_Init, whatever else fails (mpimemu.c:167-176,        *)
(* world_root_verify_smp_size).                                            *)
THEOREM GateHolds == Spec => []PpnGate
<1>1. GateInv => PpnGate
  BY DEF GateInv
<1> QED
  BY <1>1, InitGateInv, GateInvKept, PTL DEF Spec

(***************************************************************************)
(* How far a process has got.  The collectives of the whole job keep the   *)
(* processes together, because the code fixes how many of them lie before  *)
(* each of its functions: a process that has returned from the n-th knows  *)
(* that all others have entered it.                                        *)
(***************************************************************************)

WorldCalls(r) == Len(log[r]["world"])

(* The collectives of the workload of one iteration, and of n.             *)
PerRound == IF args.work THEN 2 ELSE 0
WorkloadCalls(n, calls) == IF calls = 2 THEN 2 * n ELSE 0

(* mmu_mpi_init and the verification of the nodes make five. *)
InitCalls == 5

(* All calls up to the reductions of the job, and with them. *)
Unreduced == InitCalls + WorkloadCalls(args.iters, PerRound)
Reduced == Unreduced + LastReduction

(* The functions of mmu_mpi_init, and how many calls come before each. *)
InitPc == {"init", "split_smp", "split_worker", "num_nodes", "verify"}

CallsBefore(p) ==
  IF p = "init" THEN 0
  ELSE IF p = "split_smp" THEN 1
  ELSE IF p = "split_worker" THEN 2
  ELSE IF p = "num_nodes" THEN 3
  ELSE 4

(* The end of main, and how many calls of the job it has entered by now. *)
Ending == {"free_smp", "free_worker", "finalize", "exited"}
EndCalls(r) == IF pc[r] = "exited" THEN 1 ELSE IF pc[r] = "finalize" THEN step[r] ELSE 0

(* A process in order has entered exactly the calls before the place it is *)
(* at.                                                                     *)
OnCourse(r) ==
  /\ pc[r] \in InitPc => WorldCalls(r) = CallsBefore(pc[r]) + step[r]
  /\ pc[r] = "work" =>
       WorldCalls(r) = InitCalls + WorkloadCalls(iter[r], PerRound)
                                 + (IF step[r] < 2 THEN step[r] ELSE 2)
  /\ pc[r] = "sample_post" => WorldCalls(r) = InitCalls + WorkloadCalls(iter[r] + 1, PerRound)
  /\ pc[r] \in {"local_mma", "node_mma"} => WorldCalls(r) = Unreduced
  /\ pc[r] = "global_mma" => WorldCalls(r) = Unreduced + step[r]
  /\ pc[r] \in Ending /\ (pc[r] = "exited" => args.input = "run") =>
       WorldCalls(r) = Reduced + EndCalls(r)

(* A process that failed did so before the reductions of the job.          *)
OffCourse(r) ==
  /\ pc[r] \in Ending
  /\ WorldCalls(r) <= Unreduced + EndCalls(r)

(* The iterations before and after MPI_Init, and the report.               *)
Rounds(r) ==
  /\ pc[r] \in {"setup"} \cup InitPc => iter[r] = 0
  /\ pc[r] = "work" => args.work
  /\ "report" \in said[r] => pc[r] \in Ending /\ ec[r] = 0 /\ args.input = "run"
  /\ pc[r] \notin {"setup", "exited"} => args.input = "run"

(* The collective of the job a process is in, but for MPI_Init and         *)
(* MPI_Finalize, needs everyone.                                           *)
Together(r) ==
  /\ blocked[r] = "world" =>
       /\ log[r]["world"] # << >>
       /\ pc[r] \notin {"init", "finalize"} => Current(r).op \in Rendezvous
  /\ pc[r] \in {"split_smp", "finalize"} => blocked[r] \in {"none", "world"}
  /\ pc[r] \in {"node_mma", "free_smp", "free_worker"} => blocked[r] # "world"

CourseOf(r) ==
  /\ IF ec[r] = 0 THEN OnCourse(r) ELSE OffCourse(r)
  /\ Rounds(r)
  /\ Together(r)

(* The calls a process has returned from, but for MPI_Finalize.            *)
Cleared(r) ==
  IF blocked[r] = "world" \/ pc[r] = "exited" THEN WorldCalls(r) - 1 ELSE WorldCalls(r)

(* Nobody is past a collective others have not entered; MPI_Init alone may *)
(* return early.                                                           *)
BeforeSplit == {"setup", "sample_pre", "init", "split_smp"}

NobodyAhead ==
  \A r, s \in Rank : pc[r] \notin BeforeSplit => Cleared(r) <= WorldCalls(s)

CourseInv ==
  /\ TypeInv
  /\ WorldIsAll
  /\ \A r \in Rank : CourseOf(r)
  /\ NobodyAhead

LEMMA WorkloadGrows ==
  /\ args.work <=> PerRound = 2
  /\ ~args.work <=> PerRound = 0
  /\ WorkloadCalls(0, PerRound) = 0
  /\ \A n \in Nat :
       /\ WorkloadCalls(n, PerRound) \in Nat
       /\ WorkloadCalls(n + 1, PerRound) = WorkloadCalls(n, PerRound) + PerRound
       /\ PerRound = 0 => WorkloadCalls(n, PerRound) = 0
  /\ \A m, n \in Nat : m <= n => WorkloadCalls(m, PerRound) <= WorkloadCalls(n, PerRound)
<1>1. PerRound = IF args.work THEN 2 ELSE 0
  BY DEF PerRound
<1>2. PerRound \in {0, 2} /\ (args.work <=> PerRound = 2) /\ (~args.work <=> PerRound = 0)
  BY <1>1
<1> HIDE DEF PerRound
<1>3. CASE PerRound = 2
  BY <1>2, <1>3 DEF WorkloadCalls
<1>4. CASE PerRound = 0
  BY <1>2, <1>4 DEF WorkloadCalls
<1> QED
  BY <1>2, <1>3, <1>4

LEMMA WorldCallsIsNat ==
  ASSUME TypeOK, NEW r \in Rank
  PROVE  /\ log[r]["world"] \in Seq(Call)
         /\ WorldCalls(r) \in Nat
         /\ WorldCalls(r) = 0 <=> log[r]["world"] = << >>
<1>1. log \in [Rank -> [Context -> Seq(Call)]] /\ "world" \in Context
  BY DEF TypeOK, MpiTypeOK, Context, Communicator
<1>2. log[r]["world"] \in Seq(Call)
  BY <1>1
<1> QED
  BY <1>2, EmptySeq, LenProperties DEF WorldCalls

(* A call of the job is one more in its log. *)
LEMMA WorldCallEntered ==
  ASSUME TypeInv, NEW r \in Rank, EnterCall(r)
  PROVE  /\ pc[r] \in MpiPc
         /\ blocked[r] = "none"
         /\ pc' = pc
         /\ step'[r] = step[r] + 1
         /\ blocked'[r] = CallContext(r)
         /\ CallContext(r) = "world" =>
              /\ WorldCalls(r)' = WorldCalls(r) + 1
              /\ log'[r]["world"] # << >>
              /\ Current(r)' = NextCall(r)
         /\ CallContext(r) # "world" => log'[r]["world"] = log[r]["world"]
<1> DEFINE call == NextCall(r)
           old == log[r]["world"]
<1>1. pc[r] \in MpiPc /\ blocked[r] = "none" /\ pc' = pc
  BY DEF EnterCall, Enter
<1>2. call \in Call /\ CallContext(r) \in Context
  BY <1>1, NextCallType
<1>3. /\ log \in [Rank -> [Context -> Seq(Call)]] /\ "world" \in Context
      /\ blocked \in [Rank -> Context \cup {"none"}]
      /\ step \in [Rank -> 0..LastReduction]
  BY DEF TypeInv, TypeOK, MpiTypeOK, Context, Communicator
<1>4. /\ log' = [log EXCEPT ![r][CallContext(r)] = Append(@, call)]
      /\ blocked' = [blocked EXCEPT ![r] = CallContext(r)]
      /\ step' = [step EXCEPT ![r] = @ + 1]
  BY DEF EnterCall, Enter
<1>5. blocked'[r] = CallContext(r) /\ step'[r] = step[r] + 1
  BY <1>3, <1>4
<1>6. old \in Seq(Call)
  BY <1>3
<1>7. CallContext(r) # "world" => log'[r]["world"] = old
  BY <1>2, <1>3, <1>4
<1>8. ASSUME CallContext(r) = "world"
      PROVE  /\ WorldCalls(r)' = WorldCalls(r) + 1
             /\ log'[r]["world"] # << >>
             /\ Current(r)' = NextCall(r)
  <2>1. log'[r]["world"] = Append(old, call)
    BY <1>3, <1>4, <1>8
  <2> HIDE DEF call, old
  <2>2. /\ Len(Append(old, call)) = Len(old) + 1
        /\ Append(old, call)[Len(old) + 1] = call
        /\ Append(old, call) # << >>
    BY <1>2, <1>6, AppendProperties, LenProperties
  <2>3. Nth(r)' = Len(old) + 1
    BY <1>5, <1>8, <2>1, <2>2 DEF Nth
  <2>4. Current(r)' = call
    BY <1>5, <1>8, <2>1, <2>2, <2>3 DEF Current
  <2> QED
    BY <2>1, <2>2, <2>4 DEF WorldCalls, call, old
<1> QED
  BY <1>1, <1>5, <1>7, <1>8

(* Which calls are of the whole job. *)
LEMMA JobCalls ==
  ASSUME TypeInv, NEW r \in Rank, pc[r] \in MpiPc, blocked[r] = "none"
  PROVE  /\ pc[r] \in InitPc \cup {"global_mma", "finalize"} => CallContext(r) = "world"
         /\ pc[r] \in {"node_mma", "free_smp", "free_worker"} => CallContext(r) # "world"
         /\ pc[r] = "work" => (CallContext(r) = "world" <=> step[r] < 2)
         /\ CallContext(r) = "world" /\ pc[r] \notin {"init", "finalize"} =>
              NextCall(r).op \in Rendezvous
<1>1. step[r] \in Nat
  BY DEF TypeInv, TypeOK
<1>2. CASE pc[r] = "work"
  <2>1. CallContext(r) = WorkContext(step[r] + 1)
    BY <1>2 DEF CallContext
  <2>2. CallContext(r) = "world" <=> step[r] < 2
    BY <1>1, <2>1 DEF WorkContext
  <2>3. step[r] < 2 => step[r] = 0 \/ step[r] = 1
    BY <1>1
  <2>4. step[r] < 2 => NextCall(r).op \in {"max_double", "barrier"}
    BY <1>2, <2>3 DEF NextCall, WorkCall, Collective
  <2> QED
    BY <1>2, <2>2, <2>4 DEF InitPc, Rendezvous
<1>3. CASE pc[r] = "global_mma"
  <2>1. GlobalReduction(step[r] + 1) \in {"max_ull", "min_ull", "sum_double"}
    <3>1. step[r] + 1 \in Nat
      BY <1>1
    <3>2. \/ (step[r] + 1) % 3 = 0
          \/ (step[r] + 1) % 3 = 1
          \/ (step[r] + 1) % 3 = 2
      BY <3>1
    <3> QED
      BY <3>2 DEF GlobalReduction
  <2> QED
    BY <1>3, <2>1 DEF NextCall, CallContext, Collective, Rendezvous, InitPc
<1>4. CASE pc[r] \in InitPc
  BY <1>4 DEF NextCall, CallContext, Collective, Rendezvous, InitPc
<1>5. CASE pc[r] \in {"node_mma", "free_smp", "free_worker", "finalize"}
  BY <1>5 DEF CallContext, InitPc
<1> QED
  BY <1>2, <1>3, <1>4, <1>5 DEF MpiPc, InitPc

(* A step of one process leaves the progress of the others alone.          *)
SameData(s) ==
  /\ iter'[s] = iter[s]
  /\ ec'[s] = ec[s]
  /\ said'[s] = said[s]
  /\ samples'[s] = samples[s]
  /\ local'[s] = local[s]

LEMMA OthersKeep ==
  ASSUME TypeOK, NEW r \in Rank, Run(r) \/ Failure(r)
  PROVE  \A s \in Rank \ {r} : SameData(s)
<1> USE DEF TypeOK, SameData, Fail, Goto, Proceed, Returns, dataVars
<1>1. CASE Setup(r)
  BY <1>1 DEF Setup
<1>2. CASE SetupFails(r)
  BY <1>2 DEF SetupFails
<1>3. CASE TakeSample(r)
  BY <1>3 DEF TakeSample
<1>4. CASE TakeSampleFails(r)
  BY <1>4 DEF TakeSampleFails
<1>5. CASE EnterCall(r)
  BY <1>5 DEF EnterCall
<1>6. CASE FinishInit(r)
  BY <1>6 DEF FinishInit
<1>7. CASE FinishSplitSmp(r)
  BY <1>7 DEF FinishSplitSmp
<1>8. CASE FinishSplitWorker(r)
  BY <1>8 DEF FinishSplitWorker
<1>9. CASE FinishNumNodes(r)
  BY <1>9 DEF FinishNumNodes
<1>10. CASE FinishVerify(r)
  <2>1. \A s \in Rank \ {r} : said'[s] = said[s] /\ ec'[s] = ec[s]
    <3>1. CASE PpnDiffers(r)
      BY <3>1 DEF PpnDiffers
    <3>2. CASE PpnAgrees(r)
      BY <3>2 DEF PpnAgrees
    <3> QED
      BY <1>10, <3>1, <3>2 DEF FinishVerify
  <2>2. UNCHANGED <<iter, samples, local>>
    BY <1>10 DEF FinishVerify
  <2> QED
    BY <2>1, <2>2
<1>11. CASE FinishWork(r)
  BY <1>11 DEF FinishWork
<1>12. CASE WorkFails(r)
  BY <1>12 DEF WorkFails
<1>13. CASE LocalMmas(r)
  BY <1>13 DEF LocalMmas
<1>14. CASE FinishNodeMma(r)
  BY <1>14 DEF FinishNodeMma
<1>15. CASE FinishGlobalMma(r)
  BY <1>15 DEF FinishGlobalMma
<1>16. CASE UsageFails(r)
  BY <1>16 DEF UsageFails
<1>17. CASE FinishFreeSmp(r)
  BY <1>17 DEF FinishFreeSmp
<1>18. CASE FinishFreeWorker(r)
  BY <1>18 DEF FinishFreeWorker
<1>19. CASE FinishFinalize(r)
  BY <1>19 DEF FinishFinalize
<1> QED
  BY <1>1, <1>2, <1>3, <1>4, <1>5, <1>6, <1>7, <1>8, <1>9, <1>10, <1>11,
     <1>12, <1>13, <1>14, <1>15, <1>16, <1>17, <1>18, <1>19 DEF Run, Failure,
     Return

(* What a step of r changes, by kind: r enters a call, returns from one, or *)
(* is not in one.                                                          *)
InNoCall(r) == blocked[r] = "none" /\ blocked'[r] = "none" /\ log'[r] = log[r]

CallReturns(r) ==
  /\ MayReturn(r)
  /\ blocked[r] # "none" /\ blocked'[r] = "none"
  /\ log' = log

LEMMA StepKinds ==
  ASSUME TypeInv, NEW r \in Rank, Run(r) \/ Failure(r)
  PROVE  /\ EnterCall(r) \/ CallReturns(r) \/ InNoCall(r)
         /\ pc'[r] = "exited" => WorldCalls(r) = 0 \/ (pc[r] = "finalize" /\ CallReturns(r))
         /\ pc[r] # "exited"
         /\ pc[r] \in BeforeSplit /\ pc'[r] \notin BeforeSplit =>
              WorldCalls(r) = 0 \/ (pc[r] = "split_smp" /\ CallReturns(r))
         /\ pc[r] = "init" => pc'[r] \in {"init", "split_smp"}
         /\ pc[r] = "finalize" => pc'[r] = "exited" \/ blocked'[r] = "world"
<1>1. /\ TypeOK /\ ControlOf(r)
      /\ pc \in [Rank -> Pc] /\ blocked \in [Rank -> Context \cup {"none"}]
      /\ WorldCalls(r) = 0 <=> log[r]["world"] = << >>
      /\ "none" \notin Context
  BY WorldCallsIsNat DEF TypeInv, Control, TypeOK, MpiTypeOK, Context, Communicator
<1>2. pc[r] \notin MpiPc \/ step[r] = 0 => blocked[r] = "none"
  BY <1>1, OutsideMpi DEF ControlOf, Counting
<1>3. pc[r] \in {"setup", "sample_pre"} => WorldCalls(r) = 0
  BY <1>1 DEF ControlOf, Early
<1>4. ~Initialized(r) => WorldCalls(r) = 0
  BY <1>1 DEF Initialized
<1> HIDE DEF WorldCalls
<1>5. ASSUME NEW where, Returns(r, where)
      PROVE  CallReturns(r) /\ pc[r] = where
  BY <1>1, <1>5 DEF Returns, MayReturn, Leave, CallReturns
<1>6. ASSUME NEW where, Goto(r, where) \/ Proceed(r, where)
      PROVE  pc'[r] = where
  BY <1>1, <1>6 DEF Goto, Proceed
<1>7. ASSUME Fail(r)
      PROVE  pc'[r] = "free_smp" \/ (pc'[r] = "exited" /\ WorldCalls(r) = 0)
  BY <1>1, <1>4, <1>7 DEF Fail, Goto
<1>8. CASE Setup(r) \/ SetupFails(r)
  BY <1>2, <1>3, <1>6, <1>7, <1>8 DEF Setup, SetupFails, MpiPc, InNoCall, BeforeSplit
<1>9. CASE TakeSample(r)
  <2>1. /\ pc[r] = "sample_post" \/ WorldCalls(r) = 0
        /\ pc'[r] \in {"local_mma", "init", "sample_pre", "work", "sample_post"}
        /\ pc[r] \in {"sample_pre", "sample_post"}
    BY <1>3, <1>6, <1>9 DEF TakeSample, StartIteration
  <2>2. InNoCall(r)
    BY <1>2, <1>9 DEF TakeSample, InNoCall, MpiPc
  <2> QED
    BY <2>1, <2>2 DEF BeforeSplit
<1>10. CASE TakeSampleFails(r)
  <2>1. InNoCall(r) /\ pc[r] \in {"sample_pre", "sample_post"}
    BY <1>2, <1>10 DEF TakeSampleFails, InNoCall, MpiPc
  <2> QED
    BY <1>3, <1>7, <1>10, <2>1 DEF TakeSampleFails, BeforeSplit
<1>11. CASE EnterCall(r)
  <2>1. pc[r] \in MpiPc /\ pc' = pc
    BY <1>11, WorldCallEntered
  <2>2. pc[r] = "finalize" => blocked'[r] = "world"
    BY <1>11, WorldCallEntered, JobCalls
  <2> QED
    BY <1>11, <2>1, <2>2 DEF MpiPc, BeforeSplit
<1>12. CASE FinishInit(r)
  BY <1>5, <1>6, <1>12 DEF FinishInit, BeforeSplit
<1>13. CASE FinishSplitSmp(r)
  BY <1>5, <1>6, <1>13 DEF FinishSplitSmp
<1>14. CASE FinishSplitWorker(r)
  BY <1>5, <1>6, <1>14 DEF FinishSplitWorker, BeforeSplit
<1>15. CASE FinishNumNodes(r)
  BY <1>5, <1>6, <1>15 DEF FinishNumNodes, BeforeSplit
<1>16. CASE FinishVerify(r)
  BY <1>5, <1>6, <1>16 DEF FinishVerify, PpnDiffers, PpnAgrees,
     StartIteration, BeforeSplit
<1>17. CASE FinishWork(r)
  <2>1. Returns(r, "work")
    BY <1>17 DEF FinishWork
  <2>2. Fail(r) \/ Proceed(r, "sample_post") \/ pc' = pc
    BY <1>17 DEF FinishWork
  <2> QED
    BY <1>5, <1>6, <1>7, <2>1, <2>2 DEF BeforeSplit
<1>18. CASE WorkFails(r)
  BY <1>7, <1>18 DEF WorkFails, InNoCall, BeforeSplit
<1>19. CASE LocalMmas(r)
  BY <1>2, <1>6, <1>19 DEF LocalMmas, InNoCall, MpiPc, BeforeSplit
<1>20. CASE FinishNodeMma(r)
  BY <1>5, <1>6, <1>20 DEF FinishNodeMma, BeforeSplit
<1>21. CASE FinishGlobalMma(r)
  BY <1>5, <1>6, <1>21 DEF FinishGlobalMma, BeforeSplit
<1>22. CASE UsageFails(r)
  BY <1>2, <1>7, <1>22 DEF UsageFails, InNoCall, MpiPc, BeforeSplit
<1>23. CASE FinishFreeSmp(r)
  BY <1>5, <1>6, <1>23 DEF FinishFreeSmp, BeforeSplit
<1>24. CASE FinishFreeWorker(r)
  BY <1>5, <1>6, <1>24 DEF FinishFreeWorker, BeforeSplit
<1>25. CASE FinishFinalize(r)
  BY <1>5, <1>6, <1>25 DEF FinishFinalize, BeforeSplit
<1> QED
  BY <1>8, <1>9, <1>10, <1>11, <1>12, <1>13, <1>14, <1>15, <1>16, <1>17,
     <1>18, <1>19, <1>20, <1>21, <1>22, <1>23, <1>24, <1>25 DEF Run, Failure,
     Return

(* A matched collective of the job has been entered by all.                *)
LEMMA ClearedTogether ==
  ASSUME CourseInv, NEW r \in Rank, MayReturn(r), blocked[r] = "world",
         pc[r] \notin {"init", "finalize"}, NEW s \in Rank
  PROVE  WorldCalls(r) <= WorldCalls(s)
<1>1. Current(r).op \in Rendezvous
  BY DEF CourseInv, CourseOf, Together
<1>2. Matched(r, s)
  BY <1>1 DEF MayReturn, AllMatched, CourseInv, WorldIsAll
<1> QED
  BY <1>2 DEF Matched, Nth, WorldCalls

LEMMA StepNobodyAhead ==
  ASSUME CourseInv, NEW r \in Rank, Run(r) \/ Failure(r)
  PROVE  NobodyAhead'
<1>1. /\ \A s \in Rank \ {r} : Same(s)
      /\ TypeInv /\ TypeOK
  BY OthersStay DEF CourseInv, TypeInv
<1>2. /\ EnterCall(r) \/ CallReturns(r) \/ InNoCall(r)
      /\ pc'[r] = "exited" => WorldCalls(r) = 0 \/ (pc[r] = "finalize" /\ CallReturns(r))
      /\ pc[r] # "exited"
      /\ pc[r] \in BeforeSplit /\ pc'[r] \notin BeforeSplit =>
           WorldCalls(r) = 0 \/ (pc[r] = "split_smp" /\ CallReturns(r))
      /\ pc[r] = "init" => pc'[r] \in {"init", "split_smp"}
      /\ pc[r] = "finalize" => pc'[r] = "exited" \/ blocked'[r] = "world"
  BY <1>1, StepKinds
<1>3. \A s \in Rank : WorldCalls(s) \in Nat
  BY <1>1, WorldCallsIsNat
<1>4. CASE EnterCall(r)
  <2>1. /\ pc' = pc
        /\ blocked[r] = "none" /\ blocked'[r] = CallContext(r)
        /\ CallContext(r) = "world" => WorldCalls(r)' = WorldCalls(r) + 1
        /\ CallContext(r) # "world" => WorldCalls(r)' = WorldCalls(r)
    BY <1>1, <1>4, WorldCallEntered DEF WorldCalls
  <2>2. Cleared(r)' = Cleared(r) /\ WorldCalls(r) <= WorldCalls(r)'
    BY <1>2, <1>3, <2>1 DEF Cleared
  <2>3. \A s \in Rank \ {r} : Cleared(s)' = Cleared(s) /\ WorldCalls(s)' = WorldCalls(s)
    BY <1>1 DEF Same, Cleared, WorldCalls
  <2>4. \A s \in Rank : Cleared(s) \in Int /\ WorldCalls(s)' \in Nat
    BY <1>3, <2>1, <2>3 DEF Cleared
  <2> HIDE DEF Cleared, WorldCalls
  <2>5. \A s \in Rank : Cleared(s)' = Cleared(s) /\ WorldCalls(s) <= WorldCalls(s)'
    BY <1>3, <2>2, <2>3
  <2>6. SUFFICES ASSUME NEW s \in Rank, NEW t \in Rank, pc[s] \notin BeforeSplit
                 PROVE  Cleared(s)' <= WorldCalls(t)'
    BY <2>1 DEF NobodyAhead
  <2>7. Cleared(s) <= WorldCalls(t)
    BY <2>6 DEF CourseInv, NobodyAhead
  <2> QED
    BY <1>3, <2>4, <2>5, <2>7
<1>5. CASE CallReturns(r) \/ InNoCall(r)
  <2>1. blocked'[r] = "none" /\ \A s \in Rank : WorldCalls(s)' = WorldCalls(s)
    BY <1>1, <1>5 DEF CallReturns, InNoCall, Same, WorldCalls
  <2>2. \A s \in Rank \ {r} : Cleared(s)' = Cleared(s) /\ pc'[s] = pc[s]
    BY <1>1 DEF Same, Cleared, WorldCalls
  <2>3. \A s \in Rank : Cleared(s) \in Int
    BY <1>3 DEF Cleared
  <2>4. ASSUME NEW t \in Rank, pc'[r] \notin BeforeSplit
        PROVE  Cleared(r)' <= WorldCalls(t)
    <3>1. CASE WorldCalls(r) = 0
      BY <1>3, <2>1, <3>1 DEF Cleared
    <3>2. CASE pc[r] = "finalize" /\ WorldCalls(r) # 0
      <4>1. Cleared(r)' = Cleared(r)
        <5>1. pc'[r] = "exited"
          BY <1>2, <2>1, <3>2
        <5>2. blocked[r] = "world"
          BY <1>2, <3>2, <5>1 DEF CourseInv, CourseOf, Together, CallReturns
        <5> QED
          BY <1>2, <2>1, <3>2, <5>1, <5>2 DEF Cleared
      <4> QED
        BY <3>2, <4>1 DEF CourseInv, NobodyAhead, BeforeSplit
    <3>3. CASE pc[r] # "finalize" /\ blocked[r] = "world" /\ WorldCalls(r) # 0
      <4>1. CallReturns(r) /\ pc[r] # "init" /\ pc'[r] # "exited"
        BY <1>2, <1>5, <2>4, <3>3 DEF InNoCall, BeforeSplit
      <4>2. Cleared(r)' = WorldCalls(r)
        BY <2>1, <4>1 DEF Cleared
      <4> QED
        BY <3>3, <4>1, <4>2, ClearedTogether DEF CallReturns
    <3>4. CASE pc[r] # "finalize" /\ blocked[r] # "world" /\ WorldCalls(r) # 0
      <4>1. Cleared(r)' = Cleared(r)
        BY <1>2, <2>1, <3>4 DEF Cleared
      <4>2. pc[r] \notin BeforeSplit
        <5>1. pc[r] # "split_smp" \/ blocked[r] = "none"
          BY <3>4 DEF CourseInv, CourseOf, Together
        <5> QED
          BY <1>2, <2>4, <3>4, <5>1 DEF CallReturns
      <4> QED
        BY <4>1, <4>2 DEF CourseInv, NobodyAhead
    <3> QED
      BY <3>1, <3>2, <3>3, <3>4
  <2> HIDE DEF Cleared, WorldCalls
  <2>5. SUFFICES ASSUME NEW s \in Rank, NEW t \in Rank, pc'[s] \notin BeforeSplit
                 PROVE  Cleared(s)' <= WorldCalls(t)'
    BY DEF NobodyAhead
  <2> QED
    BY <2>1, <2>2, <2>4, <2>5 DEF CourseInv, NobodyAhead
<1> QED
  BY <1>2, <1>4, <1>5

LEMMA CourseFacts ==
  ASSUME CourseInv, NEW r \in Rank, pc[r] # "exited"
  PROVE  /\ TypeOK /\ ControlOf(r) /\ CourseOf(r)
         /\ pc \in [Rank -> Pc] /\ step[r] \in Nat /\ iter[r] \in Nat
         /\ args.iters \in Nat
         /\ WorldCalls(r) \in Nat
         /\ Initialized(r) <=> WorldCalls(r) # 0
         /\ Unreduced \in Nat /\ Unreduced >= InitCalls
         /\ pc[r] # "setup" => iter[r] < args.iters
         /\ pc[r] \notin Ending => ec[r] = 0 /\ "report" \notin said[r]
<1>1. TypeOK /\ ControlOf(r) /\ CourseOf(r)
  BY DEF CourseInv, TypeInv, Control
<1>2. pc \in [Rank -> Pc] /\ step[r] \in Nat /\ iter[r] \in Nat /\ args.iters \in Nat
  BY <1>1, ItersIsNat DEF TypeOK
<1>3. WorldCalls(r) \in Nat /\ (Initialized(r) <=> WorldCalls(r) # 0)
  BY <1>1, WorldCallsIsNat DEF Initialized
<1>4. Unreduced \in Nat /\ Unreduced >= InitCalls
  <2>1. WorkloadCalls(args.iters, PerRound) \in Nat
    BY <1>2, WorkloadGrows
  <2> QED
    BY <2>1 DEF Unreduced, InitCalls
<1>5. pc[r] # "setup" => iter[r] < args.iters
  BY <1>1, <1>2 DEF TypeOK, ControlOf, HasSamples
<1>6. pc[r] \notin Ending => ec[r] = 0 /\ "report" \notin said[r]
  BY <1>1 DEF CourseOf, OffCourse, Rounds
<1> QED
  BY <1>1, <1>2, <1>3, <1>4, <1>5, <1>6

(* The end of main with bad_func set.                                      *)
LEMMA FailOffCourse ==
  ASSUME CourseInv, NEW r \in Rank, Fail(r), pc[r] \notin Ending, WorldCalls(r) <= Unreduced,
         log'[r] = log[r], args' = args, blocked'[r] = "none", said'[r] = said[r]
  PROVE  CourseOf(r)'
<1>1. /\ TypeOK /\ ControlOf(r) /\ CourseOf(r)
      /\ pc \in [Rank -> Pc]
      /\ WorldCalls(r) \in Nat
      /\ Initialized(r) <=> WorldCalls(r) # 0
      /\ Unreduced \in Nat /\ "report" \notin said[r]
  BY CourseFacts DEF Ending
<1>2. ec'[r] = 1
  BY <1>1 DEF Fail, TypeOK
<1>3. WorldCalls(r)' = WorldCalls(r) /\ Unreduced' = Unreduced
  BY DEF WorldCalls, Unreduced, PerRound
<1>4. pc'[r] = "exited" \/ (pc'[r] = "free_smp" /\ WorldCalls(r) # 0)
  BY <1>1 DEF Fail, Goto
<1>5. pc[r] = "setup" => WorldCalls(r) = 0
  BY <1>1 DEF ControlOf, Early, Initialized
<1> HIDE DEF WorldCalls, Unreduced
<1>6. OffCourse(r)'
  BY <1>1, <1>3, <1>4 DEF OffCourse, Ending, EndCalls
<1>7. Rounds(r)'
  BY <1>1, <1>4, <1>5 DEF CourseOf, Rounds, Ending, InitPc
<1>8. Together(r)'
  BY DEF Together
<1> QED
  BY <1>2, <1>6, <1>7, <1>8 DEF CourseOf

LEMMA EnterOnCourse ==
  ASSUME CourseInv, NEW r \in Rank, EnterCall(r), args' = args
  PROVE  CourseOf(r)'
<1>1. /\ pc[r] \in MpiPc
      /\ blocked[r] = "none"
      /\ pc' = pc /\ iter' = iter /\ ec' = ec /\ said' = said
      /\ step'[r] = step[r] + 1
      /\ blocked'[r] = CallContext(r)
      /\ CallContext(r) = "world" =>
           /\ WorldCalls(r)' = WorldCalls(r) + 1
           /\ log'[r]["world"] # << >>
           /\ Current(r)' = NextCall(r)
      /\ CallContext(r) # "world" => WorldCalls(r)' = WorldCalls(r)
  BY WorldCallEntered DEF CourseInv, EnterCall, dataVars, WorldCalls
<1>2. /\ CourseOf(r) /\ step[r] \in Nat /\ WorldCalls(r) \in Nat
      /\ Unreduced \in Nat
      /\ WorkloadCalls(iter[r], PerRound) \in Nat
      /\ ControlOf(r)
  BY <1>1, CourseFacts, WorkloadGrows DEF MpiPc
<1>3. /\ pc[r] \in InitPc \cup {"global_mma", "finalize"} => CallContext(r) = "world"
      /\ pc[r] \in {"node_mma", "free_smp", "free_worker"} => CallContext(r) # "world"
      /\ pc[r] = "work" => (CallContext(r) = "world" <=> step[r] < 2)
      /\ CallContext(r) = "world" /\ pc[r] \notin {"init", "finalize"} =>
           NextCall(r).op \in Rendezvous
  BY <1>1, JobCalls DEF CourseInv
<1>4. /\ Unreduced' = Unreduced /\ Reduced = Unreduced + LastReduction /\ Reduced' = Reduced
      /\ PerRound' = PerRound
  BY DEF Unreduced, Reduced, PerRound
<1>5. Together(r)'
  BY <1>1, <1>3 DEF Together, InitPc
<1>6. Rounds(r)'
  BY <1>1, <1>2 DEF CourseOf, Rounds
<1> HIDE DEF WorldCalls, Unreduced, Reduced, PerRound
<1>7. ASSUME OnCourse(r)
      PROVE  OnCourse(r)'
  <2>1. CASE pc[r] \in InitPc
    <3>1. CallsBefore(pc[r]) \in Nat
      BY DEF CallsBefore
    <3>2. WorldCalls(r)' = WorldCalls(r) + 1 /\ WorldCalls(r) = CallsBefore(pc[r]) + step[r]
      BY <1>1, <1>3, <1>7, <2>1 DEF OnCourse
    <3> HIDE DEF CallsBefore
    <3>3. WorldCalls(r)' = CallsBefore(pc'[r]) + step'[r]
      BY <1>1, <1>2, <3>1, <3>2
    <3> QED
      BY <1>1, <2>1, <3>3 DEF OnCourse, InitPc, Ending
  <2>2. CASE pc[r] = "work"
    <3>1. WorldCalls(r) = InitCalls + WorkloadCalls(iter[r], PerRound)
                          + (IF step[r] < 2 THEN step[r] ELSE 2)
      BY <1>7, <2>2 DEF OnCourse
    <3>2. step[r] < 2 => WorldCalls(r)' = WorldCalls(r) + 1
      BY <1>1, <1>3, <2>2
    <3>3. ~(step[r] < 2) => WorldCalls(r)' = WorldCalls(r)
      BY <1>1, <1>3, <2>2
    <3>4. WorldCalls(r)' = InitCalls + WorkloadCalls(iter'[r], PerRound')
                           + (IF step'[r] < 2 THEN step'[r] ELSE 2)
      BY <1>1, <1>2, <1>4, <3>1, <3>2, <3>3 DEF InitCalls
    <3> QED
      BY <1>1, <2>2, <3>4 DEF OnCourse, InitPc, Ending
  <2>3. CASE pc[r] = "node_mma"
    BY <1>1, <1>3, <1>4, <1>7, <2>3 DEF OnCourse, InitPc, Ending
  <2>4. CASE pc[r] = "global_mma"
    BY <1>1, <1>2, <1>3, <1>4, <1>7, <2>4 DEF OnCourse, InitPc, Ending
  <2>5. CASE pc[r] \in {"free_smp", "free_worker"}
    BY <1>1, <1>3, <1>4, <1>7, <2>5 DEF OnCourse, InitPc, Ending, EndCalls
  <2>6. CASE pc[r] = "finalize"
    BY <1>1, <1>2, <1>3, <1>4, <1>7, <2>6 DEF OnCourse, InitPc, Ending,
       EndCalls, LastReduction
  <2> QED
    BY <1>1, <2>1, <2>2, <2>3, <2>4, <2>5, <2>6 DEF MpiPc, InitPc
<1>8. ASSUME OffCourse(r)
      PROVE  OffCourse(r)'
  <2>1. pc[r] \in {"free_smp", "free_worker", "finalize"}
    BY <1>1, <1>8 DEF OffCourse, Ending, MpiPc
  <2>2. CASE pc[r] = "finalize"
    BY <1>1, <1>2, <1>3, <1>4, <1>8, <2>2 DEF OffCourse, Ending, EndCalls
  <2>3. CASE pc[r] # "finalize"
    BY <1>1, <1>2, <1>3, <1>4, <1>8, <2>1, <2>3 DEF OffCourse, Ending, EndCalls
  <2> QED
    BY <2>2, <2>3
<1> QED
  BY <1>1, <1>2, <1>5, <1>6, <1>7, <1>8 DEF CourseOf

(* A process between two calls, and not in order for having failed.        *)
LEMMA StepOnCourse ==
  ASSUME CourseInv, NEW r \in Rank, Run(r) \/ Failure(r)
  PROVE  CourseOf(r)'
<1>1. args' = args /\ pc[r] # "exited" /\ TypeInv
  BY OthersStay, StepKinds DEF CourseInv, TypeInv
<1>2. /\ TypeOK /\ ControlOf(r) /\ CourseOf(r)
      /\ pc \in [Rank -> Pc] /\ step[r] \in Nat /\ iter[r] \in Nat
      /\ args.iters \in Nat
      /\ WorldCalls(r) \in Nat
      /\ Initialized(r) <=> WorldCalls(r) # 0
      /\ Unreduced \in Nat /\ Unreduced >= InitCalls
      /\ pc[r] # "setup" => iter[r] < args.iters
      /\ pc[r] \notin Ending => ec[r] = 0 /\ "report" \notin said[r]
  BY <1>1, CourseFacts
<1>3. /\ Unreduced' = Unreduced /\ Reduced = Unreduced + LastReduction /\ Reduced' = Reduced
      /\ PerRound' = PerRound /\ PerRound \in {0, 2}
      /\ log' = log => WorldCalls(r)' = WorldCalls(r)
  BY <1>1 DEF Unreduced, Reduced, PerRound, WorldCalls
<1>4. pc[r] \in {"setup", "sample_pre"} => WorldCalls(r) = 0
  BY <1>2 DEF ControlOf, Early, Initialized
<1>5. pc[r] \notin MpiPc => blocked[r] = "none" /\ step[r] = 0
  BY <1>1, OutsideMpi
<1>6. blocked[r] # "none" => step[r] > 0 /\ step[r] <= CallsIn(pc[r])
  BY <1>2 DEF ControlOf, Counting
<1>7. /\ WorkloadCalls(0, PerRound) = 0
      /\ args.work <=> PerRound = 2
      /\ \A n \in Nat :
           /\ WorkloadCalls(n, PerRound) \in Nat
           /\ WorkloadCalls(n + 1, PerRound) = WorkloadCalls(n, PerRound) + PerRound
           /\ PerRound = 0 => WorkloadCalls(n, PerRound) = 0
  BY WorkloadGrows
<1>8. pc[r] # "setup" =>
        WorkloadCalls(iter[r] + 1, PerRound) <= WorkloadCalls(args.iters, PerRound)
  <2>1. iter[r] + 1 \in Nat /\ (pc[r] # "setup" => iter[r] + 1 <= args.iters)
    BY <1>2
  <2> QED
    BY <1>2, <2>1, WorkloadGrows
<1>9. ec \in [Rank -> {0, 1}] /\ iter \in [Rank -> Nat] /\ step \in [Rank -> 0..LastReduction]
      /\ blocked \in [Rank -> Context \cup {"none"}]
  BY <1>2 DEF TypeOK, MpiTypeOK
<1>10. Unreduced = InitCalls + WorkloadCalls(args.iters, PerRound)
  BY DEF Unreduced
<1> HIDE DEF WorldCalls, Unreduced, Reduced, PerRound
<1>11. ASSUME NEW where, Returns(r, where)
       PROVE  /\ log' = log /\ blocked'[r] = "none" /\ pc[r] = where
              /\ step[r] > 0 /\ step[r] <= CallsIn(pc[r])
  BY <1>6, <1>9, <1>11 DEF Returns, MayReturn, Leave
<1>12. ASSUME NEW where, Proceed(r, where)
       PROVE  pc'[r] = where /\ step'[r] = 0
  BY <1>2, <1>9, <1>12 DEF Proceed, Goto, LastReduction
<1>13. blocked'[r] = "none" => Together(r)'
  BY DEF Together
<1>14. CASE Setup(r)
  <2>1. /\ log' = log /\ blocked'[r] = "none" /\ step'[r] = 0
        /\ iter' = iter /\ said' = said /\ pc[r] = "setup"
    BY <1>5, <1>14 DEF Setup, MpiPc
  <2>2. CASE args.input = "run" /\ args.iters > 0
    <3>1. pc'[r] = "sample_pre" /\ ec'[r] = 0
      BY <1>2, <1>14, <2>1, <2>2 DEF Setup, Goto, Ending
    <3> QED
      BY <1>1, <1>2, <1>13, <2>1, <2>2, <3>1 DEF CourseOf, OnCourse, Rounds,
         Ending, InitPc
  <2>3. CASE ~(args.input = "run" /\ args.iters > 0)
    <3>1. pc'[r] = "exited" /\ ec'[r] = IF args.input = "help" THEN 0 ELSE 1
      BY <1>2, <1>9, <1>14, <2>3 DEF Setup, Goto
    <3>2. WorldCalls(r)' <= Unreduced'
      BY <1>2, <1>3, <1>4, <2>1 DEF InitCalls
    <3>3. Unreduced' \in Nat /\ WorldCalls(r)' \in Nat
      BY <1>2, <1>3, <2>1
    <3>4. Rounds(r)'
      BY <1>2, <2>1, <3>1 DEF Rounds, Ending, InitPc
    <3>5. CASE args.input = "help"
      BY <1>1, <1>13, <2>1, <3>1, <3>4, <3>5 DEF CourseOf, OnCourse, Ending, InitPc
    <3>6. CASE args.input # "help"
      <4>1. OffCourse(r)'
        BY <3>1, <3>2, <3>3 DEF OffCourse, Ending, EndCalls
      <4> QED
        BY <1>13, <2>1, <3>1, <3>4, <3>6, <4>1 DEF CourseOf
    <3> QED
      BY <3>5, <3>6
  <2> QED
    BY <2>2, <2>3
<1>15. CASE SetupFails(r)
  <2>1. /\ Fail(r) /\ log' = log /\ blocked'[r] = "none" /\ said' = said /\ pc[r] = "setup"
    BY <1>5, <1>15 DEF SetupFails, MpiPc
  <2> QED
    BY <1>1, <1>2, <1>4, <2>1, FailOffCourse DEF Ending, InitCalls
<1>16. CASE TakeSample(r)
  <2>1. /\ log' = log /\ blocked'[r] = "none" /\ step'[r] = 0
        /\ ec' = ec /\ said' = said
        /\ pc[r] \in {"sample_pre", "sample_post"}
    BY <1>5, <1>16 DEF TakeSample, MpiPc
  <2>2. pc[r] = "sample_post" =>
          WorldCalls(r) = InitCalls + WorkloadCalls(iter[r] + 1, PerRound)
    BY <1>2, <2>1 DEF CourseOf, OnCourse, Ending
  <2>3. Initialized(r) <=> pc[r] = "sample_post"
    BY <1>2, <1>4, <1>7, <2>1, <2>2 DEF InitCalls
  <2>4. args.input = "run" /\ ec'[r] = 0 /\ "report" \notin said'[r]
    BY <1>2, <2>1 DEF CourseOf, Rounds, Ending
  <2>5. CASE iter[r] + 1 = args.iters
    <3>1. iter'[r] = 0 /\ pc'[r] = IF pc[r] = "sample_post" THEN "local_mma" ELSE "init"
      BY <1>2, <1>9, <1>16, <2>3, <2>5 DEF TakeSample, Goto
    <3>2. OnCourse(r)'
      <4>1. CASE pc[r] = "sample_post"
        BY <1>3, <1>10, <2>1, <2>2, <2>5, <3>1, <4>1 DEF OnCourse, Ending, InitPc
      <4>2. CASE pc[r] = "sample_pre"
        BY <1>2, <1>3, <1>4, <2>1, <3>1, <4>2 DEF OnCourse, Ending, InitPc, CallsBefore
      <4> QED
        BY <2>1, <4>1, <4>2
    <3> QED
      BY <1>1, <1>13, <2>1, <2>4, <3>1, <3>2 DEF CourseOf, Rounds, Ending, InitPc
  <2>6. CASE iter[r] + 1 # args.iters
    <3>1. /\ iter'[r] = iter[r] + 1
          /\ pc'[r] = IF pc[r] = "sample_pre" THEN "sample_pre"
                      ELSE IF args.work THEN "work" ELSE "sample_post"
      BY <1>2, <1>9, <1>16, <2>1, <2>3, <2>6 DEF TakeSample, Goto, StartIteration
    <3>2. OnCourse(r)'
      <4>1. CASE pc[r] = "sample_pre"
        BY <3>1, <4>1 DEF OnCourse, Ending, InitPc
      <4>2. CASE pc[r] = "sample_post" /\ args.work
        BY <1>1, <1>2, <1>3, <1>7, <2>1, <2>2, <3>1, <4>2 DEF OnCourse,
           Ending, InitPc, InitCalls
      <4>3. CASE pc[r] = "sample_post" /\ ~args.work
        <5>1. /\ iter[r] + 1 \in Nat /\ iter'[r] + 1 \in Nat
              /\ pc'[r] = "sample_post"
          BY <1>2, <3>1, <4>3
        <5>2. PerRound = 0
          BY <1>3, <1>7, <4>3
        <5>3. /\ WorkloadCalls(iter[r] + 1, PerRound) = 0
              /\ WorkloadCalls(iter'[r] + 1, PerRound) = 0
          BY <1>7, <5>1, <5>2
        <5>4. WorldCalls(r)' = InitCalls + WorkloadCalls(iter'[r] + 1, PerRound')
          BY <1>3, <2>1, <2>2, <4>3, <5>3
        <5> QED
          BY <5>1, <5>4 DEF OnCourse, Ending, InitPc
      <4> QED
        BY <2>1, <4>1, <4>2, <4>3
    <3> QED
      BY <1>1, <1>13, <2>1, <2>4, <3>1, <3>2 DEF CourseOf, Rounds, Ending, InitPc
  <2> QED
    BY <2>5, <2>6
<1>17. CASE TakeSampleFails(r)
  <2>1. /\ Fail(r) /\ log' = log /\ blocked'[r] = "none" /\ said' = said
        /\ pc[r] \in {"sample_pre", "sample_post"}
    BY <1>5, <1>17 DEF TakeSampleFails, MpiPc
  <2>2. WorldCalls(r) <= Unreduced
    <3>1. CASE pc[r] = "sample_pre"
      BY <1>2, <1>4, <3>1 DEF InitCalls
    <3>2. CASE pc[r] = "sample_post"
      <4>1. WorldCalls(r) = InitCalls + WorkloadCalls(iter[r] + 1, PerRound)
        BY <1>2, <3>2 DEF CourseOf, OnCourse, Ending
      <4>2. iter[r] + 1 \in Nat
        BY <1>2
      <4> QED
        BY <1>2, <1>7, <1>8, <1>10, <3>2, <4>1, <4>2 DEF InitCalls
    <3> QED
      BY <2>1, <3>1, <3>2
  <2> QED
    BY <1>1, <2>1, <2>2, FailOffCourse DEF Ending
<1>18. CASE EnterCall(r)
  BY <1>1, <1>18, EnterOnCourse
<1>19. CASE FinishInit(r)
  <2>1. /\ Returns(r, "init") /\ Proceed(r, "split_smp")
        /\ iter' = iter /\ ec' = ec /\ said' = said
    BY <1>19 DEF FinishInit
  <2>2. WorldCalls(r)' = 1 /\ pc'[r] = "split_smp" /\ step'[r] = 0 /\ pc[r] = "init"
    BY <1>2, <1>3, <1>11, <1>12, <2>1
    DEF CourseOf, OnCourse, Ending, InitPc, CallsBefore, CallsIn, MpiPc
  <2> QED
    BY <1>1, <1>2, <1>11, <1>13, <2>1, <2>2
    DEF CourseOf, OnCourse, Rounds, Ending, InitPc, CallsBefore
<1>20. CASE FinishSplitSmp(r)
  <2>1. /\ Returns(r, "split_smp") /\ Proceed(r, "split_worker")
        /\ iter' = iter /\ ec' = ec /\ said' = said
    BY <1>20 DEF FinishSplitSmp
  <2>2. WorldCalls(r)' = 2 /\ pc'[r] = "split_worker" /\ step'[r] = 0 /\ pc[r] = "split_smp"
    BY <1>2, <1>3, <1>11, <1>12, <2>1
    DEF CourseOf, OnCourse, Ending, InitPc, CallsBefore, CallsIn, MpiPc
  <2> QED
    BY <1>1, <1>2, <1>11, <1>13, <2>1, <2>2
    DEF CourseOf, OnCourse, Rounds, Ending, InitPc, CallsBefore
<1>21. CASE FinishSplitWorker(r)
  <2>1. /\ Returns(r, "split_worker") /\ Proceed(r, "num_nodes")
        /\ iter' = iter /\ ec' = ec /\ said' = said
    BY <1>21 DEF FinishSplitWorker
  <2>2. WorldCalls(r)' = 3 /\ pc'[r] = "num_nodes" /\ step'[r] = 0 /\ pc[r] = "split_worker"
    BY <1>2, <1>3, <1>11, <1>12, <2>1
    DEF CourseOf, OnCourse, Ending, InitPc, CallsBefore, CallsIn, MpiPc
  <2> QED
    BY <1>1, <1>2, <1>11, <1>13, <2>1, <2>2
    DEF CourseOf, OnCourse, Rounds, Ending, InitPc, CallsBefore
<1>22. CASE FinishNumNodes(r)
  <2>1. /\ Returns(r, "num_nodes") /\ Proceed(r, "verify")
        /\ iter' = iter /\ ec' = ec /\ said' = said
    BY <1>22 DEF FinishNumNodes
  <2>2. WorldCalls(r)' = 4 /\ pc'[r] = "verify" /\ step'[r] = 0 /\ pc[r] = "num_nodes"
    BY <1>2, <1>3, <1>11, <1>12, <2>1
    DEF CourseOf, OnCourse, Ending, InitPc, CallsBefore, CallsIn, MpiPc
  <2> QED
    BY <1>1, <1>2, <1>11, <1>13, <2>1, <2>2
    DEF CourseOf, OnCourse, Rounds, Ending, InitPc, CallsBefore
<1>23. CASE FinishVerify(r)
  <2>1. /\ Returns(r, "verify") /\ iter' = iter
    BY <1>23 DEF FinishVerify
  <2>2. WorldCalls(r)' = 5 /\ pc[r] = "verify"
    BY <1>2, <1>3, <1>11, <2>1
    DEF CourseOf, OnCourse, Ending, InitPc, CallsBefore, CallsIn, MpiPc
  <2>3. args.input = "run" /\ iter[r] = 0 /\ "report" \notin said[r] /\ ec[r] = 0
    BY <1>2, <2>2 DEF CourseOf, Rounds, InitPc, Ending
  <2>4. said \in [Rank -> SUBSET {"ppn_differs", "settings", "report"}]
    BY <1>2 DEF TypeOK
  <2>5. CASE PpnDiffers(r)
    <3>1. pc'[r] = "free_smp" /\ ec'[r] = 1 /\ "report" \notin said'[r]
      BY <1>9, <1>12, <2>3, <2>4, <2>5 DEF PpnDiffers
    <3> QED
      BY <1>1, <1>2, <1>3, <1>11, <1>13, <2>1, <2>2, <2>3, <3>1
      DEF CourseOf, OffCourse, Rounds, Ending, InitPc, EndCalls, InitCalls
  <2>6. CASE PpnAgrees(r)
    <3>1. /\ pc'[r] = IF args.work THEN "work" ELSE "sample_post"
          /\ step'[r] = 0 /\ ec'[r] = 0 /\ "report" \notin said'[r]
      BY <1>12, <2>3, <2>4, <2>6 DEF PpnAgrees, StartIteration
    <3>2. CASE args.work
      BY <1>1, <1>3, <1>7, <1>11, <1>13, <2>1, <2>2, <2>3, <3>1, <3>2
      DEF CourseOf, OnCourse, Rounds, Ending, InitPc, InitCalls
    <3>3. CASE ~args.work
      <4>1. PerRound = 0 /\ pc'[r] = "sample_post" /\ iter'[r] + 1 = 1
        BY <1>3, <1>7, <2>1, <2>3, <3>1, <3>3
      <4>2. WorkloadCalls(1, PerRound) = 0
        BY <1>7, <4>1
      <4>3. WorldCalls(r)' = InitCalls + WorkloadCalls(iter'[r] + 1, PerRound')
        BY <1>3, <2>2, <4>1, <4>2 DEF InitCalls
      <4>4. OnCourse(r)'
        BY <4>1, <4>3 DEF OnCourse, Ending, InitPc
      <4> QED
        BY <1>1, <1>11, <1>13, <2>1, <2>3, <3>1, <4>1, <4>4 DEF CourseOf,
           Rounds, Ending, InitPc
    <3> QED
      BY <3>2, <3>3
  <2> QED
    BY <1>23, <2>5, <2>6 DEF FinishVerify
<1>24. CASE FinishWork(r)
  <2>1. Returns(r, "work") /\ iter' = iter /\ said' = said
    BY <1>24 DEF FinishWork
  <2>2. /\ log' = log /\ blocked'[r] = "none" /\ pc[r] = "work" /\ step[r] > 0
    BY <1>11, <2>1
  <2>3. /\ WorldCalls(r) = InitCalls + WorkloadCalls(iter[r], PerRound)
                           + (IF step[r] < 2 THEN step[r] ELSE 2)
        /\ args.work /\ args.input = "run" /\ ec[r] = 0 /\ "report" \notin said[r]
    BY <1>2, <2>2 DEF CourseOf, OnCourse, Rounds, Ending
  <2>4. WorldCalls(r) <= InitCalls + WorkloadCalls(iter[r] + 1, PerRound)
    BY <1>2, <1>7, <2>3 DEF InitCalls
  <2>5. CASE InvalidResult(r)
    <3>1. Fail(r)
      BY <1>24, <2>5 DEF FinishWork
    <3>2. WorldCalls(r) <= Unreduced
      <4>1. iter[r] + 1 \in Nat
        BY <1>2
      <4>2. WorkloadCalls(iter[r] + 1, PerRound) \in Nat
            /\ WorkloadCalls(args.iters, PerRound) \in Nat
        BY <1>2, <1>7, <4>1
      <4> QED
        BY <1>2, <1>8, <1>10, <2>2, <2>4, <4>2 DEF InitCalls
    <3> QED
      BY <1>1, <2>1, <2>2, <3>1, <3>2, FailOffCourse DEF Ending
  <2>6. CASE ~InvalidResult(r) /\ step[r] = LastWork
    <3>1. Proceed(r, "sample_post") /\ ec' = ec
      BY <1>24, <2>6 DEF FinishWork
    <3>2. WorldCalls(r)' = InitCalls + WorkloadCalls(iter[r] + 1, PerRound)
      BY <1>2, <1>3, <1>7, <2>2, <2>3, <2>6 DEF InitCalls, LastWork
    <3> QED
      BY <1>1, <1>3, <1>12, <1>13, <2>1, <2>2, <2>3, <3>1, <3>2
      DEF CourseOf, OnCourse, Rounds, Ending, InitPc
  <2>7. CASE ~InvalidResult(r) /\ step[r] # LastWork
    <3>1. pc' = pc /\ step' = step /\ ec' = ec
      BY <1>24, <2>7 DEF FinishWork
    <3> QED
      BY <1>1, <1>3, <1>13, <2>1, <2>2, <2>3, <3>1
      DEF CourseOf, OnCourse, Rounds, Ending, InitPc
  <2> QED
    BY <2>5, <2>6, <2>7
<1>25. CASE WorkFails(r)
  <2>1. /\ Fail(r) /\ log' = log /\ blocked'[r] = "none" /\ said' = said /\ pc[r] = "work"
    BY <1>25 DEF WorkFails
  <2>2. /\ WorldCalls(r) = InitCalls + WorkloadCalls(iter[r], PerRound)
                           + (IF step[r] < 2 THEN step[r] ELSE 2)
        /\ args.work
    BY <1>2, <2>1 DEF CourseOf, OnCourse, Rounds, Ending
  <2>3. WorldCalls(r) <= InitCalls + WorkloadCalls(iter[r] + 1, PerRound)
    BY <1>2, <1>7, <2>2 DEF InitCalls
  <2>4. WorldCalls(r) <= Unreduced
    <3>1. iter[r] + 1 \in Nat
      BY <1>2
    <3>2. WorkloadCalls(iter[r] + 1, PerRound) \in Nat
          /\ WorkloadCalls(args.iters, PerRound) \in Nat
      BY <1>2, <1>7, <3>1
    <3> QED
      BY <1>2, <1>8, <1>10, <2>1, <2>3, <3>2 DEF InitCalls
  <2> QED
    BY <1>1, <2>1, <2>4, FailOffCourse DEF Ending
<1>26. CASE LocalMmas(r)
  <2>1. /\ Proceed(r, "node_mma") /\ log' = log /\ blocked'[r] = "none"
        /\ iter' = iter /\ ec' = ec /\ said' = said /\ pc[r] = "local_mma"
    BY <1>5, <1>26 DEF LocalMmas, MpiPc
  <2> QED
    BY <1>1, <1>2, <1>3, <1>12, <1>13, <2>1 DEF CourseOf, OnCourse, Rounds, Ending, InitPc
<1>27. CASE FinishNodeMma(r)
  <2>1. Returns(r, "node_mma") /\ iter' = iter /\ ec' = ec /\ said' = said
    BY <1>27 DEF FinishNodeMma
  <2>2. /\ log' = log /\ blocked'[r] = "none" /\ pc[r] = "node_mma"
        /\ WorldCalls(r) = Unreduced /\ args.input = "run"
        /\ ec[r] = 0 /\ "report" \notin said[r]
    BY <1>2, <1>11, <2>1 DEF CourseOf, OnCourse, Rounds, Ending
  <2>3. (pc'[r] = "global_mma" /\ step'[r] = 0) \/ (pc'[r] = "node_mma" /\ step' = step)
    BY <1>12, <1>27, <2>2 DEF FinishNodeMma
  <2> QED
    BY <1>1, <1>2, <1>3, <1>13, <2>1, <2>2, <2>3 DEF CourseOf, OnCourse,
       Rounds, Ending, InitPc
<1>28. CASE FinishGlobalMma(r)
  <2>1. Returns(r, "global_mma") /\ iter' = iter /\ ec' = ec
    BY <1>28 DEF FinishGlobalMma
  <2>2. /\ log' = log /\ blocked'[r] = "none" /\ pc[r] = "global_mma"
        /\ WorldCalls(r) = Unreduced + step[r] /\ args.input = "run"
        /\ ec[r] = 0 /\ "report" \notin said[r]
    BY <1>2, <1>11, <2>1 DEF CourseOf, OnCourse, Rounds, Ending
  <2>3. CASE step[r] = LastReduction
    <3>1. pc'[r] = "free_smp"
      BY <1>12, <1>28, <2>3 DEF FinishGlobalMma
    <3>2. OnCourse(r)'
      BY <1>2, <1>3, <2>2, <2>3, <3>1 DEF OnCourse, Ending, InitPc, EndCalls,
         LastReduction
    <3>3. Rounds(r)'
      BY <1>1, <2>1, <2>2, <3>1 DEF Rounds, Ending, InitPc
    <3> QED
      BY <1>13, <2>1, <2>2, <3>2, <3>3 DEF CourseOf
  <2>4. CASE step[r] # LastReduction
    <3>1. pc' = pc /\ step' = step /\ said' = said
      BY <1>28, <2>4 DEF FinishGlobalMma
    <3> QED
      BY <1>1, <1>3, <1>13, <2>1, <2>2, <3>1 DEF CourseOf, OnCourse, Rounds,
         Ending, InitPc
  <2> QED
    BY <2>3, <2>4
<1>29. CASE UsageFails(r)
  <2>1. /\ Fail(r) /\ log' = log /\ said' = said
        /\ pc[r] \in {"local_mma", "node_mma", "global_mma"} /\ step[r] = 0
    BY <1>5, <1>29 DEF UsageFails, MpiPc
  <2>2. blocked'[r] = "none"
    BY <1>6, <1>29, <2>1 DEF UsageFails
  <2>3. WorldCalls(r) = Unreduced
    BY <1>2, <2>1 DEF CourseOf, OnCourse, Ending
  <2> QED
    BY <1>1, <1>2, <2>1, <2>2, <2>3, FailOffCourse DEF Ending
<1>30. CASE FinishFreeSmp(r)
  <2>1. /\ Returns(r, "free_smp") /\ Proceed(r, "free_worker")
        /\ iter' = iter /\ ec' = ec /\ said' = said
    BY <1>30 DEF FinishFreeSmp
  <2> QED
    BY <1>1, <1>2, <1>3, <1>11, <1>12, <1>13, <2>1
    DEF CourseOf, OnCourse, OffCourse, Rounds, Ending, InitPc, EndCalls
<1>31. CASE FinishFreeWorker(r)
  <2>1. /\ Returns(r, "free_worker") /\ Proceed(r, "finalize")
        /\ iter' = iter /\ ec' = ec /\ said' = said
    BY <1>31 DEF FinishFreeWorker
  <2> QED
    BY <1>1, <1>2, <1>3, <1>11, <1>12, <1>13, <2>1
    DEF CourseOf, OnCourse, OffCourse, Rounds, Ending, InitPc, EndCalls
<1>32. CASE FinishFinalize(r)
  <2>1. /\ Returns(r, "finalize") /\ Proceed(r, "exited")
        /\ iter' = iter /\ ec' = ec /\ said' = said
    BY <1>32 DEF FinishFinalize
  <2>2. step[r] = 1 /\ pc[r] = "finalize" /\ pc'[r] = "exited" /\ log' = log
    BY <1>2, <1>11, <1>12, <2>1 DEF CallsIn, MpiPc
  <2> QED
    BY <1>1, <1>2, <1>3, <1>11, <1>13, <2>1, <2>2
    DEF CourseOf, OnCourse, OffCourse, Rounds, Ending, InitPc, EndCalls
<1> QED
  BY <1>14, <1>15, <1>16, <1>17, <1>18, <1>19, <1>20, <1>21, <1>22, <1>23,
     <1>24, <1>25, <1>26, <1>27, <1>28, <1>29, <1>30, <1>31, <1>32 DEF Run,
     Failure, Return

LEMMA InitCourseInv == Init => CourseInv
<1> SUFFICES ASSUME Init PROVE CourseInv
  OBVIOUS
<1>1. TypeInv /\ WorldIsAll
  BY InitGateInv DEF GateInv
<1>2. ASSUME NEW r \in Rank
      PROVE  CourseOf(r) /\ pc[r] \in BeforeSplit
  <2>1. /\ pc[r] = "setup" /\ blocked[r] = "none" /\ ec[r] = 0 /\ iter[r] = 0 /\ said[r] = {}
    BY DEF Init, MpiInit
  <2> QED
    BY <2>1 DEF CourseOf, OnCourse, Rounds, Together, InitPc, Ending, BeforeSplit
<1> QED
  BY <1>1, <1>2 DEF CourseInv, NobodyAhead

(* A step leaves what concerns the others alone.                           *)
LEMMA CourseUnchanged ==
  ASSUME args' = args, NEW s \in Rank, Same(s), SameData(s)
  PROVE  /\ CourseOf(s) => CourseOf(s)'
         /\ WorldCalls(s)' = WorldCalls(s)
         /\ EndCalls(s)' = EndCalls(s)
         /\ PostSamples(s)' = PostSamples(s)
<1>1. /\ WorldCalls(s)' = WorldCalls(s)
      /\ EndCalls(s)' = EndCalls(s)
      /\ Unreduced' = Unreduced /\ Reduced' = Reduced /\ PerRound' = PerRound
      /\ blocked[s] = "world" => (Current(s)' = Current(s))
      /\ PostSamples(s)' = PostSamples(s)
  BY DEF Same, SameData, WorldCalls, EndCalls, Unreduced, Reduced, PerRound, Current, Nth,
         PostSamples
<1> HIDE DEF WorldCalls, EndCalls, Unreduced, Reduced, PerRound, Current
<1>2. OnCourse(s) => OnCourse(s)'
  BY <1>1 DEF OnCourse, Same, SameData
<1>3. OffCourse(s) => OffCourse(s)'
  BY <1>1 DEF OffCourse, Same, SameData
<1>4. Rounds(s) => Rounds(s)'
  BY DEF Rounds, Same, SameData
<1>5. Together(s) => Together(s)'
  BY <1>1 DEF Together, Same
<1> QED
  BY <1>1, <1>2, <1>3, <1>4, <1>5 DEF CourseOf, SameData

LEMMA StepCourseInv == CourseInv /\ [Next]_vars => CourseInv'
<1> SUFFICES ASSUME CourseInv, [Next]_vars PROVE CourseInv'
  OBVIOUS
<1>1. TypeInv' /\ TypeOK
  BY StepTypeInv DEF CourseInv, TypeInv
<1>2. CASE UNCHANGED vars
  <2>1. args' = args /\ \A s \in Rank : Same(s) /\ SameData(s)
    BY <1>2 DEF vars, Same, SameData
  <2>2. \A s \in Rank : CourseOf(s)'
    BY <2>1, CourseUnchanged DEF CourseInv
  <2>3. NobodyAhead'
    BY <1>2 DEF vars, CourseInv, NobodyAhead, Cleared, WorldCalls
  <2>4. WorldIsAll'
    BY <1>2 DEF vars, CourseInv, WorldIsAll
  <2> QED
    BY <1>1, <2>2, <2>3, <2>4 DEF CourseInv
<1>3. CASE Next
  <2>1. PICK r \in Rank : Run(r) \/ Failure(r)
    BY <1>3 DEF Next
  <2>2. args' = args /\ \A s \in Rank \ {r} : Same(s) /\ SameData(s)
    BY <1>1, <2>1, OthersStay, OthersKeep
  <2>3. \A s \in Rank \ {r} : CourseOf(s)'
    BY <2>2, CourseUnchanged DEF CourseInv
  <2>4. CourseOf(r)'
    BY <2>1, StepOnCourse
  <2>5. NobodyAhead'
    BY <2>1, StepNobodyAhead
  <2>6. WorldIsAll'
    BY <2>1, StepEffects DEF CourseInv, WorldIsAll
  <2> QED
    BY <1>1, <2>3, <2>4, <2>5, <2>6 DEF CourseInv
<1> QED
  BY <1>2, <1>3

(* Whoever reports, or ends with success, has returned from the reductions *)
(* of the job.                                                             *)
LEMMA SuccessClearsReductions ==
  ASSUME CourseInv, NEW r \in Rank, ec[r] = 0, pc[r] \in Ending, args.input = "run"
  PROVE  Reduced <= Cleared(r)
<1>1. CourseOf(r) /\ TypeOK /\ ControlOf(r)
  BY DEF CourseInv, TypeInv, Control
<1>2. WorldCalls(r) = Reduced + EndCalls(r) /\ Together(r)
  BY <1>1 DEF CourseOf, OnCourse
<1>3. Reduced \in Nat /\ step[r] \in Nat
  <2>1. args.iters \in Nat
    BY <1>1, ItersIsNat
  <2>2. WorkloadCalls(args.iters, PerRound) \in Nat
    BY <2>1, WorkloadGrows
  <2>3. step[r] \in Nat
    BY <1>1 DEF TypeOK
  <2> QED
    BY <2>2, <2>3 DEF Reduced, Unreduced, InitCalls, LastReduction
<1>4. blocked[r] # "none" => step[r] > 0 /\ pc[r] \in MpiPc
  BY <1>1 DEF ControlOf, Counting
<1> HIDE DEF WorldCalls, Reduced
<1>5. CASE pc[r] = "exited"
  BY <1>2, <1>3, <1>5 DEF EndCalls, Cleared
<1>6. CASE pc[r] = "finalize"
  BY <1>2, <1>3, <1>4, <1>6 DEF EndCalls, Cleared
<1>7. CASE pc[r] \in {"free_smp", "free_worker"}
  BY <1>2, <1>3, <1>7 DEF EndCalls, Cleared, Together
<1> QED
  BY <1>5, <1>6, <1>7 DEF Ending

LEMMA CourseIsUnanimous == CourseInv => SuccessIsUnanimous
<1> SUFFICES ASSUME CourseInv, args.input = "run", NEW r \in Rank, NEW s \in Rank,
                    (Exited(r) /\ ec[r] = 0) \/ "report" \in said[r]
             PROVE  ec[s] = 0
  BY DEF SuccessIsUnanimous
<1>1. pc[r] \in Ending /\ ec[r] = 0
  BY DEF CourseInv, CourseOf, Rounds, Exited, Ending
<1>2. Reduced <= WorldCalls(s)
  <2>1. Reduced <= Cleared(r)
    BY <1>1, SuccessClearsReductions
  <2>2. Cleared(r) <= WorldCalls(s)
    BY <1>1 DEF CourseInv, NobodyAhead, Ending, BeforeSplit
  <2>3. Cleared(r) \in Int /\ WorldCalls(s) \in Int /\ Reduced \in Int
    <3>1. TypeOK
      BY DEF CourseInv, TypeInv
    <3>2. args.iters \in Nat /\ WorldCalls(r) \in Nat /\ WorldCalls(s) \in Nat
      BY <3>1, ItersIsNat, WorldCallsIsNat
    <3>3. WorkloadCalls(args.iters, PerRound) \in Nat
      BY <3>2, WorkloadGrows
    <3> QED
      BY <3>2, <3>3 DEF Cleared, Reduced, Unreduced, InitCalls, LastReduction
  <2> QED
    BY <2>1, <2>2, <2>3
<1>3. ec[s] \in {0, 1} /\ EndCalls(s) <= 1 /\ EndCalls(s) \in Nat
  <2>1. TypeOK /\ ControlOf(s)
    BY DEF CourseInv, TypeInv, Control
  <2>2. ec[s] \in {0, 1} /\ step[s] \in Nat
    BY <2>1 DEF TypeOK
  <2>3. pc[s] = "finalize" => step[s] <= 1
    BY <2>1 DEF ControlOf, Counting, CallsIn, MpiPc
  <2> QED
    BY <2>2, <2>3 DEF EndCalls
<1>4. ec[s] # 0 => WorldCalls(s) <= Unreduced + EndCalls(s)
  BY DEF CourseInv, CourseOf, OffCourse
<1>5. WorldCalls(s) \in Nat /\ Unreduced \in Nat
  <2>1. TypeOK
    BY DEF CourseInv, TypeInv
  <2>2. args.iters \in Nat /\ WorldCalls(s) \in Nat
    BY <2>1, ItersIsNat, WorldCallsIsNat
  <2>3. WorkloadCalls(args.iters, PerRound) \in Nat
    BY <2>2, WorkloadGrows
  <2> QED
    BY <2>2, <2>3 DEF Unreduced, InitCalls
<1>6. Reduced = Unreduced + 12
  BY DEF Reduced, LastReduction
<1> QED
  BY <1>2, <1>3, <1>4, <1>5, <1>6

(* A fault of one process, or uneven nodes, keeps all others from exiting  *)
(* with success and from printing a report: what failed takes no part in   *)
(* the reductions of the job, and whoever succeeds has returned from them  *)
(* (the "out" label of main, mpimemu.c:210-221).                           *)
THEOREM AllSucceedOrNone == Spec => []SuccessIsUnanimous
BY InitCourseInv, StepCourseInv, CourseIsUnanimous, PTL DEF Spec

(***************************************************************************)
(* The samples a process has taken after MPI_Init go with the calls it has *)
(* made, so that nobody is more than one sample ahead with the workload on. *)
(***************************************************************************)

CallsForSamples(n, calls) == InitCalls + WorkloadCalls(n, calls)

SampleCount(r) ==
  /\ pc[r] \notin {"node_mma", "global_mma"} \cup Ending => local[r]["self_post"] = << >>
  /\ pc[r] \in {"setup", "sample_pre"} \cup InitPc => PostSamples(r) = 0
  /\ pc[r] \in {"work", "sample_post"} => PostSamples(r) = iter[r]
  /\ pc[r] \in {"local_mma", "node_mma", "global_mma"} => PostSamples(r) = args.iters
  /\ pc[r] \in Ending =>
       /\ PostSamples(r) > 0 =>
            /\ PostSamples(r) <= args.iters
            /\ CallsForSamples(PostSamples(r), PerRound) + EndCalls(r) <= WorldCalls(r)
       /\ PostSamples(r) < args.iters =>
            WorldCalls(r) <= CallsForSamples(PostSamples(r) + 1, PerRound) + EndCalls(r)

SampleInv == CourseInv /\ \A r \in Rank : SampleCount(r)

LEMMA PostSamplesIsNat ==
  ASSUME TypeOK, NEW r \in Rank
  PROVE  /\ samples[r]["self_post"] \in Seq({"real", "bogus"})
         /\ local[r]["self_post"] \in Seq({"real", "bogus"})
         /\ PostSamples(r) \in Nat
<1>1. /\ samples[r]["self_post"] \in Seq({"real", "bogus"})
      /\ local[r]["self_post"] \in Seq({"real", "bogus"})
  BY DEF TypeOK, SampleType
<1>2. \A seq \in Seq({"real", "bogus"}) : Len(seq) \in Nat
  BY LenProperties
<1>3. Len(samples[r]["self_post"]) \in Nat /\ Len(local[r]["self_post"]) \in Nat
  BY ONLY <1>1, <1>2
<1>4. \A m, n \in Nat : m + n \in Nat
  OBVIOUS
<1>5. PostSamples(r) \in Nat
  BY ONLY <1>3, <1>4, Zenon DEF PostSamples
<1> QED
  BY <1>1, <1>5

(* A self sample goes on the post list after MPI_Init only.                *)
LEMMA SelfSampleCounts ==
  ASSUME NEW lists \in SampleLists, NEW flags
  PROVE  /\ Len(WithSelf(lists, flags)["self_post"]) =
              Len(lists["self_post"]) + (IF "PRE" \in flags THEN 0 ELSE 1)
         /\ WithNode(lists, flags)["self_post"] = lists["self_post"]
<1>1. lists["self_post"] \in Seq({"real", "bogus"}) /\ lists \in [SampleType -> Seq({"real", "bogus"})]
  BY DEF SampleLists, SampleType
<1>2. Len(Append(lists["self_post"], "real")) = Len(lists["self_post"]) + 1
      /\ Len(lists["self_post"]) \in Nat
  BY <1>1, AppendProperties, LenProperties
<1>3. WithNode(lists, flags)["self_post"] = lists["self_post"]
  BY <1>1 DEF WithNode, NodeList, SampleType
<1>4. CASE "PRE" \in flags
  <2>1. WithSelf(lists, flags)["self_post"] = lists["self_post"]
    BY <1>1, <1>4 DEF WithSelf, SelfList, SampleType
  <2> QED
    BY <1>2, <1>3, <1>4, <2>1
<1>5. CASE "PRE" \notin flags
  <2>1. WithSelf(lists, flags)["self_post"] = Append(lists["self_post"], "real")
    BY <1>1, <1>5 DEF WithSelf, SelfList, SampleType
  <2> QED
    BY <1>2, <1>3, <1>5, <2>1
<1> QED
  BY <1>4, <1>5

(* What each step does to the count of samples after MPI_Init.             *)
LEMMA SamplesTaken ==
  ASSUME TypeInv, NEW r \in Rank, local[r]["self_post"] = << >> \/ pc[r] # "local_mma",
         Run(r) \/ Failure(r)
  PROVE  /\ \/ UNCHANGED <<samples, local>>
            \/ pc[r] \in {"sample_pre", "sample_post"} /\ local' = local
            \/ LocalMmas(r)
         /\ TakeSample(r) =>
              PostSamples(r)' = PostSamples(r) + (IF Initialized(r) THEN 1 ELSE 0)
         /\ TakeSampleFails(r) =>
              \/ PostSamples(r)' = PostSamples(r)
              \/ PostSamples(r)' = PostSamples(r) + (IF Initialized(r) THEN 1 ELSE 0)
         /\ ~TakeSample(r) /\ ~TakeSampleFails(r) => PostSamples(r)' = PostSamples(r)
<1>1. TypeOK /\ samples \in [Rank -> SampleLists] /\ local \in [Rank -> SampleLists]
  BY DEF TypeInv, TypeOK, SampleLists
<1>2. UNCHANGED <<samples, local>> => PostSamples(r)' = PostSamples(r)
  BY DEF PostSamples
<1>3. "PRE" \in Flags(r) <=> ~Initialized(r)
  BY DEF Flags
<1> DEFINE a == Len(samples[r]["self_post"])
           b == Len(local[r]["self_post"])
<1>4. /\ a \in Nat /\ b \in Nat
      /\ PostSamples(r) = a + b /\ PostSamples(r)' = a' + b'
  <2>1. \A seq \in Seq({"real", "bogus"}) : Len(seq) \in Nat
    BY LenProperties
  <2>2. /\ samples[r]["self_post"] \in Seq({"real", "bogus"})
        /\ local[r]["self_post"] \in Seq({"real", "bogus"})
    BY <1>1, PostSamplesIsNat
  <2>3. a \in Nat /\ b \in Nat
    BY ONLY <2>1, <2>2
  <2>4. PostSamples(r) = a + b /\ PostSamples(r)' = a' + b'
    BY Zenon DEF PostSamples
  <2> QED
    BY ONLY <2>3, <2>4
<1>5. ASSUME TakeSample(r)
      PROVE  /\ pc[r] \in {"sample_pre", "sample_post"} /\ local' = local
             /\ PostSamples(r)' = PostSamples(r) + (IF Initialized(r) THEN 1 ELSE 0)
  <2>1. /\ pc[r] \in {"sample_pre", "sample_post"} /\ local' = local
        /\ samples'[r] = WithNode(WithSelf(samples[r], Flags(r)), Flags(r))
    BY <1>1, <1>5 DEF TakeSample
  <2>2. WithSelf(samples[r], Flags(r)) \in SampleLists /\ samples[r] \in SampleLists
    BY <1>1, SampleListsGrow
  <2>3. Len(samples'[r]["self_post"]) =
          Len(samples[r]["self_post"]) + (IF "PRE" \in Flags(r) THEN 0 ELSE 1)
    <3> DEFINE self == WithSelf(samples[r], Flags(r))
    <3>1. samples'[r]["self_post"] = WithSelf(samples[r], Flags(r))["self_post"]
      <4>1. WithNode(self, Flags(r))["self_post"] = self["self_post"]
        <5> HIDE DEF self
        <5> QED
          BY <2>2, SelfSampleCounts DEF self
      <4> QED
        BY <2>1, <4>1
    <3>2. Len(WithSelf(samples[r], Flags(r))["self_post"]) =
            Len(samples[r]["self_post"]) + (IF "PRE" \in Flags(r) THEN 0 ELSE 1)
      BY <2>2, SelfSampleCounts
    <3> QED
      BY ONLY <3>1, <3>2, Zenon
  <2>4. a' = a + (IF "PRE" \in Flags(r) THEN 0 ELSE 1) /\ b' = b
    BY <2>1, <2>3
  <2> HIDE DEF a, b
  <2> QED
    BY <1>3, <1>4, <2>1, <2>4
<1>6. ASSUME TakeSampleFails(r)
      PROVE  /\ pc[r] \in {"sample_pre", "sample_post"} /\ local' = local
             /\ \/ PostSamples(r)' = PostSamples(r)
                \/ PostSamples(r)' = PostSamples(r) + (IF Initialized(r) THEN 1 ELSE 0)
  <2>1. /\ pc[r] \in {"sample_pre", "sample_post"} /\ local' = local
        /\ samples' = samples \/ samples'[r] = WithSelf(samples[r], Flags(r))
    BY <1>1, <1>6 DEF TakeSampleFails
  <2>2. Len(WithSelf(samples[r], Flags(r))["self_post"]) =
          Len(samples[r]["self_post"]) + (IF "PRE" \in Flags(r) THEN 0 ELSE 1)
    BY <1>1, SelfSampleCounts
  <2>3. CASE samples' = samples
    BY <1>2, <2>1, <2>3
  <2>4. CASE samples'[r] = WithSelf(samples[r], Flags(r))
    <3>1. a' = a + (IF "PRE" \in Flags(r) THEN 0 ELSE 1) /\ b' = b
      BY <2>1, <2>2, <2>4
    <3> HIDE DEF a, b
    <3> QED
      BY <1>3, <1>4, <2>1, <3>1
  <2> QED
    BY <2>1, <2>3, <2>4
<1>7. ASSUME LocalMmas(r)
      PROVE  PostSamples(r)' = PostSamples(r)
  <2>1. pc[r] = "local_mma" /\ local'[r] = samples[r] /\ samples'[r]["self_post"] = << >>
    BY <1>1, <1>7 DEF LocalMmas, SampleType
  <2>2. Len(<< >>) = 0 /\ local[r]["self_post"] = << >>
    BY <2>1
  <2>3. a' = 0 /\ b' = a /\ b = 0
    BY <2>1, <2>2
  <2> HIDE DEF a, b
  <2> QED
    BY <1>4, <2>3
<1>8. \/ UNCHANGED <<samples, local>>
      \/ TakeSample(r) \/ TakeSampleFails(r) \/ LocalMmas(r)
  BY DEF Run, Failure, Return, Setup, SetupFails, EnterCall, FinishInit, FinishSplitSmp,
         FinishSplitWorker, FinishNumNodes, FinishVerify, FinishWork, WorkFails,
         FinishNodeMma, FinishGlobalMma, UsageFails, FinishFreeSmp, FinishFreeWorker,
         FinishFinalize, dataVars
<1> QED
  BY <1>2, <1>5, <1>6, <1>7, <1>8

(* Where a step that takes no sample takes a process.                      *)
EarlyPc == {"setup", "sample_pre"} \cup InitPc

Moves(r) ==
  \/ pc[r] \in EarlyPc /\ pc'[r] \in EarlyPc
  \/ pc[r] \in EarlyPc /\ pc'[r] = "exited" /\ WorldCalls(r) = 0
  \/ pc[r] = "verify" /\ pc'[r] \in {"work", "sample_post", "free_smp"}
  \/ pc[r] = "work" /\ pc'[r] \in {"work", "sample_post", "free_smp"}
  \/ /\ pc[r] \in {"local_mma", "node_mma", "global_mma"}
     /\ pc'[r] \in {"node_mma", "global_mma", "free_smp"}
  \/ pc[r] \in {"free_smp", "free_worker"} /\ pc'[r] \in {"free_worker", "finalize"} /\ step'[r] = 0
  \/ pc[r] = "finalize" /\ step[r] = 1 /\ pc'[r] = "exited"

LEMMA StepMoves ==
  ASSUME CourseInv, NEW r \in Rank, Run(r) \/ Failure(r)
  PROVE  \/ EnterCall(r)
         \/ TakeSample(r)
         \/ TakeSampleFails(r)
         \/ LocalMmas(r)
         \/ UNCHANGED <<iter, log, samples, local>> /\ Moves(r)
<1>1. pc[r] # "exited" /\ TypeInv
  BY StepKinds DEF CourseInv
<1>2. /\ TypeOK /\ ControlOf(r) /\ CourseOf(r)
      /\ pc \in [Rank -> Pc] /\ step[r] \in Nat /\ iter[r] \in Nat
      /\ WorldCalls(r) \in Nat
      /\ Initialized(r) <=> WorldCalls(r) # 0
      /\ Unreduced \in Nat /\ Unreduced >= InitCalls
      /\ pc[r] \notin Ending => ec[r] = 0 /\ "report" \notin said[r]
  BY <1>1, CourseFacts
<1>3. step \in [Rank -> 0..LastReduction]
  BY <1>2 DEF TypeOK
<1>4. pc[r] = "work" \/ pc[r] \in {"local_mma", "node_mma", "global_mma"} => WorldCalls(r) # 0
  <2>1. CASE pc[r] = "work"
    <3>1. WorldCalls(r) = InitCalls + WorkloadCalls(iter[r], PerRound)
                          + (IF step[r] < 2 THEN step[r] ELSE 2)
      BY <1>2, <2>1 DEF CourseOf, OnCourse, Ending
    <3>2. WorkloadCalls(iter[r], PerRound) \in Nat
      BY <1>2, WorkloadGrows
    <3> QED
      BY <1>2, <3>1, <3>2 DEF InitCalls
  <2>2. CASE pc[r] \in {"local_mma", "node_mma", "global_mma"}
    BY <1>2, <2>2 DEF CourseOf, OnCourse, Ending, InitCalls
  <2> QED
    BY <2>1, <2>2
<1> HIDE DEF WorldCalls, Unreduced
<1>5. ASSUME NEW where, Returns(r, where)
      PROVE  log' = log /\ pc[r] = where /\ step[r] > 0 /\ step[r] <= CallsIn(where)
  BY <1>2, <1>5 DEF Returns, MayReturn, Leave, ControlOf, Counting
<1>6. ASSUME NEW where, Proceed(r, where)
      PROVE  pc'[r] = where /\ step'[r] = 0
  BY <1>2, <1>3, <1>6 DEF Proceed, Goto, LastReduction
<1>7. ASSUME Fail(r)
      PROVE  pc'[r] = IF WorldCalls(r) # 0 THEN "free_smp" ELSE "exited"
  BY <1>2, <1>7 DEF Fail, Goto
<1>8. CASE Setup(r) \/ SetupFails(r)
  <2>1. WorldCalls(r) = 0 /\ UNCHANGED <<iter, log, samples, local>> /\ pc[r] = "setup"
    BY <1>2, <1>8 DEF Setup, SetupFails, dataVars, ControlOf, Early, Initialized
  <2>2. pc'[r] \in {"sample_pre", "exited"}
    BY <1>2, <1>7, <1>8, <2>1 DEF Setup, SetupFails, Goto
  <2> QED
    BY <2>1, <2>2 DEF Moves, EarlyPc
<1>9. CASE FinishInit(r)
  BY <1>5, <1>6, <1>9 DEF FinishInit, dataVars, Moves, EarlyPc, InitPc
<1>10. CASE FinishSplitSmp(r)
  BY <1>5, <1>6, <1>10 DEF FinishSplitSmp, dataVars, Moves, EarlyPc, InitPc
<1>11. CASE FinishSplitWorker(r)
  BY <1>5, <1>6, <1>11 DEF FinishSplitWorker, dataVars, Moves, EarlyPc, InitPc
<1>12. CASE FinishNumNodes(r)
  BY <1>5, <1>6, <1>12 DEF FinishNumNodes, dataVars, Moves, EarlyPc, InitPc
<1>13. CASE FinishVerify(r)
  BY <1>5, <1>6, <1>13 DEF FinishVerify, dataVars, PpnDiffers, PpnAgrees,
     StartIteration, Moves
<1>14. CASE FinishWork(r)
  <2>1. Returns(r, "work") /\ UNCHANGED <<iter, samples, local>>
    BY <1>14 DEF FinishWork, dataVars
  <2>2. Fail(r) \/ Proceed(r, "sample_post") \/ pc' = pc
    BY <1>14 DEF FinishWork
  <2> QED
    BY <1>4, <1>5, <1>6, <1>7, <2>1, <2>2 DEF Moves
<1>15. CASE WorkFails(r)
  BY <1>4, <1>7, <1>15 DEF WorkFails, dataVars, Moves
<1>16. CASE FinishNodeMma(r)
  BY <1>5, <1>6, <1>16 DEF FinishNodeMma, dataVars, Moves
<1>17. CASE FinishGlobalMma(r)
  BY <1>5, <1>6, <1>17 DEF FinishGlobalMma, dataVars, Moves
<1>18. CASE UsageFails(r)
  BY <1>4, <1>7, <1>18 DEF UsageFails, dataVars, Moves
<1>19. CASE FinishFreeSmp(r)
  BY <1>5, <1>6, <1>19 DEF FinishFreeSmp, dataVars, Moves
<1>20. CASE FinishFreeWorker(r)
  BY <1>5, <1>6, <1>20 DEF FinishFreeWorker, dataVars, Moves
<1>21. CASE FinishFinalize(r)
  <2>1. Returns(r, "finalize") /\ Proceed(r, "exited")
        /\ UNCHANGED <<iter, samples, local>>
    BY <1>21 DEF FinishFinalize, dataVars
  <2>2. CallsIn("finalize") = 1
    BY DEF CallsIn, MpiPc
  <2> QED
    BY <1>2, <1>5, <1>6, <2>1, <2>2 DEF Moves
<1> QED
  BY <1>8, <1>9, <1>10, <1>11, <1>12, <1>13, <1>14, <1>15, <1>16, <1>17,
     <1>18, <1>19, <1>20, <1>21 DEF Run, Failure, Return

LEMMA SampleFacts ==
  ASSUME SampleInv, NEW r \in Rank
  PROVE  /\ TypeOK /\ ControlOf(r) /\ CourseOf(r) /\ SampleCount(r)
         /\ step[r] \in Nat /\ iter[r] \in Nat /\ args.iters \in Nat
         /\ WorldCalls(r) \in Nat /\ PostSamples(r) \in Nat
         /\ pc[r] \notin {"setup", "exited"} => iter[r] < args.iters
         /\ PerRound \in {0, 2}
         /\ EndCalls(r) \in {0, 1}
         /\ pc[r] = "work" => PerRound = 2
<1>1. TypeOK /\ ControlOf(r) /\ CourseOf(r) /\ SampleCount(r)
  BY DEF SampleInv, CourseInv, TypeInv, Control
<1>2. step[r] \in Nat /\ iter[r] \in Nat /\ args.iters \in Nat
  BY <1>1, ItersIsNat DEF TypeOK
<1>3. WorldCalls(r) \in Nat /\ PostSamples(r) \in Nat
  BY <1>1, WorldCallsIsNat, PostSamplesIsNat
<1>4. pc[r] \notin {"setup", "exited"} => iter[r] < args.iters
  BY <1>1, <1>2 DEF TypeOK, ControlOf, HasSamples
<1>5. PerRound \in {0, 2} /\ (args.work <=> PerRound = 2)
  BY WorkloadGrows DEF PerRound
<1>6. pc[r] = "work" => args.work
  BY <1>1 DEF CourseOf, Rounds
<1>7. EndCalls(r) \in {0, 1}
  <2>1. pc[r] = "finalize" => step[r] <= 1
    BY <1>1 DEF ControlOf, Counting, CallsIn, MpiPc
  <2> QED
    BY <1>2, <2>1 DEF EndCalls
<1> QED
  BY <1>1, <1>2, <1>3, <1>4, <1>5, <1>6, <1>7

(* The calls for n samples grow with n.                                    *)
LEMMA CallsForSamplesGrow ==
  ASSUME PerRound \in {0, 2}
  PROVE  /\ CallsForSamples(0, PerRound) = InitCalls
         /\ \A n \in Nat :
              /\ CallsForSamples(n, PerRound) \in Nat
              /\ CallsForSamples(n, PerRound) >= InitCalls
              /\ CallsForSamples(n + 1, PerRound) = CallsForSamples(n, PerRound) + PerRound
         /\ \A m, n \in Nat : m <= n => CallsForSamples(m, PerRound) <= CallsForSamples(n, PerRound)
<1>1. /\ WorkloadCalls(0, PerRound) = 0
      /\ \A n \in Nat :
           /\ WorkloadCalls(n, PerRound) \in Nat
           /\ WorkloadCalls(n + 1, PerRound) = WorkloadCalls(n, PerRound) + PerRound
      /\ \A m, n \in Nat : m <= n => WorkloadCalls(m, PerRound) <= WorkloadCalls(n, PerRound)
  BY WorkloadGrows
<1>2. \A n : CallsForSamples(n, PerRound) = 5 + WorkloadCalls(n, PerRound)
  BY DEF CallsForSamples, InitCalls
<1>3. InitCalls = 5
  BY DEF InitCalls
<1>4. /\ CallsForSamples(0, PerRound) = InitCalls
      /\ \A n \in Nat :
           /\ CallsForSamples(n, PerRound) \in Nat
           /\ CallsForSamples(n, PerRound) >= InitCalls
  <2>1. CallsForSamples(0, PerRound) = InitCalls
    BY <1>1, <1>2, <1>3
  <2>2. ASSUME NEW n \in Nat
        PROVE  CallsForSamples(n, PerRound) \in Nat /\ CallsForSamples(n, PerRound) >= InitCalls
    <3>1. WorkloadCalls(n, PerRound) \in Nat
      BY <1>1
    <3> QED
      BY <1>2, <1>3, <3>1
  <2> QED
    BY <2>1, <2>2
<1>5. \A n \in Nat : CallsForSamples(n + 1, PerRound) = CallsForSamples(n, PerRound) + PerRound
  <2>1. SUFFICES ASSUME NEW n \in Nat
                 PROVE  CallsForSamples(n + 1, PerRound) = CallsForSamples(n, PerRound) + PerRound
    OBVIOUS
  <2>2. WorkloadCalls(n + 1, PerRound) = WorkloadCalls(n, PerRound) + PerRound
        /\ WorkloadCalls(n, PerRound) \in Nat
    BY <1>1
  <2> QED
    BY <1>2, <2>2
<1>6. \A m, n \in Nat : m <= n => CallsForSamples(m, PerRound) <= CallsForSamples(n, PerRound)
  <2>1. SUFFICES ASSUME NEW m \in Nat, NEW n \in Nat, m <= n
                 PROVE  CallsForSamples(m, PerRound) <= CallsForSamples(n, PerRound)
    OBVIOUS
  <2>2. /\ WorkloadCalls(m, PerRound) <= WorkloadCalls(n, PerRound)
        /\ WorkloadCalls(m, PerRound) \in Nat
        /\ WorkloadCalls(n, PerRound) \in Nat
    BY <1>1, <2>1
  <2> QED
    BY <1>2, <2>2
<1> QED
  BY <1>4, <1>5, <1>6

LEMMA StepSampleCount ==
  ASSUME SampleInv, CourseInv', NEW r \in Rank, Run(r) \/ Failure(r)
  PROVE  SampleCount(r)'
<1>1. /\ TypeOK /\ ControlOf(r) /\ CourseOf(r) /\ SampleCount(r)
      /\ step[r] \in Nat /\ iter[r] \in Nat /\ args.iters \in Nat
      /\ WorldCalls(r) \in Nat /\ PostSamples(r) \in Nat
      /\ pc[r] \notin {"setup", "exited"} => iter[r] < args.iters
      /\ PerRound \in {0, 2}
      /\ EndCalls(r) \in {0, 1}
      /\ pc[r] = "work" => PerRound = 2
  BY SampleFacts
<1>2. /\ args' = args /\ pc[r] # "exited" /\ TypeInv /\ PerRound' = PerRound
  BY OthersStay, StepKinds DEF SampleInv, CourseInv, TypeInv, PerRound
<1>3. /\ local[r]["self_post"] = << >> \/ pc[r] # "local_mma"
      /\ pc \in [Rank -> Pc] /\ step \in [Rank -> 0..LastReduction] /\ iter \in [Rank -> Nat]
      /\ local \in [Rank -> SampleLists] /\ samples \in [Rank -> SampleLists]
  BY <1>1 DEF SampleCount, Ending, TypeOK, SampleLists
<1>4. /\ \/ UNCHANGED <<samples, local>>
         \/ pc[r] \in {"sample_pre", "sample_post"} /\ local' = local
         \/ LocalMmas(r)
      /\ TakeSample(r) =>
           PostSamples(r)' = PostSamples(r) + (IF Initialized(r) THEN 1 ELSE 0)
      /\ TakeSampleFails(r) =>
           \/ PostSamples(r)' = PostSamples(r)
           \/ PostSamples(r)' = PostSamples(r) + (IF Initialized(r) THEN 1 ELSE 0)
      /\ ~TakeSample(r) /\ ~TakeSampleFails(r) => PostSamples(r)' = PostSamples(r)
  BY <1>2, <1>3, SamplesTaken
<1>5. /\ Initialized(r) <=> WorldCalls(r) # 0
      /\ pc[r] \in {"setup", "sample_pre"} => WorldCalls(r) = 0
      /\ pc[r] \notin Ending => ec[r] = 0
      /\ log' = log => WorldCalls(r)' = WorldCalls(r)
  BY <1>1, WorldCallsIsNat
  DEF Initialized, ControlOf, Early, CourseOf, OffCourse, WorldCalls
<1>6. /\ CallsForSamples(0, PerRound) = InitCalls
      /\ \A n \in Nat :
           /\ CallsForSamples(n, PerRound) \in Nat
           /\ CallsForSamples(n, PerRound) >= InitCalls
           /\ CallsForSamples(n + 1, PerRound) = CallsForSamples(n, PerRound) + PerRound
      /\ \A m, n \in Nat : m <= n => CallsForSamples(m, PerRound) <= CallsForSamples(n, PerRound)
  BY <1>1, CallsForSamplesGrow
<1>7. /\ pc[r] \in InitPc => WorldCalls(r) = CallsBefore(pc[r]) + step[r]
      /\ pc[r] = "work" =>
           WorldCalls(r) = CallsForSamples(iter[r], PerRound) + (IF step[r] < 2 THEN step[r] ELSE 2)
      /\ pc[r] = "sample_post" => WorldCalls(r) = CallsForSamples(iter[r] + 1, PerRound)
      /\ pc[r] \in {"local_mma", "node_mma"} => WorldCalls(r) = CallsForSamples(args.iters, PerRound)
      /\ pc[r] = "global_mma" => WorldCalls(r) = CallsForSamples(args.iters, PerRound) + step[r]
  BY <1>1, <1>5 DEF CourseOf, OnCourse, CallsForSamples, Unreduced, Ending, InitPc
<1>8. /\ PostSamples(r)' \in Nat
      /\ WorldCalls(r)' \in Nat
  <2>1. TypeOK'
    BY DEF CourseInv, TypeInv
  <2>2. \A s \in Rank : WorldCalls(s) \in Nat /\ PostSamples(s) \in Nat
    BY <1>1, WorldCallsIsNat, PostSamplesIsNat
  <2>3. WorldCalls(r)' \in Nat
    <3>1. log'[r]["world"] \in Seq(Call)
      BY <2>1 DEF TypeOK, MpiTypeOK, Context, Communicator
    <3> QED
      BY <3>1, LenProperties DEF WorldCalls
  <2> QED
    BY <1>1, <1>4, <2>3
<1> HIDE DEF WorldCalls, PostSamples, CallsForSamples, PerRound
<1>9. CASE EnterCall(r)
  <2>1. /\ pc[r] \in MpiPc /\ pc' = pc /\ iter' = iter /\ local' = local
        /\ step'[r] = step[r] + 1 /\ blocked[r] = "none"
        /\ CallContext(r) = "world" => WorldCalls(r)' = WorldCalls(r) + 1
        /\ CallContext(r) # "world" => WorldCalls(r)' = WorldCalls(r)
    BY <1>2, <1>9, WorldCallEntered DEF EnterCall, dataVars, WorldCalls
  <2>2. PostSamples(r)' = PostSamples(r)
    BY <1>4, <1>9, <2>1 DEF EnterCall, TakeSample, TakeSampleFails, MpiPc
  <2>3. /\ pc[r] = "finalize" => CallContext(r) = "world"
        /\ pc[r] \in {"free_smp", "free_worker"} => CallContext(r) # "world"
    BY <1>2, <2>1, JobCalls
  <2>4. CASE pc[r] \notin Ending
    BY <1>1, <1>2, <2>1, <2>2, <2>4 DEF SampleCount
  <2>5. CASE pc[r] \in Ending
    <3>1. WorldCalls(r)' - EndCalls(r)' = WorldCalls(r) - EndCalls(r) /\ EndCalls(r)' \in Nat
      BY <1>1, <2>1, <2>3, <2>5 DEF EndCalls, Ending, MpiPc
    <3>2. /\ CallsForSamples(PostSamples(r), PerRound) \in Nat
          /\ CallsForSamples(PostSamples(r) + 1, PerRound) \in Nat
      <4>1. PostSamples(r) + 1 \in Nat
        BY <1>1
      <4> QED
        BY <1>1, <1>6, <4>1
    <3>3. /\ PostSamples(r) > 0 =>
               /\ PostSamples(r) <= args.iters
               /\ CallsForSamples(PostSamples(r), PerRound) + EndCalls(r)' <= WorldCalls(r)'
          /\ PostSamples(r) < args.iters =>
               WorldCalls(r)' <= CallsForSamples(PostSamples(r) + 1, PerRound) + EndCalls(r)'
      BY <1>1, <1>8, <2>5, <3>1, <3>2 DEF SampleCount
    <3> QED
      BY <1>2, <2>1, <2>2, <2>5, <3>3 DEF SampleCount, Ending, InitPc
  <2> QED
    BY <2>4, <2>5
<1>10. CASE TakeSample(r)
  <2>1. /\ pc[r] \in {"sample_pre", "sample_post"} /\ local' = local
        /\ log' = log
    BY <1>10 DEF TakeSample
  <2>2. Initialized(r) <=> pc[r] = "sample_post"
    <3>1. iter[r] + 1 \in Nat
      BY <1>1
    <3>2. CallsForSamples(iter[r] + 1, PerRound) >= 5
      BY <1>6, <3>1 DEF InitCalls
    <3> QED
      BY <1>5, <1>7, <2>1, <3>2
  <2>3. PostSamples(r)' = IF pc[r] = "sample_post" THEN iter[r] + 1 ELSE 0
    BY <1>1, <1>4, <1>10, <2>1, <2>2 DEF SampleCount
  <2>4. IF iter[r] + 1 = args.iters
          THEN pc'[r] = IF pc[r] = "sample_post" THEN "local_mma" ELSE "init"
          ELSE /\ iter'[r] = iter[r] + 1
               /\ pc[r] = "sample_pre" => pc'[r] = "sample_pre"
               /\ pc[r] = "sample_post" => pc'[r] \in {"work", "sample_post"}
    BY <1>3, <1>10, <2>1, <2>2 DEF TakeSample, Goto, StartIteration
  <2> QED
    BY <1>1, <1>2, <2>1, <2>3, <2>4 DEF SampleCount, Ending, InitPc
<1>11. CASE TakeSampleFails(r)
  <2>1. /\ pc[r] \in {"sample_pre", "sample_post"} /\ local' = local
        /\ log' = log
    BY <1>11 DEF TakeSampleFails
  <2>2. Initialized(r) <=> pc[r] = "sample_post"
    <3>1. iter[r] + 1 \in Nat
      BY <1>1
    <3>2. CallsForSamples(iter[r] + 1, PerRound) >= 5
      BY <1>6, <3>1 DEF InitCalls
    <3> QED
      BY <1>5, <1>7, <2>1, <3>2
  <2>3. IF pc[r] = "sample_post"
          THEN PostSamples(r)' \in {iter[r], iter[r] + 1} ELSE PostSamples(r)' = 0
    BY <1>1, <1>4, <1>11, <2>1, <2>2 DEF SampleCount, InitPc
  <2>4. /\ pc'[r] = IF pc[r] = "sample_post" THEN "free_smp" ELSE "exited"
        /\ WorldCalls(r)' = WorldCalls(r)
    BY <1>3, <1>5, <1>11, <2>1, <2>2 DEF TakeSampleFails, Fail, Goto
  <2>5. CASE pc[r] = "sample_pre"
    <3>1. WorldCalls(r)' = 0 /\ PostSamples(r)' = 0 /\ pc'[r] = "exited"
      BY <1>5, <2>3, <2>4, <2>5
    <3>2. CallsForSamples(1, PerRound) \in Nat
      BY <1>6
    <3> QED
      BY <1>2, <3>1, <3>2 DEF SampleCount, Ending, InitPc, EndCalls
  <2>6. CASE pc[r] = "sample_post"
    <3>1. /\ WorldCalls(r)' = CallsForSamples(iter[r] + 1, PerRound) /\ pc'[r] = "free_smp"
          /\ PostSamples(r)' \in {iter[r], iter[r] + 1}
          /\ iter[r] + 1 <= args.iters /\ iter[r] + 1 \in Nat /\ iter[r] + 2 \in Nat
      BY <1>1, <1>7, <2>3, <2>4, <2>6
    <3>2. /\ CallsForSamples(iter[r], PerRound) <= CallsForSamples(iter[r] + 1, PerRound)
          /\ CallsForSamples(iter[r] + 1, PerRound) <= CallsForSamples(iter[r] + 1 + 1, PerRound)
          /\ CallsForSamples(iter[r], PerRound) \in Nat
          /\ CallsForSamples(iter[r] + 1, PerRound) \in Nat
          /\ CallsForSamples(iter[r] + 1 + 1, PerRound) \in Nat
      <4>1. /\ iter[r] + 1 + 1 \in Nat
            /\ iter[r] <= iter[r] + 1 /\ iter[r] + 1 <= iter[r] + 1 + 1
        BY <1>1
      <4> QED
        BY <1>1, <1>6, <3>1, <4>1
    <3> QED
      BY <1>1, <1>2, <3>1, <3>2 DEF SampleCount, Ending, InitPc, EndCalls
  <2> QED
    BY <2>1, <2>5, <2>6
<1>12. CASE LocalMmas(r)
  <2>1. pc[r] = "local_mma" /\ pc'[r] = "node_mma"
    BY <1>3, <1>12 DEF LocalMmas, Proceed, Goto
  <2>2. PostSamples(r)' = PostSamples(r)
    BY <1>4, <2>1, <1>12 DEF LocalMmas, TakeSample, TakeSampleFails
  <2> QED
    BY <1>1, <1>2, <2>1, <2>2 DEF SampleCount, Ending, InitPc
<1>13. CASE UNCHANGED <<iter, log, samples, local>> /\ Moves(r)
  <2>1. /\ local' = local /\ iter' = iter
        /\ PostSamples(r)' = PostSamples(r)
        /\ WorldCalls(r)' = WorldCalls(r)
    BY <1>5, <1>13 DEF PostSamples
  <2>2. CASE pc[r] \in EarlyPc /\ pc'[r] \in EarlyPc
    BY <1>1, <2>1, <2>2 DEF SampleCount, EarlyPc, InitPc, Ending
  <2>3. CASE pc[r] \in EarlyPc /\ pc'[r] = "exited" /\ WorldCalls(r) = 0
    <3>1. PostSamples(r)' = 0 /\ WorldCalls(r)' = 0 /\ EndCalls(r)' = 1
      BY <1>1, <2>1, <2>3 DEF SampleCount, EarlyPc, EndCalls
    <3>2. CallsForSamples(1, PerRound) \in Nat
      BY <1>6
    <3> QED
      BY <1>2, <2>3, <3>1, <3>2 DEF SampleCount, Ending, InitPc
  <2>4. CASE pc[r] = "verify" /\ pc'[r] \in {"work", "sample_post", "free_smp"}
    <3>1. PostSamples(r)' = 0 /\ iter'[r] = 0
      BY <1>1, <2>1, <2>4 DEF SampleCount, InitPc, CourseOf, Rounds
    <3>2. WorldCalls(r)' <= InitCalls
      <4>1. step[r] <= 1
        BY <1>1, <2>4 DEF ControlOf, Counting, CallsIn, MpiPc
      <4> QED
        BY <1>1, <1>7, <2>1, <2>4, <4>1 DEF InitPc, CallsBefore, InitCalls
    <3>3. CallsForSamples(1, PerRound) >= InitCalls /\ CallsForSamples(1, PerRound) \in Nat
      BY <1>6
    <3>4. CASE pc'[r] \in {"work", "sample_post"}
      BY <1>1, <2>1, <2>4, <3>1, <3>4 DEF SampleCount, Ending, InitPc
    <3>5. CASE pc'[r] = "free_smp"
      BY <1>2, <1>8, <3>1, <3>2, <3>3, <3>5 DEF SampleCount, Ending, InitPc,
         EndCalls, InitCalls
    <3> QED
      BY <2>4, <3>4, <3>5
  <2>5. CASE pc[r] = "work" /\ pc'[r] \in {"work", "sample_post", "free_smp"}
    <3>1. PostSamples(r)' = iter[r]
      BY <1>1, <2>1, <2>5 DEF SampleCount
    <3>2. CASE pc'[r] \in {"work", "sample_post"}
      BY <1>1, <2>1, <2>5, <3>1, <3>2 DEF SampleCount, Ending, InitPc
    <3>3. CASE pc'[r] = "free_smp"
      <4>1. /\ CallsForSamples(iter[r] + 1, PerRound) = CallsForSamples(iter[r], PerRound) + 2
            /\ CallsForSamples(iter[r], PerRound) \in Nat
            /\ iter[r] < args.iters
        BY <1>1, <1>6, <2>5
      <4>2. /\ CallsForSamples(iter[r], PerRound) <= WorldCalls(r)'
            /\ WorldCalls(r)' <= CallsForSamples(iter[r] + 1, PerRound)
        BY <1>1, <1>7, <2>1, <2>5, <4>1
      <4> QED
        BY <1>1, <1>2, <3>1, <3>3, <4>1, <4>2 DEF SampleCount, Ending, InitPc, EndCalls
    <3> QED
      BY <2>5, <3>2, <3>3
  <2>6. CASE /\ pc[r] \in {"local_mma", "node_mma", "global_mma"}
             /\ pc'[r] \in {"node_mma", "global_mma", "free_smp"}
    <3>1. PostSamples(r)' = args.iters
      BY <1>1, <2>1, <2>6 DEF SampleCount
    <3>2. CASE pc'[r] \in {"node_mma", "global_mma"}
      BY <1>2, <3>1, <3>2 DEF SampleCount, Ending, InitPc
    <3>3. CASE pc'[r] = "free_smp"
      <4>1. /\ CallsForSamples(args.iters, PerRound) <= WorldCalls(r)'
            /\ CallsForSamples(args.iters, PerRound) \in Nat
        <5>1. CallsForSamples(args.iters, PerRound) \in Nat
          BY <1>1, <1>6
        <5> QED
          BY <1>1, <1>7, <2>1, <2>6, <5>1
      <4> QED
        BY <1>1, <1>2, <3>1, <3>3, <4>1 DEF SampleCount, Ending, InitPc, EndCalls
    <3> QED
      BY <2>6, <3>2, <3>3
  <2>7. CASE \/ /\ pc[r] \in {"free_smp", "free_worker"}
                /\ pc'[r] \in {"free_worker", "finalize"}
                /\ step'[r] = 0
             \/ pc[r] = "finalize" /\ step[r] = 1 /\ pc'[r] = "exited"
    <3>1. pc[r] \in Ending /\ pc'[r] \in Ending /\ EndCalls(r)' = EndCalls(r)
      BY <2>7 DEF Ending, EndCalls
    <3> QED
      BY <1>1, <1>2, <2>1, <3>1 DEF SampleCount, Ending, InitPc
  <2> QED
    BY <1>13, <2>2, <2>3, <2>4, <2>5, <2>6, <2>7 DEF Moves
<1> QED
  BY <1>9, <1>10, <1>11, <1>12, <1>13, StepMoves DEF SampleInv

LEMMA SameSampleCount ==
  ASSUME NEW s \in Rank, args' = args, Same(s), SameData(s), SampleCount(s)
  PROVE  SampleCount(s)'
<1>1. /\ WorldCalls(s)' = WorldCalls(s) /\ EndCalls(s)' = EndCalls(s)
      /\ PostSamples(s)' = PostSamples(s) /\ PerRound' = PerRound
  BY CourseUnchanged DEF PerRound
<1> HIDE DEF WorldCalls, EndCalls, PostSamples, PerRound
<1> QED
  BY <1>1 DEF SampleCount, Same, SameData

LEMMA InitSampleInv == Init => SampleInv
<1> SUFFICES ASSUME Init PROVE SampleInv
  OBVIOUS
<1>1. CourseInv
  BY InitCourseInv
<1>2. ASSUME NEW r \in Rank
      PROVE  SampleCount(r)
  <2>1. /\ pc[r] = "setup"
        /\ samples[r]["self_post"] = << >> /\ local[r]["self_post"] = << >>
    BY DEF Init, SampleType
  <2>2. PostSamples(r) = 0
    BY <2>1 DEF PostSamples
  <2> QED
    BY <2>1, <2>2 DEF SampleCount, Ending, InitPc
<1> QED
  BY <1>1, <1>2 DEF SampleInv

LEMMA StepSampleInv == SampleInv /\ [Next]_vars => SampleInv'
<1> SUFFICES ASSUME SampleInv, [Next]_vars PROVE SampleInv'
  OBVIOUS
<1>1. CourseInv' /\ TypeOK
  BY StepCourseInv DEF SampleInv, CourseInv, TypeInv
<1>2. CASE UNCHANGED vars
  <2>1. args' = args /\ \A s \in Rank : Same(s) /\ SameData(s)
    BY <1>2 DEF vars, Same, SameData
  <2> QED
    BY <1>1, <2>1, SameSampleCount DEF SampleInv
<1>3. CASE Next
  <2>1. PICK r \in Rank : Run(r) \/ Failure(r)
    BY <1>3 DEF Next
  <2>2. args' = args /\ \A s \in Rank \ {r} : Same(s) /\ SameData(s)
    BY <1>1, <2>1, OthersStay, OthersKeep
  <2>3. \A s \in Rank \ {r} : SampleCount(s)'
    BY <2>2, SameSampleCount DEF SampleInv
  <2>4. SampleCount(r)'
    BY <1>1, <2>1, StepSampleCount
  <2> QED
    BY <1>1, <2>3, <2>4 DEF SampleInv
<1> QED
  BY <1>2, <1>3

(* What a process has returned from when it has n samples.                 *)
LEMMA SamplesFollowCalls ==
  ASSUME SampleInv, NEW r \in Rank, PostSamples(r) > 0
  PROVE  /\ CallsForSamples(PostSamples(r), PerRound) <= Cleared(r)
         /\ PostSamples(r) <= args.iters
         /\ pc[r] \notin BeforeSplit
<1>1. /\ TypeOK /\ ControlOf(r) /\ CourseOf(r) /\ SampleCount(r)
      /\ step[r] \in Nat /\ iter[r] \in Nat /\ args.iters \in Nat
      /\ WorldCalls(r) \in Nat /\ PostSamples(r) \in Nat
      /\ pc[r] \notin {"setup", "exited"} => iter[r] < args.iters
      /\ PerRound \in {0, 2}
      /\ pc[r] = "work" => PerRound = 2
  BY SampleFacts
<1>2. /\ pc[r] \in Pc /\ Together(r)
      /\ blocked[r] # "none" => step[r] > 0 /\ pc[r] \in MpiPc
      /\ pc[r] \notin Ending => ec[r] = 0
  BY <1>1 DEF TypeOK, CourseOf, OffCourse, ControlOf, Counting
<1>3. /\ \A n \in Nat : CallsForSamples(n, PerRound) \in Nat
      /\ \A m, n \in Nat : m <= n =>
           CallsForSamples(m, PerRound) <= CallsForSamples(n, PerRound)
  BY <1>1, CallsForSamplesGrow
<1>4. /\ pc[r] = "work" =>
           WorldCalls(r) = CallsForSamples(iter[r], PerRound) + (IF step[r] < 2 THEN step[r] ELSE 2)
      /\ pc[r] = "sample_post" => WorldCalls(r) = CallsForSamples(iter[r] + 1, PerRound)
      /\ pc[r] \in {"local_mma", "node_mma"} => WorldCalls(r) = CallsForSamples(args.iters, PerRound)
      /\ pc[r] = "global_mma" => WorldCalls(r) = CallsForSamples(args.iters, PerRound) + step[r]
  BY <1>1, <1>2 DEF CourseOf, OnCourse, CallsForSamples, Unreduced, Ending, InitPc
<1>5. CallsForSamples(PostSamples(r), PerRound) \in Nat
  BY <1>1, <1>3
<1> HIDE DEF WorldCalls, PostSamples, CallsForSamples, PerRound
<1>6. pc[r] \notin {"setup", "sample_pre"} \cup InitPc
  BY <1>1 DEF SampleCount
<1>7. CASE pc[r] = "work"
  BY <1>1, <1>2, <1>4, <1>5, <1>7 DEF SampleCount, Cleared, BeforeSplit
<1>8. CASE pc[r] = "sample_post"
  <2>1. iter[r] + 1 \in Nat /\ PostSamples(r) = iter[r] /\ iter[r] <= iter[r] + 1
    BY <1>1, <1>8 DEF SampleCount
  <2>2. CallsForSamples(iter[r], PerRound) <= CallsForSamples(iter[r] + 1, PerRound)
    BY <1>1, <1>3, <2>1
  <2> QED
    BY <1>1, <1>2, <1>4, <1>8, <2>1, <2>2 DEF Cleared, BeforeSplit, MpiPc
<1>9. CASE pc[r] \in {"local_mma", "node_mma", "global_mma"}
  <2>1. PostSamples(r) = args.iters
    BY <1>1, <1>9 DEF SampleCount
  <2>2. pc[r] \in {"local_mma", "node_mma"} => blocked[r] # "world"
    BY <1>2 DEF Together, MpiPc
  <2> QED
    BY <1>1, <1>2, <1>4, <1>5, <1>9, <2>1, <2>2 DEF Cleared, BeforeSplit
<1>10. CASE pc[r] \in Ending
  <2>1. /\ PostSamples(r) <= args.iters
        /\ CallsForSamples(PostSamples(r), PerRound) + EndCalls(r) <= WorldCalls(r)
    BY <1>1, <1>10 DEF SampleCount
  <2>2. /\ pc[r] \in {"free_smp", "free_worker"} => blocked[r] # "world"
        /\ blocked[r] = "world" => step[r] > 0
    BY <1>2 DEF Together
  <2> QED
    BY <1>1, <1>5, <1>10, <2>1, <2>2 DEF EndCalls, Cleared, Ending, BeforeSplit
<1> QED
  BY <1>2, <1>6, <1>7, <1>8, <1>9, <1>10 DEF Pc, MpiPc, Ending, InitPc

(* And what it cannot have entered before its next sample.                 *)
LEMMA CallsFollowSamples ==
  ASSUME SampleInv, NEW r \in Rank, PostSamples(r) < args.iters
  PROVE  WorldCalls(r) <= CallsForSamples(PostSamples(r) + 1, PerRound) + 1
<1>1. /\ TypeOK /\ ControlOf(r) /\ CourseOf(r) /\ SampleCount(r)
      /\ step[r] \in Nat /\ iter[r] \in Nat /\ args.iters \in Nat
      /\ WorldCalls(r) \in Nat /\ PostSamples(r) \in Nat
      /\ PerRound \in {0, 2}
      /\ EndCalls(r) \in {0, 1}
      /\ pc[r] = "work" => PerRound = 2
  BY SampleFacts
<1>2. /\ pc[r] \in Pc
      /\ pc[r] \notin Ending => ec[r] = 0
      /\ pc[r] \in {"setup", "sample_pre"} => WorldCalls(r) = 0
  BY <1>1, WorldCallsIsNat DEF TypeOK, CourseOf, OffCourse, ControlOf, Early, Initialized
<1>3. /\ CallsForSamples(PostSamples(r) + 1, PerRound) =
           CallsForSamples(PostSamples(r), PerRound) + PerRound
      /\ CallsForSamples(PostSamples(r), PerRound) \in Nat
      /\ CallsForSamples(PostSamples(r), PerRound) >= InitCalls
  BY <1>1, CallsForSamplesGrow
<1>4. /\ pc[r] \in InitPc => WorldCalls(r) = CallsBefore(pc[r]) + step[r]
      /\ pc[r] = "work" =>
           WorldCalls(r) = CallsForSamples(iter[r], PerRound) + (IF step[r] < 2 THEN step[r] ELSE 2)
      /\ pc[r] = "sample_post" => WorldCalls(r) = CallsForSamples(iter[r] + 1, PerRound)
  BY <1>1, <1>2 DEF CourseOf, OnCourse, CallsForSamples, Ending, InitPc
<1> HIDE DEF WorldCalls, PostSamples, CallsForSamples, PerRound
<1>5. CASE pc[r] \in {"setup", "sample_pre"}
  BY <1>1, <1>2, <1>3, <1>5 DEF InitCalls
<1>6. CASE pc[r] \in InitPc
  <2>1. step[r] <= 1
    BY <1>1, <1>6 DEF ControlOf, Counting, CallsIn, InitPc, MpiPc
  <2>2. CallsBefore(pc[r]) \in 0..4
    BY DEF CallsBefore
  <2> QED
    BY <1>1, <1>3, <1>4, <1>6, <2>1, <2>2 DEF InitCalls
<1>7. CASE pc[r] = "work"
  BY <1>1, <1>3, <1>4, <1>7 DEF SampleCount
<1>8. CASE pc[r] = "sample_post"
  BY <1>1, <1>3, <1>4, <1>8 DEF SampleCount
<1>9. CASE pc[r] \in {"local_mma", "node_mma", "global_mma"}
  BY <1>1, <1>9 DEF SampleCount
<1>10. CASE pc[r] \in Ending
  <2>1. WorldCalls(r) <= CallsForSamples(PostSamples(r) + 1, PerRound) + EndCalls(r)
    BY <1>1, <1>10 DEF SampleCount
  <2> QED
    BY <1>1, <1>3, <2>1
<1> QED
  BY <1>2, <1>5, <1>6, <1>7, <1>8, <1>9, <1>10 DEF Pc, MpiPc, Ending, InitPc

LEMMA SamplesInLockstep == SampleInv => LockstepSampling
<1> SUFFICES ASSUME SampleInv, args.work, NEW r \in Rank, NEW s \in Rank,
                    ~(PostSamples(r) <= PostSamples(s) + 1)
             PROVE  FALSE
  BY DEF LockstepSampling
<1>1. /\ PostSamples(r) \in Nat /\ PostSamples(s) \in Nat /\ args.iters \in Nat
      /\ WorldCalls(r) \in Nat /\ WorldCalls(s) \in Nat
  BY SampleFacts
<1> DEFINE m == PostSamples(r)
           n == PostSamples(s)
<1>2. m > 0 /\ n + 1 < m
  BY <1>1
<1>3. /\ CallsForSamples(m, PerRound) <= Cleared(r)
      /\ m <= args.iters
      /\ pc[r] \notin BeforeSplit
  BY <1>2, SamplesFollowCalls
<1>4. Cleared(r) <= WorldCalls(s)
  BY <1>3 DEF SampleInv, CourseInv, NobodyAhead
<1>5. WorldCalls(s) <= CallsForSamples(n + 1, PerRound) + 1
  <2>1. n < args.iters
    BY <1>1, <1>2, <1>3
  <2> QED
    BY <2>1, CallsFollowSamples
<1>6. PerRound = 2
  BY WorkloadGrows
<1>7. Cleared(r) \in Int
  BY <1>1 DEF Cleared
<1> HIDE DEF m, n
<1>8. /\ CallsForSamples(m, PerRound) = 5 + 2 * m
      /\ CallsForSamples(n + 1, PerRound) = 5 + 2 * (n + 1)
  BY <1>6 DEF CallsForSamples, WorkloadCalls, InitCalls
<1>9. m \in Nat /\ n \in Nat
  BY <1>1 DEF m, n
<1> HIDE DEF WorldCalls, Cleared
<1>10. 5 + 2 * m <= 5 + 2 * (n + 1) + 1
  BY <1>1, <1>3, <1>4, <1>5, <1>7, <1>8, <1>9
<1> QED
  BY <1>2, <1>9, <1>10

(* With the workload on, no process is more than one sample ahead of       *)
(* another after MPI_Init: the barrier of small_allreduce_max              *)
(* (mmu_mpi.c) holds it back, whatever fails and wherever.                 *)
THEOREM SamplesStayTogether == Spec => []LockstepSampling
BY InitSampleInv, StepSampleInv, SamplesInLockstep, PTL DEF Spec

(***************************************************************************)
(* The end of main: the communicators are freed one after the other, then  *)
(* MPI is finalized, whatever led there.                                   *)
(***************************************************************************)

Closing == {"comm_free", "finalize"}

Open(calls) == \A i \in DOMAIN calls : calls[i].op \notin Closing
Closed(calls) == \A i \in DOMAIN calls : calls[i].op \in Closing => i = Len(calls)
Freed(calls) == \E i \in DOMAIN calls : calls[i].op = "comm_free"

Closes(r) ==
  /\ \A c \in Communicator : Closed(log[r][c])
  /\ Open(log[r]["world"]) \/ (Freed(log[r]["smp"]) /\ Freed(log[r]["worker"]))
  /\ pc[r] \notin Ending => \A c \in Communicator : Open(log[r][c])
  /\ pc[r] = "free_smp" =>
       /\ Open(log[r]["worker"]) /\ Open(log[r]["world"])
       /\ IF step[r] = 0 THEN Open(log[r]["smp"]) ELSE Freed(log[r]["smp"])
  /\ pc[r] = "free_worker" =>
       /\ Freed(log[r]["smp"]) /\ Open(log[r]["world"])
       /\ IF step[r] = 0 THEN Open(log[r]["worker"]) ELSE Freed(log[r]["worker"])
  /\ pc[r] = "finalize" =>
       /\ Freed(log[r]["smp"]) /\ Freed(log[r]["worker"])
       /\ step[r] = 0 => Open(log[r]["world"])

ClosingInv == TypeInv /\ \A r \in Rank : Closes(r)

LEMMA OneMoreCall ==
  ASSUME NEW calls \in Seq(Call), NEW call \in Call
  PROVE  /\ Open(calls) => Closed(calls)
         /\ Open(calls) => Closed(Append(calls, call))
         /\ Open(calls) /\ call.op \notin Closing => Open(Append(calls, call))
         /\ call.op = "comm_free" => Freed(Append(calls, call))
<1>1. /\ Len(Append(calls, call)) = Len(calls) + 1
      /\ Len(calls) \in Nat
      /\ DOMAIN Append(calls, call) = 1..(Len(calls) + 1)
      /\ DOMAIN calls = 1..Len(calls)
      /\ \A i \in 1..Len(calls) : Append(calls, call)[i] = calls[i]
      /\ Append(calls, call)[Len(calls) + 1] = call
  BY AppendProperties, LenProperties
<1>2. \A i \in DOMAIN Append(calls, call) : i \in DOMAIN calls \/ i = Len(calls) + 1
  BY <1>1
<1>3. Len(calls) + 1 \in DOMAIN Append(calls, call)
  BY <1>1
<1> QED
  BY <1>1, <1>2, <1>3, Zenon DEF Open, Closed, Freed

(* How a step other than a call gets to the end of main or along it.       *)
EndMoves(r) ==
  \/ pc[r] \notin Ending /\ pc'[r] \notin Ending
  \/ pc[r] \notin Ending /\ pc'[r] = "free_smp" /\ step'[r] = 0
  \/ pc[r] \notin Ending /\ pc'[r] = "exited"
  \/ pc[r] = "free_smp" /\ step[r] # 0 /\ pc'[r] = "free_worker" /\ step'[r] = 0
  \/ pc[r] = "free_worker" /\ step[r] # 0 /\ pc'[r] = "finalize" /\ step'[r] = 0
  \/ pc[r] = "finalize" /\ pc'[r] = "exited"

LEMMA StepToEnd ==
  ASSUME TypeInv, NEW r \in Rank, Run(r) \/ Failure(r)
  PROVE  EnterCall(r) \/ (log' = log /\ EndMoves(r))
<1>1. /\ ControlOf(r)
      /\ pc \in [Rank -> Pc] /\ step \in [Rank -> 0..LastReduction] /\ step[r] \in Nat
  BY DEF TypeInv, Control, TypeOK
<1>2. pc[r] \notin MpiPc => step[r] = 0
  BY OutsideMpi
<1>3. ASSUME NEW where, Returns(r, where)
      PROVE  log' = log /\ pc[r] = where /\ step[r] # 0
  BY <1>1, <1>3 DEF Returns, MayReturn, Leave, ControlOf, Counting
<1>4. ASSUME NEW where, Proceed(r, where)
      PROVE  pc'[r] = where /\ step'[r] = 0
  BY <1>1, <1>4 DEF Proceed, Goto, LastReduction
<1>5. ASSUME NEW where, Goto(r, where)
      PROVE  pc'[r] = where
  BY <1>1, <1>5 DEF Goto
<1>6. ASSUME Fail(r)
      PROVE  pc'[r] \in {"free_smp", "exited"}
  BY <1>1, <1>6 DEF Fail, Goto
<1>7. CASE Setup(r)
  BY <1>5, <1>7 DEF Setup, EndMoves, Ending
<1>8. CASE SetupFails(r)
  BY <1>2, <1>6, <1>8 DEF SetupFails, EndMoves, Ending, MpiPc
<1>9. CASE TakeSample(r)
  BY <1>5, <1>9 DEF TakeSample, StartIteration, EndMoves, Ending
<1>10. CASE TakeSampleFails(r)
  BY <1>2, <1>6, <1>10 DEF TakeSampleFails, EndMoves, Ending, MpiPc
<1>11. CASE FinishInit(r)
  BY <1>3, <1>4, <1>11 DEF FinishInit, EndMoves, Ending
<1>12. CASE FinishSplitSmp(r)
  BY <1>3, <1>4, <1>12 DEF FinishSplitSmp, EndMoves, Ending
<1>13. CASE FinishSplitWorker(r)
  BY <1>3, <1>4, <1>13 DEF FinishSplitWorker, EndMoves, Ending
<1>14. CASE FinishNumNodes(r)
  BY <1>3, <1>4, <1>14 DEF FinishNumNodes, EndMoves, Ending
<1>15. CASE FinishVerify(r)
  BY <1>3, <1>4, <1>15 DEF FinishVerify, PpnDiffers, PpnAgrees,
     StartIteration, EndMoves, Ending
<1>16. CASE FinishWork(r)
  <2>1. Returns(r, "work")
    BY <1>16 DEF FinishWork
  <2>2. \/ Fail(r) /\ step'[r] = 0
        \/ Proceed(r, "sample_post")
        \/ pc' = pc
    BY <1>1, <1>16 DEF FinishWork, LastReduction
  <2> QED
    BY <1>3, <1>4, <1>6, <2>1, <2>2 DEF EndMoves, Ending
<1>17. CASE WorkFails(r)
  BY <1>1, <1>6, <1>17 DEF WorkFails, EndMoves, Ending, LastReduction
<1>18. CASE LocalMmas(r)
  BY <1>4, <1>18 DEF LocalMmas, EndMoves, Ending
<1>19. CASE FinishNodeMma(r)
  BY <1>3, <1>4, <1>19 DEF FinishNodeMma, EndMoves, Ending
<1>20. CASE FinishGlobalMma(r)
  BY <1>3, <1>4, <1>20 DEF FinishGlobalMma, EndMoves, Ending
<1>21. CASE UsageFails(r)
  BY <1>2, <1>6, <1>21 DEF UsageFails, EndMoves, Ending, MpiPc
<1>22. CASE FinishFreeSmp(r)
  BY <1>3, <1>4, <1>22 DEF FinishFreeSmp, EndMoves
<1>23. CASE FinishFreeWorker(r)
  BY <1>3, <1>4, <1>23 DEF FinishFreeWorker, EndMoves
<1>24. CASE FinishFinalize(r)
  BY <1>3, <1>4, <1>24 DEF FinishFinalize, EndMoves
<1> QED
  BY <1>7, <1>8, <1>9, <1>10, <1>11, <1>12, <1>13, <1>14, <1>15, <1>16,
     <1>17, <1>18, <1>19, <1>20, <1>21, <1>22, <1>23, <1>24 DEF Run, Failure,
     Return

(* The calls that close a communicator are those of mmu_mpi_finalize.      *)
LEMMA ClosingCalls ==
  ASSUME TypeInv, NEW r \in Rank, pc[r] \in MpiPc, blocked[r] = "none"
  PROVE  /\ pc[r] \notin Ending => NextCall(r).op \notin Closing
         /\ pc[r] = "free_smp" => CallContext(r) = "smp" /\ NextCall(r).op = "comm_free"
         /\ pc[r] = "free_worker" => CallContext(r) = "worker" /\ NextCall(r).op = "comm_free"
         /\ pc[r] = "finalize" => CallContext(r) = "world"
<1>1. step[r] \in Nat
  BY DEF TypeInv, TypeOK
<1>2. CASE pc[r] = "work"
  <2>1. step[r] + 1 \in 1..LastWork /\ r \in Workers(r)
    <3>1. Counting(r) /\ HasWorkers(r)
      BY DEF TypeInv, Control, ControlOf
    <3>2. CallsIn(pc[r]) = LastWork
      BY <1>2 DEF CallsIn
    <3> QED
      BY <1>1, <1>2, <3>1, <3>2 DEF Counting, HasWorkers, LastWork
  <2>2. WorkCall(r, step[r] + 1).op \in {"max_double", "barrier", "sendrecv"}
    BY <2>1, WorkCallType DEF TypeInv
  <2> QED
    BY <1>2, <2>2 DEF NextCall, Closing
<1>3. CASE pc[r] \in {"node_mma", "global_mma"}
  <2>1. step[r] + 1 \in Nat
    BY <1>1
  <2>2. \/ (step[r] + 1) % 3 = 0
        \/ (step[r] + 1) % 3 = 1
        \/ (step[r] + 1) % 3 = 2
    BY <2>1
  <2>3. /\ NodeReduction(step[r] + 1) \notin Closing
        /\ GlobalReduction(step[r] + 1) \notin Closing
    BY <2>2 DEF NodeReduction, GlobalReduction, Closing
  <2> QED
    BY <1>3, <2>3 DEF NextCall, Collective
<1>4. CASE pc[r] \in InitPc
  BY <1>4 DEF NextCall, Collective, Closing, InitPc
<1>5. CASE pc[r] \in {"free_smp", "free_worker", "finalize"}
  BY <1>5 DEF NextCall, CallContext, Collective, Ending
<1> QED
  BY <1>2, <1>3, <1>4, <1>5 DEF MpiPc, InitPc

LEMMA EnterCloses ==
  ASSUME ClosingInv, NEW r \in Rank, EnterCall(r)
  PROVE  Closes(r)'
<1> DEFINE call == NextCall(r)
           here == CallContext(r)
<1>1. /\ pc[r] \in MpiPc /\ blocked[r] = "none" /\ pc' = pc
      /\ step'[r] = step[r] + 1 /\ step[r] \in Nat /\ TypeInv /\ Closes(r)
  <2>1. TypeInv /\ Closes(r)
    BY DEF ClosingInv
  <2>2. step[r] \in Nat
    BY <2>1 DEF TypeInv, TypeOK
  <2> QED
    BY <2>1, <2>2, WorldCallEntered
<1>2. call \in Call /\ here \in Context
  BY <1>1, NextCallType
<1>3. \A c \in Context : log[r][c] \in Seq(Call)
  BY DEF ClosingInv, TypeInv, TypeOK, MpiTypeOK
<1>4. \A c \in Context : log'[r][c] = IF c = here THEN Append(log[r][c], call) ELSE log[r][c]
  BY <1>2 DEF ClosingInv, TypeInv, TypeOK, MpiTypeOK, EnterCall, Enter
<1>5. pc[r] \in Ending => step[r] = 0
  BY <1>1 DEF TypeInv, Control, ControlOf, Counting, CallsIn, Ending, MpiPc
<1>6. /\ pc[r] \notin Ending => call.op \notin Closing
      /\ pc[r] = "free_smp" => here = "smp" /\ call.op = "comm_free"
      /\ pc[r] = "free_worker" => here = "worker" /\ call.op = "comm_free"
      /\ pc[r] = "finalize" => here = "world"
  BY <1>1, ClosingCalls
<1>7. {"world", "smp", "worker"} \subseteq Context /\ Communicator \subseteq Context
  BY DEF Context, Communicator
<1> HIDE DEF call, here
<1>8. \A c \in Context :
        /\ Open(log[r][c]) => Closed(log[r][c])
        /\ Open(log[r][c]) => Closed(Append(log[r][c], call))
        /\ Open(log[r][c]) /\ call.op \notin Closing => Open(Append(log[r][c], call))
        /\ call.op = "comm_free" => Freed(Append(log[r][c], call))
  BY <1>2, <1>3, OneMoreCall
<1>9. CASE pc[r] \notin Ending
  <2>1. \A c \in Communicator : Open(log'[r][c]) /\ Closed(log'[r][c])
    BY <1>1, <1>4, <1>6, <1>7, <1>8, <1>9 DEF Closes
  <2> QED
    BY <1>1, <1>9, <2>1 DEF Closes, Ending, Communicator
<1>10. CASE pc[r] = "free_smp"
  <2>1. /\ log'[r]["world"] = log[r]["world"] /\ log'[r]["worker"] = log[r]["worker"]
        /\ log'[r]["smp"] = Append(log[r]["smp"], call)
    BY <1>4, <1>6, <1>7, <1>10
  <2>2. /\ Open(log[r]["smp"]) /\ Open(log[r]["world"]) /\ Open(log[r]["worker"])
        /\ Closed(log[r]["world"]) /\ Closed(log[r]["worker"])
    BY <1>1, <1>5, <1>10 DEF Closes, Ending, Communicator
  <2>3. Closed(log'[r]["smp"]) /\ Freed(log'[r]["smp"])
    BY <1>6, <1>7, <1>8, <1>10, <2>1, <2>2
  <2>4. \A c \in Communicator : Closed(log'[r][c])
    BY <2>1, <2>2, <2>3 DEF Communicator
  <2>5. /\ Open(log'[r]["world"]) /\ Open(log'[r]["worker"])
        /\ pc'[r] = "free_smp" /\ step'[r] # 0
    BY <1>1, <1>10, <2>1, <2>2
  <2> QED
    BY <2>3, <2>4, <2>5 DEF Closes, Ending
<1>11. CASE pc[r] = "free_worker"
  <2>1. /\ log'[r]["world"] = log[r]["world"] /\ log'[r]["smp"] = log[r]["smp"]
        /\ log'[r]["worker"] = Append(log[r]["worker"], call)
    BY <1>4, <1>6, <1>7, <1>11
  <2>2. /\ Freed(log[r]["smp"]) /\ Open(log[r]["world"]) /\ Open(log[r]["worker"])
        /\ Closed(log[r]["world"]) /\ Closed(log[r]["smp"])
    BY <1>1, <1>5, <1>11 DEF Closes, Ending, Communicator
  <2>3. Closed(log'[r]["worker"]) /\ Freed(log'[r]["worker"])
    BY <1>6, <1>7, <1>8, <1>11, <2>1, <2>2
  <2>4. \A c \in Communicator : Closed(log'[r][c])
    BY <2>1, <2>2, <2>3 DEF Communicator
  <2>5. /\ Open(log'[r]["world"]) /\ Freed(log'[r]["smp"])
        /\ pc'[r] = "free_worker" /\ step'[r] # 0
    BY <1>1, <1>11, <2>1, <2>2
  <2> QED
    BY <2>3, <2>4, <2>5 DEF Closes, Ending
<1>12. CASE pc[r] = "finalize"
  <2>1. /\ log'[r]["smp"] = log[r]["smp"] /\ log'[r]["worker"] = log[r]["worker"]
        /\ log'[r]["world"] = Append(log[r]["world"], call)
    BY <1>4, <1>6, <1>7, <1>12
  <2>2. /\ Freed(log[r]["smp"]) /\ Freed(log[r]["worker"]) /\ Open(log[r]["world"])
        /\ Closed(log[r]["smp"]) /\ Closed(log[r]["worker"])
    BY <1>1, <1>5, <1>12 DEF Closes, Ending, Communicator
  <2>3. Closed(log'[r]["world"])
    BY <1>7, <1>8, <2>1, <2>2
  <2>4. \A c \in Communicator : Closed(log'[r][c])
    BY <2>1, <2>2, <2>3 DEF Communicator
  <2>5. /\ Freed(log'[r]["smp"]) /\ Freed(log'[r]["worker"])
        /\ pc'[r] = "finalize" /\ step'[r] # 0
    BY <1>1, <1>12, <2>1, <2>2
  <2> QED
    BY <2>4, <2>5 DEF Closes, Ending
<1> QED
  BY <1>1, <1>9, <1>10, <1>11, <1>12 DEF Ending, MpiPc

LEMMA StepCloses ==
  ASSUME ClosingInv, NEW r \in Rank, Run(r) \/ Failure(r)
  PROVE  Closes(r)'
<1>1. CASE EnterCall(r)
  BY <1>1, EnterCloses
<1>2. CASE log' = log /\ EndMoves(r)
  <2>1. Closes(r)
    BY DEF ClosingInv
  <2> QED
    BY <1>2, <2>1 DEF EndMoves, Closes, Ending, Communicator
<1> QED
  BY <1>1, <1>2, StepToEnd DEF ClosingInv

LEMMA InitClosingInv == Init => ClosingInv
<1> SUFFICES ASSUME Init PROVE ClosingInv
  OBVIOUS
<1>1. TypeInv
  BY InitTypeInv
<1>2. ASSUME NEW r \in Rank
      PROVE  Closes(r)
  <2>1. pc[r] = "setup" /\ \A c \in Communicator : log[r][c] = << >>
    BY DEF Init, MpiInit, Context
  <2>2. Open(<< >>) /\ Closed(<< >>)
    BY DEF Open, Closed
  <2> QED
    BY <2>1, <2>2 DEF Closes, Ending, Communicator
<1> QED
  BY <1>1, <1>2 DEF ClosingInv

LEMMA StepClosingInv == ClosingInv /\ [Next]_vars => ClosingInv'
<1> SUFFICES ASSUME ClosingInv, [Next]_vars PROVE ClosingInv'
  OBVIOUS
<1>1. TypeInv' /\ TypeOK
  BY StepTypeInv DEF ClosingInv, TypeInv
<1>2. CASE UNCHANGED vars
  BY <1>1, <1>2 DEF vars, ClosingInv, Closes
<1>3. CASE Next
  <2>1. PICK r \in Rank : Run(r) \/ Failure(r)
    BY <1>3 DEF Next
  <2>2. \A s \in Rank \ {r} : Same(s)
    BY <1>1, <2>1, OthersStay
  <2>3. \A s \in Rank \ {r} : Closes(s)'
    BY <2>2 DEF ClosingInv, Closes, Same
  <2>4. Closes(r)'
    BY <2>1, StepCloses
  <2> QED
    BY <1>1, <2>3, <2>4 DEF ClosingInv
<1> QED
  BY <1>2, <1>3

LEMMA ClosingIsLast == ClosingInv => NothingAfterFree
<1> SUFFICES ASSUME ClosingInv, NEW r \in Rank
             PROVE  /\ \A c \in Communicator : \A i \in DOMAIN log[r][c] :
                         log[r][c][i].op \in {"comm_free", "finalize"} => i = Len(log[r][c])
                    /\ \A i \in DOMAIN log[r]["world"] :
                         log[r]["world"][i].op = "finalize" =>
                           \A c \in {"smp", "worker"} :
                             \E j \in DOMAIN log[r][c] : log[r][c][j].op = "comm_free"
  BY DEF NothingAfterFree
<1>1. Closes(r)
  BY DEF ClosingInv
<1> QED
  BY <1>1 DEF Closes, Closed, Open, Freed, Closing

(* No process calls MPI after MPI_Finalize, nor on a communicator it has   *)
(* freed, and it frees both its communicators before MPI_Finalize, from    *)
(* whatever place a failure took it there (mmu_mpi_finalize).              *)
THEOREM ClosedForGood == Spec => []NothingAfterFree
BY InitClosingInv, StepClosingInv, ClosingIsLast, PTL DEF Spec

(***************************************************************************)
(* What is reported.  The lists a process reduces hold exactly the samples *)
(* of both stages, the node samples after MPI_Init being real on the first *)
(* process of its node and bogus on all others.                            *)
(***************************************************************************)

(* A process knows its rank on its node from the split on. *)
Unsplit == {"setup", "sample_pre", "init", "split_smp", "exited"}

Located(r) == pc[r] \notin Unsplit => smpRank[r] = RankIn(OnNode(r), r)

Kind(r) == IF RankIn(OnNode(r), r) = 0 THEN "real" ELSE "bogus"

(* All lists after so many samples before MPI_Init and so many after it.   *)
Lists(kind, pre, post) ==
  [t \in SampleType |->
     IF t \in {"self_pre", "node_pre"} THEN Only("real", pre)
     ELSE IF t = "self_post" THEN Only("real", post)
     ELSE Only(kind, post)]

PreSampled(r) == IF pc[r] \in {"setup", "sample_pre"} THEN iter[r] ELSE args.iters

PostSampled(r) ==
  IF pc[r] \in {"work", "sample_post"} THEN iter[r]
  ELSE IF pc[r] = "local_mma" THEN args.iters
  ELSE 0

Popped == {"node_mma", "global_mma"}

Collected(r) ==
  /\ pc[r] \notin Popped \cup Ending =>
       samples[r] = Lists(Kind(r), PreSampled(r), PostSampled(r))
  /\ pc[r] \in Popped \/ (pc[r] \in Ending /\ ec[r] = 0 /\ args.input = "run") =>
       local[r] = Lists(Kind(r), args.iters, args.iters) /\ args.iters > 0

ReportInv == GateInv /\ SampleInv /\ \A r \in Rank : Located(r) /\ Collected(r)

LEMMA OnlyGrows ==
  ASSUME NEW n \in Nat, NEW sample
  PROVE  Append(Only(sample, n), sample) = Only(sample, n + 1)
<1> DEFINE S == {sample}
<1>1. Only(sample, n) \in Seq(S) /\ Len(Only(sample, n)) = n
  BY DEF Only
<1>2. Only(sample, n + 1) \in Seq(S) /\ Len(Only(sample, n + 1)) = n + 1
  BY DEF Only
<1>3. /\ Append(Only(sample, n), sample) \in Seq(S)
      /\ Len(Append(Only(sample, n), sample)) = n + 1
      /\ \A i \in 1..n : Append(Only(sample, n), sample)[i] = Only(sample, n)[i]
      /\ Append(Only(sample, n), sample)[n + 1] = sample
  BY <1>1, AppendProperties
<1>4. \A i \in 1..(n + 1) : Append(Only(sample, n), sample)[i] = Only(sample, n + 1)[i]
  BY <1>3 DEF Only
<1> QED
  BY <1>2, <1>3, <1>4, SeqEqual

LEMMA NothingOnly == \A sample : Only(sample, 0) = << >>
BY DEF Only

(* The lists after one more sample of either stage. *)
LEMMA ListsGrow ==
  ASSUME NEW kind \in {"real", "bogus"}, NEW pre \in Nat, NEW post \in Nat, NEW flags,
         "NODE_BOGUS" \in flags <=> ("PRE" \notin flags /\ kind = "bogus")
  PROVE  WithNode(WithSelf(Lists(kind, pre, post), flags), flags) =
           IF "PRE" \in flags THEN Lists(kind, pre + 1, post) ELSE Lists(kind, pre, post + 1)
<1>1. /\ Append(Only("real", pre), "real") = Only("real", pre + 1)
      /\ Append(Only("real", post), "real") = Only("real", post + 1)
      /\ Append(Only(kind, post), kind) = Only(kind, post + 1)
  BY OnlyGrows
<1>2. CASE "PRE" \in flags
  BY <1>1, <1>2 DEF WithNode, WithSelf, NodeList, SelfList, NodeSample, Lists, SampleType
<1>3. CASE "PRE" \notin flags
  BY <1>1, <1>3 DEF WithNode, WithSelf, NodeList, SelfList, NodeSample, Lists, SampleType
<1> QED
  BY <1>2, <1>3

(* The rank on the node is learnt in the split and kept. *)
LEMMA StepLocates ==
  ASSUME GateInv, SampleInv, NEW r \in Rank, Located(r), Run(r) \/ Failure(r)
  PROVE  Located(r)'
<1>1. TypeOK /\ ControlOf(r) /\ node' = node
  BY StepEffects DEF GateInv, TypeInv, Control
<1>2. /\ FinishSplitSmp(r) => smpRank'[r] = RankIn(OnNode(r), r)
      /\ \A s \in Rank : RankIn(OnNode(s), s)' = RankIn(OnNode(s), s)
  <2>1. FinishSplitSmp(r) => smpRank'[r] = RankIn(SameColor(r), r)
    BY <1>1 DEF TypeOK, FinishSplitSmp
  <2> QED
    BY <1>1, <2>1, SplitByNode DEF OnNode, RankIn
<1>3. FinishSplitSmp(r) \/ (smpRank' = smpRank /\ (pc'[r] \notin Unsplit => pc[r] \notin Unsplit))
  <2> USE DEF TypeOK, MpiTypeOK, Fail, Goto, Proceed, Returns, Leave, jobVars, infoVars,
              dataVars, Unsplit, ControlOf, Early, Initialized
  <2>3. CASE Setup(r)
    BY <1>1, <2>3 DEF Setup
  <2>4. CASE SetupFails(r)
    BY <1>1, <2>4 DEF SetupFails
  <2>5. CASE TakeSample(r)
    BY <1>1, <2>5 DEF TakeSample, StartIteration
  <2>6. CASE TakeSampleFails(r)
    BY <1>1, <2>6 DEF TakeSampleFails
  <2>7. CASE EnterCall(r)
    BY <1>1, <2>7 DEF EnterCall
  <2>8. CASE FinishInit(r)
    BY <1>1, <2>8 DEF FinishInit
  <2>10. CASE FinishSplitWorker(r)
    BY <1>1, <2>10 DEF FinishSplitWorker
  <2>11. CASE FinishNumNodes(r)
    BY <1>1, <2>11 DEF FinishNumNodes
  <2>12. CASE FinishVerify(r)
    BY <1>1, <2>12 DEF FinishVerify
  <2>13. CASE FinishWork(r)
    BY <1>1, <2>13 DEF FinishWork
  <2>14. CASE WorkFails(r)
    BY <1>1, <2>14 DEF WorkFails
  <2>15. CASE LocalMmas(r)
    BY <1>1, <2>15 DEF LocalMmas
  <2>16. CASE FinishNodeMma(r)
    BY <1>1, <2>16 DEF FinishNodeMma
  <2>17. CASE FinishGlobalMma(r)
    BY <1>1, <2>17 DEF FinishGlobalMma
  <2>18. CASE UsageFails(r)
    BY <1>1, <2>18 DEF UsageFails
  <2>19. CASE FinishFreeSmp(r)
    BY <1>1, <2>19 DEF FinishFreeSmp
  <2>20. CASE FinishFreeWorker(r)
    BY <1>1, <2>20 DEF FinishFreeWorker
  <2>21. CASE FinishFinalize(r)
    BY <1>1, <2>21 DEF FinishFinalize
  <2> QED
    BY <2>3, <2>4, <2>5, <2>6, <2>7, <2>8, <2>10, <2>11, <2>12, <2>13, <2>14, <2>15,
       <2>16, <2>17, <2>18, <2>19, <2>20, <2>21 DEF Run, Failure, Return
<1> QED
  BY <1>2, <1>3 DEF Located

(* Where the steps that take no sample lead. *)
Onward(r) ==
  \/ pc'[r] \in Ending /\ (ec'[r] = 0 /\ args.input = "run" =>
                               ec[r] = 0 /\ pc[r] \in {"global_mma"} \cup Ending)
  \/ pc[r] = "setup" /\ pc'[r] = "sample_pre"
  \/ pc[r] \in InitPc /\ pc'[r] \in InitPc
  \/ pc[r] = "verify" /\ pc'[r] \in {"work", "sample_post"}
  \/ pc[r] = "work" /\ pc'[r] \in {"work", "sample_post"}
  \/ pc[r] \in Popped /\ pc'[r] \in Popped

LEMMA StepOnward ==
  ASSUME SampleInv, NEW r \in Rank, Run(r) \/ Failure(r)
  PROVE  \/ EnterCall(r)
         \/ TakeSample(r)
         \/ TakeSampleFails(r)
         \/ LocalMmas(r)
         \/ UNCHANGED <<iter, samples, local>> /\ Onward(r)
<1>1. TypeOK /\ ControlOf(r)
  BY DEF SampleInv, CourseInv, TypeInv, Control
<1>2. ASSUME NEW where, Returns(r, where)
      PROVE  pc[r] = where
  BY <1>2 DEF Returns
<1>3. ASSUME NEW where, Proceed(r, where)
      PROVE  pc'[r] = where
  BY <1>1, <1>3 DEF Proceed, Goto, TypeOK
<1>4. ASSUME Fail(r)
      PROVE  pc'[r] \in Ending /\ ec'[r] = 1
  BY <1>1, <1>4 DEF Fail, Goto, TypeOK, Ending
<1>5. CASE Setup(r)
  BY <1>1, <1>5 DEF Setup, Goto, TypeOK, dataVars, Onward, Ending
<1>6. CASE SetupFails(r)
  BY <1>4, <1>6 DEF SetupFails, dataVars, Onward
<1>7. CASE FinishInit(r)
  BY <1>2, <1>3, <1>7 DEF FinishInit, dataVars, Onward, InitPc
<1>8. CASE FinishSplitSmp(r)
  BY <1>2, <1>3, <1>8 DEF FinishSplitSmp, dataVars, Onward, InitPc
<1>9. CASE FinishSplitWorker(r)
  BY <1>2, <1>3, <1>9 DEF FinishSplitWorker, dataVars, Onward, InitPc
<1>10. CASE FinishNumNodes(r)
  BY <1>2, <1>3, <1>10 DEF FinishNumNodes, dataVars, Onward, InitPc
<1>11. CASE FinishVerify(r)
  <2>1. pc[r] = "verify" /\ UNCHANGED <<iter, samples, local>>
    BY <1>2, <1>11 DEF FinishVerify, dataVars
  <2>2. CASE PpnDiffers(r)
    <3>1. pc'[r] = "free_smp" /\ ec'[r] = 1
      BY <1>1, <1>3, <2>2 DEF PpnDiffers, TypeOK
    <3> QED
      BY <2>1, <3>1 DEF Onward, Ending
  <2>3. CASE PpnAgrees(r)
    BY <1>3, <2>1, <2>3 DEF PpnAgrees, StartIteration, Onward
  <2> QED
    BY <1>11, <2>2, <2>3 DEF FinishVerify
<1>12. CASE FinishWork(r)
  <2>1. pc[r] = "work" /\ UNCHANGED <<iter, samples, local>>
    BY <1>2, <1>12 DEF FinishWork, dataVars
  <2>2. Fail(r) \/ Proceed(r, "sample_post") \/ pc' = pc
    BY <1>12 DEF FinishWork
  <2> QED
    BY <1>3, <1>4, <2>1, <2>2 DEF Onward
<1>13. CASE WorkFails(r)
  BY <1>4, <1>13 DEF WorkFails, dataVars, Onward
<1>14. CASE FinishNodeMma(r)
  BY <1>2, <1>3, <1>14 DEF FinishNodeMma, dataVars, Onward, Popped
<1>15. CASE FinishGlobalMma(r)
  BY <1>2, <1>3, <1>15 DEF FinishGlobalMma, dataVars, Onward, Popped, Ending
<1>16. CASE UsageFails(r)
  BY <1>4, <1>16 DEF UsageFails, dataVars, Onward
<1>17. CASE FinishFreeSmp(r)
  BY <1>2, <1>3, <1>17 DEF FinishFreeSmp, dataVars, Onward, Ending
<1>18. CASE FinishFreeWorker(r)
  BY <1>2, <1>3, <1>18 DEF FinishFreeWorker, dataVars, Onward, Ending
<1>19. CASE FinishFinalize(r)
  BY <1>2, <1>3, <1>19 DEF FinishFinalize, dataVars, Onward, Ending
<1> QED
  BY <1>5, <1>6, <1>7, <1>8, <1>9, <1>10, <1>11, <1>12, <1>13, <1>14, <1>15, <1>16,
     <1>17, <1>18, <1>19 DEF Run, Failure, Return

(* Samples are taken before MPI_Init or after all of mmu_mpi_init. *)
LEMMA SampleStage ==
  ASSUME SampleInv, NEW r \in Rank, pc[r] \in {"sample_pre", "sample_post"}
  PROVE  Initialized(r) <=> pc[r] = "sample_post"
<1>1. /\ TypeOK /\ ControlOf(r) /\ CourseOf(r)
      /\ iter[r] \in Nat /\ PerRound \in {0, 2}
  BY SampleFacts
<1>2. pc[r] = "sample_pre" => ~Initialized(r)
  BY <1>1 DEF ControlOf, Early, Initialized
<1>3. CASE pc[r] = "sample_post"
  <2>1. WorldCalls(r) = CallsForSamples(iter[r] + 1, PerRound)
    BY <1>1, <1>3 DEF CourseOf, OffCourse, OnCourse, CallsForSamples, Ending
  <2>2. CallsForSamples(iter[r] + 1, PerRound) \in Nat
        /\ CallsForSamples(iter[r] + 1, PerRound) >= InitCalls
    <3>1. iter[r] + 1 \in Nat
      BY <1>1
    <3> QED
      BY <1>1, <3>1, CallsForSamplesGrow
  <2>3. WorldCalls(r) # 0
    BY <2>1, <2>2 DEF InitCalls
  <2> QED
    BY <1>1, <1>3, <2>3, WorldCallsIsNat DEF Initialized
<1> QED
  BY <1>2, <1>3

LEMMA StepCollects ==
  ASSUME GateInv, SampleInv, NEW r \in Rank, Located(r), Collected(r), Run(r) \/ Failure(r)
  PROVE  Collected(r)'
<1>1. /\ TypeOK /\ ControlOf(r) /\ CourseOf(r)
      /\ iter[r] \in Nat /\ args.iters \in Nat
      /\ pc[r] \notin {"setup", "exited"} => iter[r] < args.iters
  BY SampleFacts
<1>2. /\ args' = args /\ Kind(r)' = Kind(r) /\ pc[r] # "exited"
      /\ Kind(r) \in {"real", "bogus"}
  <2>1. args' = args /\ node' = node /\ pc[r] # "exited"
    BY OthersStay, StepEffects, StepKinds DEF SampleInv, CourseInv, TypeInv
  <2> QED
    BY <2>1 DEF Kind, OnNode, RankIn
<1>3. /\ pc \in [Rank -> Pc] /\ iter \in [Rank -> Nat] /\ ec \in [Rank -> {0, 1}]
      /\ samples \in [Rank -> SampleLists] /\ local \in [Rank -> SampleLists]
  BY <1>1 DEF TypeOK, SampleLists
<1>4. pc[r] \in {"setup"} \cup InitPc => iter[r] = 0
  BY <1>1 DEF CourseOf, Rounds
<1> HIDE DEF Kind
<1>5. CASE EnterCall(r)
  BY <1>2, <1>5 DEF EnterCall, dataVars, Collected, PreSampled, PostSampled
<1>6. CASE TakeSample(r)
  <2>1. /\ pc[r] \in {"sample_pre", "sample_post"} /\ local' = local
        /\ samples'[r] = WithNode(WithSelf(samples[r], Flags(r)), Flags(r))
        /\ samples[r] = Lists(Kind(r), PreSampled(r), PostSampled(r))
    BY <1>3, <1>6 DEF TakeSample, Collected, Popped, Ending
  <2>2. Initialized(r) <=> pc[r] = "sample_post"
    BY <1>1, <2>1, SampleStage DEF SampleInv
  <2>3. IF iter[r] + 1 = args.iters
          THEN pc'[r] = IF pc[r] = "sample_post" THEN "local_mma" ELSE "init"
          ELSE /\ iter'[r] = iter[r] + 1
               /\ pc[r] = "sample_pre" => pc'[r] = "sample_pre"
               /\ pc[r] = "sample_post" => pc'[r] \in {"work", "sample_post"}
    BY <1>3, <1>6, <2>1, <2>2 DEF TakeSample, Goto, StartIteration
  <2>4. /\ "PRE" \in Flags(r) <=> pc[r] = "sample_pre"
        /\ "NODE_BOGUS" \in Flags(r) <=> ("PRE" \notin Flags(r) /\ Kind(r) = "bogus")
    BY <2>1, <2>2 DEF Flags, Located, Unsplit, Kind
  <2>5. PreSampled(r) \in Nat /\ PostSampled(r) \in Nat
    BY <1>1 DEF PreSampled, PostSampled
  <2>6. samples'[r] = IF pc[r] = "sample_pre"
                        THEN Lists(Kind(r), PreSampled(r) + 1, PostSampled(r))
                        ELSE Lists(Kind(r), PreSampled(r), PostSampled(r) + 1)
    BY <1>2, <2>1, <2>4, <2>5, ListsGrow
  <2>7. /\ PreSampled(r)' = IF pc[r] = "sample_pre" THEN PreSampled(r) + 1 ELSE PreSampled(r)
        /\ PostSampled(r)' = IF pc[r] = "sample_pre" THEN PostSampled(r) ELSE PostSampled(r) + 1
        /\ pc'[r] \notin Popped \cup Ending
    BY <1>1, <1>2, <2>1, <2>3 DEF PreSampled, PostSampled, Popped, Ending
  <2> QED
    BY <1>2, <2>1, <2>6, <2>7 DEF Collected
<1>7. CASE TakeSampleFails(r)
  BY <1>3, <1>7 DEF TakeSampleFails, Fail, Goto, Collected, Popped, Ending
<1>8. CASE LocalMmas(r)
  <2>1. /\ pc[r] = "local_mma" /\ pc'[r] = "node_mma" /\ local'[r] = samples[r]
        /\ samples[r] = Lists(Kind(r), PreSampled(r), PostSampled(r))
    BY <1>3, <1>8 DEF LocalMmas, Proceed, Goto, Collected, Popped, Ending
  <2>2. args.iters > 0
    BY <1>1, <2>1
  <2> QED
    BY <1>2, <2>1, <2>2 DEF Collected, PreSampled, PostSampled, Popped, Ending
<1>9. CASE UNCHANGED <<iter, samples, local>> /\ Onward(r)
  <2>1. CASE pc'[r] \in Ending /\ (ec'[r] = 0 /\ args.input = "run" =>
                                       ec[r] = 0 /\ pc[r] \in {"global_mma"} \cup Ending)
    BY <1>2, <1>9, <2>1 DEF Collected, Popped, Ending
  <2>2. CASE pc'[r] \notin Ending
    BY <1>1, <1>2, <1>4, <1>9, <2>2
    DEF Onward, Collected, PreSampled, PostSampled, Popped, Ending, InitPc
  <2> QED
    BY <1>9, <2>1, <2>2 DEF Onward, Ending, InitPc, Popped
<1> QED
  BY <1>5, <1>6, <1>7, <1>8, <1>9, StepOnward

LEMMA OthersRanked ==
  ASSUME TypeOK, NEW r \in Rank, Run(r) \/ Failure(r), NEW s \in Rank \ {r}
  PROVE  smpRank'[s] = smpRank[s]
<1>1. smpRank' = smpRank \/ FinishSplitSmp(r)
  BY DEF Run, Failure, Return, Setup, SetupFails, TakeSample, TakeSampleFails, EnterCall,
         FinishInit, FinishSplitWorker, FinishNumNodes, FinishVerify, FinishWork, WorkFails,
         LocalMmas, FinishNodeMma, FinishGlobalMma, UsageFails, FinishFreeSmp,
         FinishFreeWorker, FinishFinalize, infoVars
<1> QED
  BY <1>1 DEF FinishSplitSmp, TypeOK

(* Whoever has entered all reductions of the job is in the last of them or *)
(* past it.                                                                *)
LEMMA FarAlong ==
  ASSUME CourseInv, NEW r \in Rank, ec[r] = 0, NEW calls \in Int, Reduced <= calls,
         calls <= WorldCalls(r)
  PROVE  pc[r] \in {"global_mma"} \cup Ending
<1>1. /\ TypeOK /\ ControlOf(r) /\ CourseOf(r) /\ pc[r] \in Pc
      /\ iter[r] \in Nat /\ step[r] \in Nat /\ args.iters \in Nat /\ WorldCalls(r) \in Nat
      /\ pc[r] \notin {"setup", "exited"} => iter[r] < args.iters
  <2>1. TypeOK /\ ControlOf(r) /\ CourseOf(r)
    BY DEF CourseInv, TypeInv, Control
  <2>2. /\ pc[r] \in Pc /\ iter[r] \in Nat /\ step[r] \in Nat
        /\ iter[r] = 0 \/ iter[r] < args.iters
    BY <2>1 DEF TypeOK
  <2>3. args.iters \in Nat /\ WorldCalls(r) \in Nat
    BY <2>1, ItersIsNat, WorldCallsIsNat
  <2>4. pc[r] \notin {"setup", "exited"} => args.iters > 0
    BY <2>1 DEF ControlOf, HasSamples
  <2> HIDE DEF WorldCalls
  <2> QED
    BY <2>1, <2>2, <2>3, <2>4
<1>2. /\ \A n \in Nat :
           /\ WorkloadCalls(n, PerRound) \in Nat
           /\ WorkloadCalls(n + 1, PerRound) = WorkloadCalls(n, PerRound) + PerRound
      /\ \A m, n \in Nat : m <= n => WorkloadCalls(m, PerRound) <= WorkloadCalls(n, PerRound)
  BY WorkloadGrows
<1>3. Unreduced \in Nat /\ Unreduced = 5 + WorkloadCalls(args.iters, PerRound)
      /\ Reduced = Unreduced + 12
  <2>1. WorkloadCalls(args.iters, PerRound) \in Nat
    BY <1>1, <1>2
  <2> QED
    BY ONLY <2>1 DEF Unreduced, Reduced, InitCalls, LastReduction
<1>4. /\ pc[r] \in {"setup", "sample_pre"} => WorldCalls(r) = 0
      /\ pc[r] \in InitPc => WorldCalls(r) = CallsBefore(pc[r]) + step[r] /\ step[r] <= 1
      /\ pc[r] = "work" =>
           /\ WorldCalls(r) = 5 + WorkloadCalls(iter[r], PerRound)
                                + (IF step[r] < 2 THEN step[r] ELSE 2)
           /\ PerRound = 2
      /\ pc[r] = "sample_post" => WorldCalls(r) = 5 + WorkloadCalls(iter[r] + 1, PerRound)
      /\ pc[r] \in {"local_mma", "node_mma"} => WorldCalls(r) = Unreduced
  <2>1. pc[r] \in {"setup", "sample_pre"} => WorldCalls(r) = 0
    BY <1>1, WorldCallsIsNat DEF ControlOf, Early
  <2>2. pc[r] \in InitPc => step[r] <= 1
    BY <1>1 DEF ControlOf, Counting, CallsIn, InitPc, MpiPc
  <2>3. pc[r] = "work" => PerRound = 2
    BY <1>1, WorkloadGrows DEF CourseOf, Rounds
  <2> QED
    BY <1>1, <2>1, <2>2, <2>3 DEF CourseOf, OnCourse, InitCalls
<1> HIDE DEF WorldCalls, Unreduced, Reduced, WorkloadCalls, PerRound
<1>5. CASE pc[r] \in {"setup", "sample_pre"}
  BY <1>1, <1>3, <1>4, <1>5
<1>6. CASE pc[r] \in InitPc
  BY <1>1, <1>2, <1>3, <1>4, <1>6 DEF CallsBefore
<1>7. CASE pc[r] \in {"work", "sample_post"}
  <2>1. iter[r] + 1 \in Nat /\ iter[r] + 1 <= args.iters
    BY <1>1, <1>7
  <2>2. /\ WorkloadCalls(iter[r] + 1, PerRound) <= WorkloadCalls(args.iters, PerRound)
        /\ WorkloadCalls(iter[r] + 1, PerRound) = WorkloadCalls(iter[r], PerRound) + PerRound
        /\ WorkloadCalls(iter[r] + 1, PerRound) \in Nat
        /\ WorkloadCalls(iter[r], PerRound) \in Nat
        /\ WorkloadCalls(args.iters, PerRound) \in Nat
    BY <1>1, <1>2, <2>1
  <2> QED
    BY <1>1, <1>3, <1>4, <1>7, <2>2
<1>8. CASE pc[r] \in {"local_mma", "node_mma"}
  BY <1>1, <1>3, <1>4, <1>8
<1> QED
  BY <1>1, <1>5, <1>6, <1>7, <1>8 DEF Pc, MpiPc, InitPc, Ending

LEMMA InitReportInv == Init => ReportInv
<1> SUFFICES ASSUME Init PROVE ReportInv
  OBVIOUS
<1>1. ASSUME NEW r \in Rank
      PROVE  Located(r) /\ Collected(r)
  <2>1. /\ pc[r] = "setup" /\ iter[r] = 0
        /\ samples[r] = [t \in SampleType |-> << >>]
    BY DEF Init
  <2>2. \A kind : Lists(kind, 0, 0) = [t \in SampleType |-> << >>]
    BY NothingOnly DEF Lists
  <2> QED
    BY <2>1, <2>2
    DEF Located, Unsplit, Collected, Popped, Ending, PreSampled, PostSampled
<1> QED
  BY <1>1, InitGateInv, InitSampleInv DEF ReportInv

LEMMA StepReportInv == ReportInv /\ [Next]_vars => ReportInv'
<1> SUFFICES ASSUME ReportInv, [Next]_vars PROVE ReportInv'
  OBVIOUS
<1>1. SampleInv' /\ TypeInv' /\ TypeOK
  BY StepSampleInv DEF ReportInv, SampleInv, CourseInv, TypeInv
<1>2. CASE UNCHANGED vars
  <2>1. GateInv'
    BY GateInvKept DEF ReportInv
  <2>2. \A r \in Rank : Located(r)' /\ Collected(r)'
    BY <1>2 DEF ReportInv, vars, Located, Collected, Kind, OnNode, RankIn, PreSampled, PostSampled
  <2> QED
    BY <1>1, <2>1, <2>2 DEF ReportInv
<1>3. CASE Next
  <2>1. PICK r \in Rank : Run(r) \/ Failure(r)
    BY <1>3 DEF Next
  <2>2. GateInv' /\ node' = node /\ args' = args
    BY <1>1, <2>1, GateInvKept, StepEffects, OthersStay DEF ReportInv, GateInv, TypeInv
  <2>3. ASSUME NEW s \in Rank \ {r}
        PROVE  Located(s)' /\ Collected(s)'
    <3>1. Same(s) /\ SameData(s) /\ smpRank'[s] = smpRank[s]
      BY <1>1, <2>1, <2>3, OthersStay, OthersKeep, OthersRanked
    <3>2. Kind(s)' = Kind(s) /\ RankIn(OnNode(s), s)' = RankIn(OnNode(s), s)
      BY <2>2 DEF Kind, OnNode, RankIn
    <3>3. PreSampled(s)' = PreSampled(s) /\ PostSampled(s)' = PostSampled(s)
      BY <2>2, <3>1 DEF Same, SameData, PreSampled, PostSampled
    <3>4. Located(s) /\ Collected(s)
      BY <2>3 DEF ReportInv
    <3> QED
      BY <2>2, <3>1, <3>2, <3>3, <3>4 DEF Located, Collected, Same, SameData
  <2>4. Located(r)' /\ Collected(r)'
    BY <2>1, StepLocates, StepCollects DEF ReportInv
  <2> QED
    BY <1>1, <2>2, <2>3, <2>4 DEF ReportInv
<1> QED
  BY <1>2, <1>3

(* Exactly one process of a node is its first. *)
LEMMA OneFirst ==
  ASSUME NEW r \in Rank
  PROVE  \E first \in OnNode(r) : \A s \in OnNode(r) : RankIn(OnNode(s), s) = 0 <=> s = first
<1>1. /\ OnNode(r) \in SUBSET Int /\ IsFiniteSet(OnNode(r)) /\ r \in OnNode(r)
      /\ \A s \in OnNode(r) : OnNode(s) = OnNode(r)
  BY OnNodeIsFinite DEF OnNode, Rank
<1>2. 0 \in 0..(Cardinality(OnNode(r)) - 1)
  <2>1. Cardinality(OnNode(r)) \in Nat /\ Cardinality(OnNode(r)) # 0
    BY <1>1, FS_CardinalityType, FS_EmptySet
  <2> QED
    BY <2>1
<1>3. PICK first \in OnNode(r) : RankIn(OnNode(r), first) = 0
  BY <1>1, <1>2, MemberHasRank
<1>4. \A s \in OnNode(r) : RankIn(OnNode(r), s) = 0 => s = first
  BY <1>1, <1>3, RankInInjective
<1> QED
  BY <1>1, <1>3, <1>4

LEMMA ReportIsCovering == ReportInv => ReportCoversJob
<1> SUFFICES ASSUME ReportInv, NEW reporter \in Rank, "report" \in said[reporter]
             PROVE  \A r \in Rank :
                      /\ \A t \in SampleType \ {"node_post"} : local[r][t] = Only("real", args.iters)
                      /\ local[r]["node_post"] \in {Only("real", args.iters), Only("bogus", args.iters)}
                      /\ Cardinality({s \in OnNode(r) : IsCollector(s)}) = 1
  BY DEF ReportCoversJob
<1>1. /\ pc[reporter] \in Ending /\ ec[reporter] = 0 /\ args.input = "run"
      /\ CourseInv
  BY DEF ReportInv, SampleInv, CourseInv, CourseOf, Rounds
<1>2. Reduced <= Cleared(reporter) /\ pc[reporter] \notin BeforeSplit
  BY <1>1, SuccessClearsReductions DEF Ending, BeforeSplit
<1>3. ASSUME NEW r \in Rank
      PROVE  /\ local[r] = Lists(Kind(r), args.iters, args.iters)
             /\ Kind(r) \in {"real", "bogus"} /\ args.iters > 0 /\ args.iters \in Nat
  <2>1. ec[r] = 0
    BY <1>1, CourseIsUnanimous DEF SuccessIsUnanimous
  <2>2. Cleared(reporter) <= WorldCalls(r)
    BY <1>1, <1>2 DEF CourseInv, NobodyAhead
  <2>3. Cleared(reporter) \in Int
    BY <1>1, WorldCallsIsNat DEF Cleared, CourseInv, TypeInv
  <2>4. pc[r] \in {"global_mma"} \cup Ending
    BY <1>1, <1>2, <2>1, <2>2, <2>3, FarAlong
  <2>5. Collected(r)
    BY DEF ReportInv
  <2>6. local[r] = Lists(Kind(r), args.iters, args.iters) /\ args.iters > 0
    BY <1>1, <2>1, <2>4, <2>5 DEF Collected, Popped, ReportInv
  <2> QED
    BY <1>1, <2>6, ItersIsNat DEF Kind, CourseInv, TypeInv
<1>4. Only("real", args.iters) # Only("bogus", args.iters)
  <2>1. args.iters \in Nat /\ args.iters > 0
    BY <1>3
  <2>2. Only("real", args.iters)[1] = "real" /\ Only("bogus", args.iters)[1] = "bogus"
    BY <2>1 DEF Only
  <2> QED
    BY <2>2
<1>5. \A s \in Rank : IsCollector(s) <=> RankIn(OnNode(s), s) = 0
  BY <1>3, <1>4 DEF IsCollector, Lists, Kind, SampleType
<1> TAKE r \in Rank
<1>6. /\ \A t \in SampleType \ {"node_post"} : local[r][t] = Only("real", args.iters)
      /\ local[r]["node_post"] \in {Only("real", args.iters), Only("bogus", args.iters)}
  <2>1. local[r] = Lists(Kind(r), args.iters, args.iters) /\ Kind(r) \in {"real", "bogus"}
    BY <1>3
  <2>2. local[r]["node_post"] = Only(Kind(r), args.iters)
    BY <2>1 DEF Lists, SampleType
  <2> QED
    BY <2>1, <2>2 DEF Lists, SampleType
<1>7. Cardinality({s \in OnNode(r) : IsCollector(s)}) = 1
  <2>1. PICK first \in OnNode(r) :
          \A s \in OnNode(r) : RankIn(OnNode(s), s) = 0 <=> s = first
    BY OneFirst
  <2>2. {s \in OnNode(r) : IsCollector(s)} = {first}
    BY <1>5, <2>1 DEF OnNode
  <2> QED
    BY <2>2, FS_Singleton
<1> QED
  BY <1>6, <1>7

(* When the report is printed, every process has put its samples of every  *)
(* type into its minima, maxima and averages, and those of the node after  *)
(* MPI_Init are real on exactly one process of each node, whatever failed  *)
(* elsewhere (get_node_mmas, mmu_process.c:548).                           *)
THEOREM ReportCovers == Spec => []ReportCoversJob
BY InitReportInv, StepReportInv, ReportIsCovering, PTL DEF Spec

(***************************************************************************)
(* A job without faults.  The n-th call of a communicator is the same for  *)
(* all processes, because the placement and the command line alone tell    *)
(* which it is.                                                            *)
(***************************************************************************)

HasRun == args.input = "run" /\ args.iters > 0

(* The n-th call of the whole job, and of a node.                          *)
InitOps == <<"init", "split_type", "split", "sum_int", "max_int2">>

WorldOp(n) ==
  IF n <= InitCalls THEN InitOps[n]
  ELSE IF ~EvenPlacement \/ n > Reduced THEN "finalize"
  ELSE IF n > Unreduced THEN GlobalReduction(n - Unreduced)
  ELSE IF n % 2 = 0 THEN "max_double"
  ELSE "barrier"

NodeOp(n) ==
  IF EvenPlacement /\ n <= LastReduction THEN NodeReduction(n) ELSE "comm_free"

OpAt(c, n) ==
  IF c = "world" THEN WorldOp(n) ELSE IF c = "smp" THEN NodeOp(n) ELSE "comm_free"

Scripted(r) ==
  \A c \in Communicator : \A i \in DOMAIN log[r][c] : log[r][c][i].op = OpAt(c, i)

(* How many calls of the node a process has made, up to comm_free.         *)
NodeCalls(r) == Len(log[r]["smp"])

InNode(r) ==
  /\ pc[r] \notin {"node_mma", "global_mma"} \cup Ending => NodeCalls(r) = 0
  /\ pc[r] = "node_mma" => NodeCalls(r) = step[r]
  /\ pc[r] = "global_mma" => NodeCalls(r) = LastReduction
  /\ pc[r] = "free_smp" =>
       NodeCalls(r) = (IF EvenPlacement THEN LastReduction ELSE 0) + step[r]

(* Where a process without faults ends, and with which exit code.          *)
Judged(r) ==
  pc[r] \in Ending =>
    /\ ec[r] = 0 <=> Succeeds
    /\ HasRun /\ ec[r] = 1 => WorldCalls(r) = InitCalls + EndCalls(r)

(* small_allreduce_max sends its own rank, and waits for all others.       *)
SendsRank(r) ==
  /\ \A i \in DOMAIN log[r]["world"] :
       log[r]["world"][i].op = "max_double" => log[r]["world"][i].val = r
  /\ pc[r] = "work" /\ step[r] = 1 /\ blocked[r] # "none" => InWorldCall(r, "max_double")

ScriptInv ==
  /\ GateInv
  /\ CourseInv
  /\ \A r \in Rank : Scripted(r) /\ InNode(r) /\ Judged(r) /\ SendsRank(r)


-----------------------------------------------------------------------------
(* The next call of a process is the one the script has in this place. *)
LEMMA NextIsScripted ==
  ASSUME GateInv, CourseInv, NEW r \in Rank, InNode(r), Judged(r),
         pc[r] \in MpiPc, blocked[r] = "none", CallContext(r) \in Communicator
  PROVE  NextCall(r).op = OpAt(CallContext(r), Len(log[r][CallContext(r)]) + 1)
<1>1. /\ TypeOK /\ ControlOf(r) /\ CourseOf(r)
      /\ step[r] \in Nat /\ iter[r] \in Nat /\ args.iters \in Nat
      /\ WorldCalls(r) \in Nat /\ Unreduced \in Nat /\ Unreduced >= InitCalls
      /\ iter[r] < args.iters
      /\ pc[r] \notin Ending => ec[r] = 0
  BY CourseFacts DEF MpiPc
<1>2. step[r] = 0 \/ step[r] < CallsIn(pc[r])
  BY <1>1 DEF ControlOf, Counting
<1>3. pc[r] \in Measuring => EvenPlacement
  BY DEF GateInv, PpnGate, EvenPlacement
<1>4. Unreduced = InitCalls + WorkloadCalls(args.iters, PerRound)
      /\ Reduced = Unreduced + LastReduction
  BY DEF Unreduced, Reduced
<1> HIDE DEF Unreduced, Reduced, EvenPlacement
<1>5. CASE pc[r] \in InitPc
  <2>1. step[r] = 0 /\ CallContext(r) = "world"
    BY <1>1, <1>2, <1>5 DEF CallsIn, InitPc, CallContext
  <2>2. WorldCalls(r) = CallsBefore(pc[r])
    BY <1>1, <1>5, <2>1 DEF CourseOf, OnCourse, InitPc, Ending, CallsBefore
  <2>3. NextCall(r).op = InitOps[CallsBefore(pc[r]) + 1]
        /\ CallsBefore(pc[r]) + 1 <= InitCalls
    BY <1>5 DEF InitPc, NextCall, Collective, InitOps, CallsBefore, InitCalls
  <2> QED
    BY <2>1, <2>2, <2>3 DEF OpAt, WorldOp, WorldCalls
<1>6. CASE pc[r] = "work"
  <2>1. CallContext(r) = "world" /\ (step[r] = 0 \/ step[r] = 1)
    BY <1>1, <1>6 DEF CallContext, WorkContext, Communicator
  <2>2. NextCall(r).op = IF step[r] = 0 THEN "max_double" ELSE "barrier"
    BY <1>6, <2>1 DEF NextCall, WorkCall, Collective
  <2>3. PerRound = 2
    BY <1>1, <1>6, WorkloadGrows DEF CourseOf, Rounds
  <2>4. WorldCalls(r) = 5 + 2 * iter[r] + step[r]
    BY <1>1, <1>6, <2>1, <2>3
    DEF CourseOf, OnCourse, Ending, WorkloadCalls, InitCalls
  <2>5. Unreduced = 5 + 2 * args.iters
    BY <1>4, <2>3 DEF WorkloadCalls, InitCalls
  <2>6. /\ WorldCalls(r) + 1 > 5 /\ WorldCalls(r) + 1 <= Unreduced
        /\ (WorldCalls(r) + 1) % 2 = IF step[r] = 0 THEN 0 ELSE 1
    <3> HIDE DEF WorldCalls
    <3> QED
      BY ONLY <1>1, <2>1, <2>4, <2>5
  <2>7. ~(WorldCalls(r) + 1 > Reduced)
    BY <1>1, <1>4, <2>6 DEF LastReduction
  <2>8. EvenPlacement
    BY <1>3, <1>6 DEF Measuring
  <2>9. WorldOp(WorldCalls(r) + 1) = IF step[r] = 0 THEN "max_double" ELSE "barrier"
    <3> HIDE DEF WorldCalls
    <3> QED
      BY <1>1, <2>1, <2>6, <2>7, <2>8 DEF WorldOp, InitCalls
  <2> QED
    BY <2>1, <2>2, <2>9 DEF OpAt, WorldCalls
<1>7. CASE pc[r] = "node_mma"
  <2>1. NodeCalls(r) = step[r] /\ step[r] + 1 <= LastReduction /\ EvenPlacement
    BY <1>1, <1>2, <1>3, <1>7 DEF InNode, CallsIn, LastReduction, Measuring
  <2>2. CallContext(r) = "smp" /\ NextCall(r).op = NodeReduction(step[r] + 1)
    BY <1>7 DEF CallContext, NextCall, Collective
  <2> QED
    BY <2>1, <2>2 DEF OpAt, NodeOp, NodeCalls
<1>8. CASE pc[r] = "global_mma"
  <2>1. WorldCalls(r) = Unreduced + step[r] /\ step[r] + 1 <= LastReduction /\ EvenPlacement
    BY <1>1, <1>2, <1>3, <1>8
    DEF CourseOf, OnCourse, Ending, CallsIn, LastReduction, Measuring
  <2>2. CallContext(r) = "world" /\ NextCall(r).op = GlobalReduction(step[r] + 1)
    BY <1>8 DEF CallContext, NextCall, Collective
  <2>3. /\ WorldCalls(r) + 1 > Unreduced /\ WorldCalls(r) + 1 > InitCalls
        /\ ~(WorldCalls(r) + 1 > Reduced)
        /\ WorldCalls(r) + 1 - Unreduced = step[r] + 1
    <3> HIDE DEF WorldCalls
    <3> QED
      BY <1>1, <1>4, <2>1 DEF LastReduction, InitCalls
  <2>4. WorldOp(WorldCalls(r) + 1) = GlobalReduction(step[r] + 1)
    <3> HIDE DEF WorldCalls
    <3> QED
      BY <1>1, <2>1, <2>3 DEF WorldOp, InitCalls
  <2> QED
    BY <2>2, <2>4 DEF OpAt, WorldCalls
<1>9. CASE pc[r] = "free_smp"
  <2>1. step[r] = 0
    BY <1>1, <1>2, <1>9 DEF CallsIn
  <2>2. NodeCalls(r) = IF EvenPlacement THEN LastReduction ELSE 0
    BY <1>9, <2>1 DEF InNode, LastReduction
  <2>3. CallContext(r) = "smp" /\ NextCall(r).op = "comm_free"
    BY <1>9 DEF CallContext, NextCall, Collective
  <2> QED
    BY <2>2, <2>3 DEF OpAt, NodeOp, NodeCalls, LastReduction
<1>10. CASE pc[r] = "free_worker"
  BY <1>10 DEF CallContext, NextCall, Collective, OpAt
<1>11. CASE pc[r] = "finalize"
  <2>1. step[r] = 0 /\ EndCalls(r) = 0
    BY <1>1, <1>2, <1>11 DEF CallsIn, EndCalls, LastWork, LastReduction, MpiPc
  <2>2. HasRun /\ pc[r] \in Ending /\ (ec[r] = 0 <=> EvenPlacement)
    BY <1>1, <1>11 DEF CourseOf, Rounds, ControlOf, HasSamples, HasRun, Ending, Judged, Succeeds
  <2>3. IF EvenPlacement THEN WorldCalls(r) = Reduced ELSE WorldCalls(r) = InitCalls
    <3>1. ec[r] \in {0, 1}
      BY <1>1 DEF TypeOK
    <3>2. Reduced \in Nat /\ InitCalls \in Nat
      BY <1>1, <1>4 DEF InitCalls, LastReduction
    <3> QED
      BY <1>1, <1>11, <2>1, <2>2, <3>1, <3>2 DEF Judged, CourseOf, OnCourse
  <2>4. CallContext(r) = "world" /\ NextCall(r).op = "finalize"
    BY <1>11 DEF CallContext, NextCall, Collective
  <2>5. WorldOp(WorldCalls(r) + 1) = "finalize"
    <3> HIDE DEF WorldCalls
    <3> QED
      BY <1>1, <1>4, <2>3 DEF WorldOp, InitCalls, LastReduction
  <2> QED
    BY <2>4, <2>5 DEF OpAt, WorldCalls
<1> QED
  BY <1>5, <1>6, <1>7, <1>8, <1>9, <1>10, <1>11 DEF MpiPc, InitPc

(* A process tells others its own rank in small_allreduce_max. *)
LEMMA RankIsSent ==
  ASSUME TypeInv, NEW r \in Rank, pc[r] \in MpiPc, blocked[r] = "none"
  PROVE  /\ NextCall(r).op = "max_double" => NextCall(r).val = r
         /\ pc[r] = "work" /\ step[r] = 0 =>
              CallContext(r) = "world" /\ NextCall(r).op = "max_double"
<1>1. step[r] \in Nat
  BY DEF TypeInv, TypeOK
<1>2. CASE pc[r] = "work"
  <2>1. step[r] = 0 \/ step[r] = 1 \/ step[r] + 1 > 2
    BY <1>1
  <2>2. step[r] = 0 => NextCall(r) = Collective("max_double", r) /\ CallContext(r) = "world"
    BY <1>2 DEF NextCall, WorkCall, CallContext, WorkContext
  <2>3. step[r] = 1 => NextCall(r) = Collective("barrier", 0)
    BY <1>2 DEF NextCall, WorkCall
  <2>4. step[r] + 1 > 2 => NextCall(r).op = "sendrecv"
    <3>1. SUFFICES ASSUME step[r] + 1 > 2
                   PROVE  NextCall(r).op = "sendrecv"
      OBVIOUS
    <3>2. CASE step[r] + 1 = 3 \/ step[r] + 1 = 4
      BY <1>1, <1>2, <3>2 DEF NextCall, WorkCall, Sendrecv
    <3>3. CASE step[r] + 1 > 4
      <4>1. (step[r] + 1) % 2 = 1 \/ (step[r] + 1) % 2 = 0
        BY <1>1
      <4> QED
        BY <1>1, <1>2, <3>3, <4>1 DEF NextCall, WorkCall, Sendrecv
    <3> QED
      BY <1>1, <3>1, <3>2, <3>3
  <2> QED
    BY <1>2, <2>1, <2>2, <2>3, <2>4 DEF Collective
<1>3. CASE pc[r] \in {"node_mma", "global_mma"}
  <2>1. \/ (step[r] + 1) % 3 = 0
        \/ (step[r] + 1) % 3 = 1
        \/ (step[r] + 1) % 3 = 2
    BY <1>1
  <2>2. /\ NodeReduction(step[r] + 1) # "max_double"
        /\ GlobalReduction(step[r] + 1) # "max_double"
    BY <2>1 DEF NodeReduction, GlobalReduction
  <2> QED
    BY <1>3, <2>2 DEF NextCall, Collective
<1>4. CASE pc[r] \notin {"work", "node_mma", "global_mma"}
  BY <1>4 DEF NextCall, Collective, MpiPc
<1> QED
  BY <1>2, <1>3, <1>4

LEMMA EnterScripted ==
  ASSUME ScriptInv, NEW r \in Rank, EnterCall(r), node' = node, args' = args
  PROVE  Scripted(r)' /\ InNode(r)' /\ Judged(r)' /\ SendsRank(r)'
<1> DEFINE call == NextCall(r)
           here == CallContext(r)
<1>1. /\ pc[r] \in MpiPc /\ blocked[r] = "none" /\ pc' = pc /\ ec' = ec
      /\ step'[r] = step[r] + 1 /\ step[r] \in Nat /\ TypeInv /\ ControlOf(r)
      /\ Scripted(r) /\ InNode(r) /\ Judged(r) /\ SendsRank(r)
  <2>1. TypeInv /\ Scripted(r) /\ InNode(r) /\ Judged(r) /\ SendsRank(r)
    BY DEF ScriptInv, GateInv
  <2>2. step[r] \in Nat /\ ControlOf(r) /\ ec' = ec
    BY <2>1 DEF TypeInv, TypeOK, Control, EnterCall
  <2> QED
    BY <2>1, <2>2, WorldCallEntered
<1>2. call \in Call /\ here \in Context
  BY <1>1, NextCallType
<1>3. \A c \in Context : log[r][c] \in Seq(Call)
  BY <1>1 DEF TypeInv, TypeOK, MpiTypeOK
<1>4. \A c \in Context : log'[r][c] = IF c = here THEN Append(log[r][c], call) ELSE log[r][c]
  BY <1>1, <1>2 DEF TypeInv, TypeOK, MpiTypeOK, EnterCall, Enter
<1>5. /\ here \in Communicator => call.op = OpAt(here, Len(log[r][here]) + 1)
      /\ call.op = "max_double" => call.val = r
      /\ pc[r] = "work" /\ step[r] = 0 => here = "world" /\ call.op = "max_double"
  BY <1>1, NextIsScripted, RankIsSent DEF ScriptInv
<1>6. /\ pc[r] = "node_mma" => here = "smp"
      /\ pc[r] = "free_smp" => here = "smp"
      /\ pc[r] \notin {"node_mma", "free_smp"} => here # "smp"
  BY <1>1 DEF CallContext, MpiPc, WorkContext
<1>7. {"world", "smp", "worker"} \subseteq Context /\ Communicator \subseteq Context
  BY DEF Context, Communicator
<1>8. \A c \in Communicator, n \in Nat : OpAt(c, n)' = OpAt(c, n)
  BY DEF OpAt, WorldOp, NodeOp, EvenPlacement, OnNode, Reduced, Unreduced, PerRound
<1>9. EvenPlacement' <=> EvenPlacement
  BY DEF EvenPlacement, OnNode
<1>10. /\ here = "world" => /\ WorldCalls(r)' = WorldCalls(r) + 1
                            /\ Current(r)' = call /\ log'[r]["world"] # << >>
       /\ here # "world" => WorldCalls(r)' = WorldCalls(r)
       /\ blocked'[r] = here
  <2>1. /\ here = "world" => /\ WorldCalls(r)' = WorldCalls(r) + 1
                             /\ Current(r)' = call /\ log'[r]["world"] # << >>
        /\ here # "world" => log'[r]["world"] = log[r]["world"]
        /\ blocked'[r] = here
    BY <1>1, WorldCallEntered
  <2>2. here # "world" => WorldCalls(r)' = WorldCalls(r)
    BY <2>1 DEF WorldCalls
  <2> HIDE DEF WorldCalls, call, here
  <2> QED
    BY <2>1, <2>2
<1> HIDE DEF call, here
<1>11. \A c \in Context :
         /\ Len(Append(log[r][c], call)) = Len(log[r][c]) + 1
         /\ Len(log[r][c]) \in Nat
         /\ DOMAIN Append(log[r][c], call) = 1..(Len(log[r][c]) + 1)
         /\ DOMAIN log[r][c] = 1..Len(log[r][c])
         /\ \A i \in 1..Len(log[r][c]) : Append(log[r][c], call)[i] = log[r][c][i]
         /\ Append(log[r][c], call)[Len(log[r][c]) + 1] = call
  BY <1>2, <1>3, AppendProperties, LenProperties
<1>12. Scripted(r)'
  <2>1. SUFFICES ASSUME NEW c \in Communicator, NEW i \in DOMAIN log'[r][c]
                 PROVE  log'[r][c][i].op = OpAt(c, i)'
    BY DEF Scripted
  <2>2. c \in Context
    BY <1>7
  <2>3. /\ i \in Nat
        /\ \/ i \in DOMAIN log[r][c] /\ log'[r][c][i] = log[r][c][i]
           \/ c = here /\ i = Len(log[r][c]) + 1 /\ log'[r][c][i] = call
    <3>1. CASE c = here
      <4>1. log'[r][c] = Append(log[r][c], call)
        BY <1>4, <2>2, <3>1
      <4>2. i \in 1..(Len(log[r][c]) + 1) /\ Len(log[r][c]) \in Nat
        BY <1>11, <2>1, <2>2, <4>1
      <4> QED
        BY <1>11, <2>2, <3>1, <4>1, <4>2
    <3>2. CASE c # here
      <4>1. log'[r][c] = log[r][c]
        BY <1>4, <2>2, <3>2
      <4>2. i \in 1..Len(log[r][c]) /\ Len(log[r][c]) \in Nat
        BY <1>11, <2>1, <2>2, <4>1
      <4> QED
        BY <2>1, <4>1, <4>2
    <3> QED
      BY <3>1, <3>2
  <2> QED
    BY <1>1, <1>5, <1>8, <2>1, <2>2, <2>3 DEF Scripted
<1>13. InNode(r)'
  <2>1. NodeCalls(r)' = IF here = "smp" THEN NodeCalls(r) + 1 ELSE NodeCalls(r)
    BY <1>4, <1>7, <1>11 DEF NodeCalls
  <2>2. NodeCalls(r) \in Nat
    BY <1>7, <1>11 DEF NodeCalls
  <2> HIDE DEF NodeCalls
  <2>3. /\ pc'[r] \notin {"node_mma", "global_mma"} \cup Ending => NodeCalls(r)' = 0
        /\ pc'[r] = "node_mma" => NodeCalls(r)' = step'[r]
        /\ pc'[r] = "global_mma" => NodeCalls(r)' = LastReduction
    BY <1>1, <1>6, <2>1, <2>2 DEF InNode, Ending
  <2>4. pc'[r] = "free_smp" =>
          NodeCalls(r)' = (IF EvenPlacement THEN LastReduction ELSE 0) + step'[r]
    <3> HIDE DEF EvenPlacement
    <3> QED
      BY <1>1, <1>6, <2>1, <2>2 DEF InNode, LastReduction
  <2> QED
    BY <1>9, <2>3, <2>4 DEF InNode, LastReduction
<1>14. Judged(r)'
  <2>1. (Succeeds' <=> Succeeds) /\ (HasRun' <=> HasRun)
    BY <1>9 DEF Succeeds, HasRun
  <2>2. pc[r] = "finalize" => here = "world"
    BY <1>1 DEF CallContext, here
  <2>3. pc[r] \in {"free_smp", "free_worker"} => here # "world"
    BY <1>1 DEF CallContext, here
  <2>4. WorldCalls(r) \in Nat /\ pc[r] # "exited"
    BY <1>1, WorldCallsIsNat DEF TypeInv, MpiPc
  <2>5. InitCalls' = InitCalls /\ InitCalls \in Nat
    BY DEF InitCalls
  <2> HIDE DEF WorldCalls, InitCalls
  <2>6. ASSUME pc[r] \in Ending, WorldCalls(r) = InitCalls + EndCalls(r)
        PROVE  WorldCalls(r)' = InitCalls + EndCalls(r)'
    <3>1. CASE pc[r] = "finalize"
      BY <1>1, <1>10, <2>2, <2>4, <2>5, <2>6, <3>1 DEF EndCalls
    <3>2. CASE pc[r] \in {"free_smp", "free_worker"}
      BY <1>1, <1>10, <2>3, <2>6, <3>2 DEF EndCalls
    <3> QED
      BY <2>4, <2>6, <3>1, <3>2 DEF Ending
  <2> QED
    BY <1>1, <2>1, <2>5, <2>6 DEF Judged
<1>15. SendsRank(r)'
  <2>1. ASSUME NEW i \in DOMAIN log'[r]["world"], log'[r]["world"][i].op = "max_double"
        PROVE  log'[r]["world"][i].val = r
    <3>1. \/ i \in DOMAIN log[r]["world"] /\ log'[r]["world"][i] = log[r]["world"][i]
          \/ log'[r]["world"][i] = call
      <4>1. CASE here = "world"
        <5>1. log'[r]["world"] = Append(log[r]["world"], call)
          BY <1>4, <1>7, <4>1
        <5>2. i \in 1..(Len(log[r]["world"]) + 1) /\ Len(log[r]["world"]) \in Nat
          BY <1>7, <1>11, <2>1, <5>1
        <5> QED
          BY <1>7, <1>11, <5>1, <5>2
      <4>2. CASE here # "world"
        BY <1>4, <1>7, <2>1, <4>2
      <4> QED
        BY <4>1, <4>2
    <3> QED
      BY <1>1, <1>5, <2>1, <3>1 DEF SendsRank
  <2>2. ASSUME pc'[r] = "work", step'[r] = 1
        PROVE  InWorldCall(r, "max_double")'
    <3>1. pc[r] = "work" /\ step[r] = 0
      BY <1>1, <2>2
    <3> QED
      BY <1>5, <1>10, <3>1 DEF InWorldCall
  <2> QED
    BY <2>1, <2>2 DEF SendsRank
<1> QED
  BY <1>12, <1>13, <1>14, <1>15

(* The check of small_allreduce_max never fails. *)
LEMMA MaximumIsLastRank ==
  ASSUME ScriptInv, NEW r \in Rank, FinishWork(r)
  PROVE  ~InvalidResult(r)
<1>1. SUFFICES ASSUME step[r] = 1
               PROVE  MaxOf(Contributions(r)) = N - 1
  BY DEF InvalidResult
<1>2. InWorldCall(r, "max_double") /\ MayReturn(r)
  BY <1>1 DEF ScriptInv, SendsRank, FinishWork, Returns, MayReturn
<1>3. \A s \in Rank : Contribution(r, s) = s
  BY <1>2, AllAnnounced DEF ScriptInv, SendsRank, Rendezvous
<1>4. comm[r][blocked[r]] = Rank
  BY <1>2 DEF ScriptInv, GateInv, WorldIsAll, InWorldCall
<1>5. Contributions(r) = Rank
  BY <1>3, <1>4 DEF Contributions
<1>6. Rank \in SUBSET Int /\ N - 1 \in Rank /\ \A s \in Rank : s <= N - 1
  BY NAssumption DEF Rank
<1>7. MaxOf(Rank) \in Rank /\ N - 1 <= MaxOf(Rank)
  BY <1>6, RanksAreFinite, MaxOfIsMaximum, Zenon
<1>8. MaxOf(Rank) <= N - 1 /\ MaxOf(Rank) \in Int
  BY <1>6, <1>7
<1> QED
  BY <1>5, <1>6, <1>7, <1>8, NAssumption

(* What a step without a fault does to the place and the exit code of the  *)
(* process, unless it is a call.                                           *)
LastStages == {"node_mma", "global_mma"} \cup Ending

Advances(r) ==
  \/ pc[r] = "setup" /\ pc'[r] = "exited" /\ ~HasRun /\ (ec'[r] = 0 <=> args.input = "help")
  \/ /\ ec'[r] = ec[r]
     /\ \/ pc[r] \notin LastStages /\ pc'[r] \notin LastStages
        \/ pc[r] = "local_mma" /\ pc'[r] = "node_mma" /\ step'[r] = 0
        \/ pc[r] = "node_mma" /\ pc'[r] = "node_mma" /\ step'[r] = step[r]
        \/ pc[r] = "node_mma" /\ step[r] = LastReduction /\ pc'[r] = "global_mma"
        \/ pc[r] = "global_mma" /\ pc'[r] = "global_mma"
        \/ /\ pc[r] = "global_mma" /\ step[r] = LastReduction
           /\ pc'[r] = "free_smp" /\ step'[r] = 0
        \/ pc[r] = "free_smp" /\ pc'[r] = "free_worker"
        \/ pc[r] = "free_worker" /\ pc'[r] = "finalize" /\ step'[r] = 0
        \/ pc[r] = "finalize" /\ step[r] = 1 /\ pc'[r] = "exited"
  \/ pc[r] = "verify" /\ pc'[r] = "free_smp" /\ step'[r] = 0 /\ ec'[r] = 1 /\ ~EvenPlacement

LEMMA StepAdvances ==
  ASSUME MayFail = {}, ScriptInv, NEW r \in Rank, Run(r) \/ Failure(r)
  PROVE  EnterCall(r) \/ Advances(r)
<1>1. /\ TypeOK /\ ControlOf(r)
      /\ pc \in [Rank -> Pc] /\ step \in [Rank -> 0..LastReduction] /\ step[r] \in Nat
      /\ ec \in [Rank -> {0, 1}]
  BY DEF ScriptInv, GateInv, TypeInv, Control, TypeOK
<1>2. ASSUME NEW where, Returns(r, where)
      PROVE  pc[r] = where /\ step[r] # 0 /\ step[r] <= CallsIn(where)
  BY <1>1, <1>2 DEF Returns, MayReturn, ControlOf, Counting
<1>3. ASSUME NEW where, Proceed(r, where)
      PROVE  pc'[r] = where /\ step'[r] = 0
  BY <1>1, <1>3 DEF Proceed, Goto, LastReduction
<1>4. ASSUME NEW where, Goto(r, where)
      PROVE  pc'[r] = where
  BY <1>1, <1>4 DEF Goto
<1>5. ~Failure(r)
  BY DEF Failure, SetupFails, TakeSampleFails, WorkFails, UsageFails
<1>6. CASE Setup(r)
  BY <1>1, <1>4, <1>6 DEF Setup, Advances, HasRun, LastStages, Ending
<1>7. CASE TakeSample(r)
  <2>1. pc[r] \in {"sample_pre", "sample_post"} /\ ec'[r] = ec[r]
    BY <1>7 DEF TakeSample
  <2>2. pc'[r] \in {"local_mma", "init", "sample_pre", "work", "sample_post"}
    BY <1>4, <1>7 DEF TakeSample, StartIteration
  <2> QED
    BY <2>1, <2>2 DEF Advances, LastStages, Ending
<1>8. CASE LocalMmas(r)
  BY <1>3, <1>8 DEF LocalMmas, Advances
<1>9. CASE FinishInit(r)
  BY <1>2, <1>3, <1>9 DEF FinishInit, Advances, LastStages, Ending
<1>10. CASE FinishSplitSmp(r)
  BY <1>2, <1>3, <1>10 DEF FinishSplitSmp, Advances, LastStages, Ending
<1>11. CASE FinishSplitWorker(r)
  BY <1>2, <1>3, <1>11 DEF FinishSplitWorker, Advances, LastStages, Ending
<1>12. CASE FinishNumNodes(r)
  BY <1>2, <1>3, <1>12 DEF FinishNumNodes, Advances, LastStages, Ending
<1>13. CASE FinishVerify(r)
  <2>1. SizesDiffer(r) <=> ~EvenPlacement
    BY <1>13, VerifyJudges DEF ScriptInv
  <2>2. pc[r] = "verify"
    BY <1>2, <1>13 DEF FinishVerify
  <2>3. CASE PpnDiffers(r) /\ SizesDiffer(r)
    <3>1. pc'[r] = "free_smp" /\ step'[r] = 0 /\ ec'[r] = 1
      BY <1>1, <1>3, <2>3 DEF PpnDiffers
    <3> QED
      BY <2>1, <2>2, <2>3, <3>1 DEF Advances
  <2>4. CASE PpnAgrees(r)
    <3>1. pc'[r] \in {"work", "sample_post"} /\ ec' = ec
      BY <1>3, <2>4 DEF PpnAgrees, StartIteration
    <3> QED
      BY <2>2, <3>1 DEF Advances, LastStages, Ending
  <2> QED
    BY <1>13, <2>3, <2>4 DEF FinishVerify
<1>14. CASE FinishWork(r)
  <2>1. ~InvalidResult(r) /\ pc[r] = "work"
    BY <1>2, <1>14, MaximumIsLastRank DEF FinishWork
  <2>2. ec' = ec /\ (Proceed(r, "sample_post") \/ pc' = pc)
    BY <1>14, <2>1 DEF FinishWork
  <2> QED
    BY <1>3, <2>1, <2>2 DEF Advances, LastStages, Ending
<1>15. CASE FinishNodeMma(r)
  BY <1>2, <1>3, <1>15 DEF FinishNodeMma, Advances
<1>16. CASE FinishGlobalMma(r)
  BY <1>2, <1>3, <1>16 DEF FinishGlobalMma, Advances
<1>17. CASE FinishFreeSmp(r)
  BY <1>2, <1>3, <1>17 DEF FinishFreeSmp, Advances
<1>18. CASE FinishFreeWorker(r)
  BY <1>2, <1>3, <1>18 DEF FinishFreeWorker, Advances
<1>19. CASE FinishFinalize(r)
  <2>1. step[r] = 1
    BY <1>1, <1>2, <1>19 DEF FinishFinalize, CallsIn, MpiPc
  <2> QED
    BY <1>2, <1>3, <1>19, <2>1 DEF FinishFinalize, Advances
<1> QED
  BY <1>5, <1>6, <1>7, <1>8, <1>9, <1>10, <1>11, <1>12, <1>13, <1>14, <1>15, <1>16,
     <1>17, <1>18, <1>19 DEF Run, Return

LEMMA VerifyReturns ==
  ASSUME TypeInv, NEW r \in Rank, Run(r), pc[r] = "verify"
  PROVE  EnterCall(r) \/ (FinishVerify(r) /\ step[r] # 0)
<1>1. ControlOf(r)
  BY DEF TypeInv, Control
<1>2. EnterCall(r) \/ FinishVerify(r)
  BY DEF Run, Return, Returns, Setup, TakeSample, LocalMmas, FinishInit, FinishSplitSmp,
         FinishSplitWorker, FinishNumNodes, FinishWork, FinishNodeMma, FinishGlobalMma,
         FinishFreeSmp, FinishFreeWorker, FinishFinalize
<1> QED
  BY <1>1, <1>2 DEF FinishVerify, Returns, MayReturn, ControlOf, Counting

LEMMA StepScripted ==
  ASSUME MayFail = {}, ScriptInv, NEW r \in Rank, Run(r) \/ Failure(r)
  PROVE  Scripted(r)' /\ InNode(r)' /\ Judged(r)' /\ SendsRank(r)'
<1>1. TypeInv /\ TypeOK /\ ControlOf(r)
  BY DEF ScriptInv, GateInv, TypeInv, Control
<1>2. node' = node /\ args' = args
  BY <1>1, StepEffects, OthersStay
<1>3. CASE EnterCall(r)
  BY <1>2, <1>3, EnterScripted
<1>4. CASE ~EnterCall(r)
  <2>1. log' = log /\ blocked'[r] = "none" /\ Advances(r)
    BY <1>1, <1>4, StepEffects, StepAdvances
  <2>2. /\ Scripted(r) /\ InNode(r) /\ Judged(r) /\ SendsRank(r)
        /\ pc[r] \in Pc /\ ec[r] \in {0, 1}
    BY <1>1 DEF ScriptInv, TypeOK
  <2>3. /\ \A c \in Communicator, n \in Nat : OpAt(c, n)' = OpAt(c, n)
        /\ EvenPlacement' <=> EvenPlacement
        /\ HasRun' <=> HasRun
        /\ Succeeds' <=> Succeeds
        /\ WorldCalls(r)' = WorldCalls(r) /\ NodeCalls(r)' = NodeCalls(r)
    BY <1>2, <2>1
    DEF OpAt, WorldOp, NodeOp, EvenPlacement, OnNode, Reduced, Unreduced, PerRound,
        HasRun, Succeeds, WorldCalls, NodeCalls
  <2>4. \A c \in Communicator : log[r][c] \in Seq(Call) /\ DOMAIN log[r][c] \subseteq Nat
    <3>1. \A c \in Communicator : log[r][c] \in Seq(Call)
      BY <1>1 DEF TypeOK, MpiTypeOK, Context
    <3> QED
      BY <3>1
  <2>5. Scripted(r)'
    BY <2>1, <2>2, <2>3, <2>4 DEF Scripted
  <2>6. SendsRank(r)'
    BY <2>1, <2>2 DEF SendsRank
  <2>7. /\ pc[r] \in Measuring \/ pc'[r] \in {"node_mma", "global_mma"} => EvenPlacement
        /\ pc[r] \notin Ending => ec[r] = 0
        /\ pc[r] \in MpiPc => HasRun
    <3>1. pc[r] \in Measuring => EvenPlacement
      BY DEF ScriptInv, GateInv, PpnGate, EvenPlacement
    <3>2. pc'[r] \in {"node_mma", "global_mma"} => pc[r] \in Measuring
      BY <2>1 DEF Advances, LastStages, Measuring, Ending
    <3>3. pc[r] \notin Ending => ec[r] = 0
      BY CourseFacts DEF ScriptInv, Ending
    <3>4. pc[r] \in MpiPc => HasRun
      BY <1>1 DEF ScriptInv, CourseInv, CourseOf, Rounds, ControlOf, HasSamples, HasRun, MpiPc
    <3> QED
      BY <3>1, <3>2, <3>3, <3>4
  <2>8. NodeCalls(r) \in Nat
    BY <1>1 DEF NodeCalls, TypeOK, MpiTypeOK, Context, Communicator
  <2>9. InNode(r)'
    <3> HIDE DEF NodeCalls, EvenPlacement
    <3>1. CASE pc'[r] \notin LastStages
      <4>1. pc[r] \notin LastStages
        BY <2>1, <3>1 DEF Advances, LastStages, Ending
      <4> QED
        BY <2>2, <2>3, <3>1, <4>1 DEF InNode, LastStages, Ending
    <3>2. CASE pc'[r] \in {"node_mma", "global_mma"}
      <4>1. \/ pc[r] = "local_mma" /\ pc'[r] = "node_mma" /\ step'[r] = 0
            \/ pc[r] = "node_mma" /\ pc'[r] = "node_mma" /\ step'[r] = step[r]
            \/ pc[r] = "node_mma" /\ step[r] = LastReduction /\ pc'[r] = "global_mma"
            \/ pc[r] = "global_mma" /\ pc'[r] = "global_mma"
        BY <2>1, <3>2 DEF Advances, LastStages, Ending
      <4> QED
        BY <2>2, <2>3, <4>1 DEF InNode, Ending
    <3>3. CASE pc'[r] = "free_smp"
      <4>1. /\ step'[r] = 0
            /\ \/ pc[r] = "global_mma"
               \/ pc[r] = "verify" /\ ~EvenPlacement
        BY <2>1, <3>3 DEF Advances, LastStages, Ending
      <4>2. NodeCalls(r) = IF EvenPlacement THEN LastReduction ELSE 0
        BY <2>2, <2>7, <4>1 DEF InNode, Measuring, Ending
      <4> QED
        BY <2>3, <3>3, <4>1, <4>2 DEF InNode, Ending, LastReduction
    <3>4. CASE pc'[r] \in Ending \ {"free_smp"}
      BY <3>4 DEF InNode, Ending
    <3> QED
      BY <3>1, <3>2, <3>3, <3>4 DEF LastStages
  <2>10. Judged(r)'
    <3>1. SUFFICES ASSUME pc'[r] \in Ending
                   PROVE  /\ ec'[r] = 0 <=> Succeeds
                          /\ HasRun /\ ec'[r] = 1 => WorldCalls(r) = InitCalls + EndCalls(r)'
      BY <2>3 DEF Judged, InitCalls
    <3>2. CASE pc[r] = "setup"
      BY <2>1, <3>1, <3>2 DEF Advances, LastStages, Ending, Succeeds, HasRun
    <3>3. CASE pc[r] = "verify"
      <4>1. pc'[r] = "free_smp" /\ ec'[r] = 1 /\ ~EvenPlacement
        BY <2>1, <3>1, <3>3 DEF Advances, LastStages, Ending
      <4>2. WorldCalls(r) = InitCalls
        <5>1. step[r] <= 1 /\ step[r] \in Nat
          BY <1>1, <3>3 DEF ControlOf, Counting, CallsIn, MpiPc, TypeOK
        <5>3. ec[r] = 0 /\ CourseOf(r)
          BY <2>7, <3>3 DEF ScriptInv, CourseInv, Ending
        <5>4. WorldCalls(r) = 4 + step[r]
          BY <3>3, <5>3 DEF CourseOf, OnCourse, InitPc, CallsBefore
        <5>2. step[r] # 0
          BY <1>1, <1>4, <3>3, <4>1, VerifyReturns DEF Failure, SetupFails, TakeSampleFails, WorkFails, UsageFails
        <5> HIDE DEF WorldCalls
        <5> QED
          BY <5>1, <5>2, <5>4 DEF InitCalls
      <4> QED
        BY <2>7, <3>3, <4>1, <4>2 DEF Succeeds, HasRun, MpiPc, EndCalls, InitCalls
    <3>4. CASE pc[r] = "global_mma"
      BY <2>1, <2>7, <3>1, <3>4
      DEF Advances, LastStages, Ending, Measuring, Succeeds, HasRun, MpiPc
    <3>5. CASE pc[r] \in {"free_smp", "free_worker", "finalize"}
      <4>1. ec'[r] = ec[r] /\ EndCalls(r)' = EndCalls(r)
        BY <2>1, <3>1, <3>5 DEF Advances, LastStages, Ending, EndCalls
      <4> QED
        BY <2>2, <3>5, <4>1 DEF Judged, Ending
    <3> QED
      BY <2>1, <3>1, <3>2, <3>3, <3>4, <3>5 DEF Advances, LastStages, Ending
  <2> QED
    BY <2>5, <2>6, <2>9, <2>10
<1> QED
  BY <1>3, <1>4

LEMMA InitScriptInv == Init => ScriptInv
<1> SUFFICES ASSUME Init PROVE ScriptInv
  OBVIOUS
<1>1. ASSUME NEW r \in Rank
      PROVE  Scripted(r) /\ InNode(r) /\ Judged(r) /\ SendsRank(r)
  <2>1. pc[r] = "setup" /\ blocked[r] = "none" /\ \A c \in Context : log[r][c] = << >>
    BY DEF Init, MpiInit
  <2> QED
    BY <2>1
    DEF Scripted, InNode, NodeCalls, Judged, SendsRank, Ending, Context, Communicator
<1> QED
  BY <1>1, InitGateInv, InitCourseInv DEF ScriptInv

LEMMA StepScriptInv ==
  ASSUME MayFail = {}
  PROVE  ScriptInv /\ [Next]_vars => ScriptInv'
<1> SUFFICES ASSUME ScriptInv, [Next]_vars PROVE ScriptInv'
  OBVIOUS
<1>1. GateInv' /\ CourseInv' /\ TypeInv /\ TypeOK
  BY GateInvKept, StepCourseInv DEF ScriptInv, GateInv, TypeInv
<1>2. ASSUME args' = args, node' = node, NEW s \in Rank, Same(s), ec'[s] = ec[s]
      PROVE  Scripted(s)' /\ InNode(s)' /\ Judged(s)' /\ SendsRank(s)'
  <2>1. Scripted(s) /\ InNode(s) /\ Judged(s) /\ SendsRank(s)
    BY <1>2 DEF ScriptInv
  <2>2. /\ \A c \in Communicator, n \in Nat : OpAt(c, n)' = OpAt(c, n)
        /\ EvenPlacement' <=> EvenPlacement
        /\ HasRun' <=> HasRun
        /\ Succeeds' <=> Succeeds
        /\ WorldCalls(s)' = WorldCalls(s) /\ NodeCalls(s)' = NodeCalls(s)
        /\ EndCalls(s)' = EndCalls(s) /\ InitCalls' = InitCalls
    BY <1>2
    DEF OpAt, WorldOp, NodeOp, EvenPlacement, OnNode, Reduced, Unreduced, PerRound,
        HasRun, Succeeds, WorldCalls, NodeCalls, EndCalls, InitCalls, Same
  <2>3. \A c \in Communicator : DOMAIN log[s][c] \subseteq Nat
    <3>1. \A c \in Communicator : log[s][c] \in Seq(Call)
      BY <1>1, <1>2 DEF TypeOK, MpiTypeOK, Context
    <3> QED
      BY <3>1
  <2>4. Scripted(s)'
    BY <1>2, <2>1, <2>2, <2>3 DEF Scripted, Same
  <2>5. InNode(s)' /\ Judged(s)'
    BY <1>2, <2>1, <2>2 DEF InNode, Judged, Same
  <2>6. SendsRank(s)'
    BY <1>2, <2>1 DEF SendsRank, InWorldCall, Current, Nth, Same
  <2> QED
    BY <2>4, <2>5, <2>6
<1>3. CASE UNCHANGED vars
  BY <1>1, <1>2, <1>3 DEF vars, Same, ScriptInv
<1>4. CASE Next
  <2>1. PICK r \in Rank : Run(r) \/ Failure(r)
    BY <1>4 DEF Next
  <2>2. args' = args /\ node' = node /\ \A s \in Rank \ {r} : Same(s) /\ ec'[s] = ec[s]
    BY <1>1, <2>1, StepEffects, OthersStay, OthersKeep DEF SameData
  <2> QED
    BY <1>1, <1>2, <2>1, <2>2, StepScripted DEF ScriptInv
<1> QED
  BY <1>3, <1>4

LEMMA ScriptMatches == ScriptInv => CollectivesMatch
<1> SUFFICES ASSUME ScriptInv, NEW r \in Rank, NEW c \in Communicator, NEW s \in comm[r][c],
                    NEW i \in DOMAIN log[r][c] \cap DOMAIN log[s][c]
             PROVE  log[r][c][i].op = log[s][c][i].op
  BY DEF CollectivesMatch
<1>1. s \in Rank
  BY DEF ScriptInv, GateInv, TypeInv, TypeOK, MpiTypeOK
<1> QED
  BY <1>1 DEF ScriptInv, Scripted

(* In a job without faults every process makes the same collectives in the *)
(* same order on each communicator (main, mmu_mpi_init,                    *)
(* mmu_process_process_usage).                                             *)
THEOREM CollectivesAgree == MayFail = {} => (Spec => []CollectivesMatch)
<1> SUFFICES ASSUME MayFail = {}
             PROVE  Spec => []CollectivesMatch
  OBVIOUS
<1>1. ScriptInv /\ [Next]_vars => ScriptInv'
  BY StepScriptInv
<1> QED
  BY <1>1, InitScriptInv, ScriptMatches, PTL DEF Spec

(* In a job without faults the exit code of each process is that of the    *)
(* job: a usage message or a measured job succeeds, a bad command line or  *)
(* uneven nodes fail on every process (main, mpimemu.c:165-176).           *)
THEOREM ExitCodeTells == MayFail = {} => (Spec => []ExitTellsOutcome)
<1> SUFFICES ASSUME MayFail = {}
             PROVE  Spec => []ExitTellsOutcome
  OBVIOUS
<1>1. ScriptInv /\ [Next]_vars => ScriptInv'
  BY StepScriptInv
<1>2. ScriptInv => ExitTellsOutcome
  BY DEF ScriptInv, Judged, ExitTellsOutcome, Exited, Ending
<1> QED
  BY <1>1, <1>2, InitScriptInv, PTL DEF Spec

(***************************************************************************)
(* Messages.  The n-th call of a process on the ring, or on its worker     *)
(* communicator, is the same whatever the others do: its neighbours follow *)
(* from n and the placement, its size from the iteration n lies in.        *)
(***************************************************************************)

SizeAt(n) == MsgSizes[(n % Len(MsgSizes)) + 1]

(* The n-th call lies in this iteration, at this place among its calls.    *)
Iteration(n, calls) == (n - 1) \div calls
Slot(n, calls) == (n - 1) % calls

RingCall(r, n) ==
  LET size == SizeAt(2 * Iteration(n, 2)) IN
  IF Slot(n, 2) = 0 THEN Sendrecv(RightNeighbor(r), LeftNeighbor(r), size)
  ELSE Sendrecv(LeftNeighbor(r), RightNeighbor(r), size)

(* The processes of the same rank on their nodes, and the neighbours i to  *)
(* the right and to the left among them.                                   *)
WorkerGroup(r) == {s \in Rank : RankIn(OnNode(s), s) = RankIn(OnNode(r), r)}

Leftwards(k, n, i) ==
  IF i = 1 THEN OneLeft(k, n)
  ELSE IF i = 2 THEN OneLeft(OneLeft(k, n), n)
  ELSE OneLeft(OneLeft(OneLeft(k, n), n), n)

RightOf(group, r, i) == Member(group, (RankIn(group, r) + i) % Cardinality(group))
LeftOf(group, r, i) == Member(group, Leftwards(RankIn(group, r), Cardinality(group), i))

(* Two calls of an iteration go to the neighbours i to either side. *)
Distance(place) == IF place < 2 THEN 1 ELSE IF place < 4 THEN 2 ELSE 3

ExchangeCall(r, n) ==
  LET size == SizeAt(2 * Iteration(n, 6) + 1)
      i == Distance(Slot(n, 6))
      group == WorkerGroup(r)
  IN IF Slot(n, 6) \in {0, 2, 4}
       THEN Sendrecv(LeftOf(group, r, i), RightOf(group, r, i), size)
       ELSE Sendrecv(RightOf(group, r, i), LeftOf(group, r, i), size)

Traffic(r) ==
  /\ \A n \in DOMAIN log[r]["ring"] : log[r]["ring"][n] = RingCall(r, n)
  /\ \A n \in DOMAIN log[r]["exchange"] : log[r]["exchange"][n] = ExchangeCall(r, n)

(* How many calls of either kind a process has made, and how many sizes it *)
(* has asked for.                                                          *)
InTraffic(r, ring, exchange, sizes) ==
  /\ Len(log[r]["ring"]) = ring
  /\ Len(log[r]["exchange"]) = exchange
  /\ sizeCalls[r] = sizes % Len(MsgSizes)

SizesAsked(r) ==
  2 * iter[r] + (IF step[r] < 4 \/ (step[r] = 4 /\ blocked[r] # "none") THEN 0 ELSE 1)

RingSoFar(n) == IF n < 2 THEN 0 ELSE IF n < 4 THEN n - 2 ELSE 2
ExchangeSoFar(n) == IF n < 4 THEN 0 ELSE n - 4

InStep(r) ==
  /\ pc[r] \in EarlyPc => InTraffic(r, 0, 0, 0)
  /\ pc[r] = "work" =>
       InTraffic(r, 2 * iter[r] + RingSoFar(step[r]), 6 * iter[r] + ExchangeSoFar(step[r]),
                 SizesAsked(r))
  /\ pc[r] = "sample_post" /\ args.work =>
       InTraffic(r, 2 * (iter[r] + 1), 6 * (iter[r] + 1), 2 * (iter[r] + 1))

(* The worker communicator is the group, because the split by the rank on  *)
(* the node sees the ranks of all.                                         *)
Colored(r) ==
  /\ \A i \in DOMAIN log[r]["world"] :
       log[r]["world"][i].op = "split" => log[r]["world"][i].val = RankIn(OnNode(r), r)
  /\ pc[r] = "split_worker" /\ blocked[r] # "none" => InWorldCall(r, "split")
  /\ pc[r] \in {"num_nodes", "verify", "work", "sample_post"} => Workers(r) = WorkerGroup(r)

TrafficInv == ReportInv /\ \A r \in Rank : Traffic(r) /\ InStep(r) /\ Colored(r)

-----------------------------------------------------------------------------
(* Around the end of n places *)

LEMMA SmallMod ==
  ASSUME NEW n \in Nat \ {0}, NEW k \in 0..(n - 1)
  PROVE  k % n = k
OBVIOUS

LEMMA OnlyZero ==
  ASSUME NEW n \in Nat \ {0}, NEW d \in Int, -n < d * n, d * n < n
  PROVE  d = 0
<1>1. CASE d >= 1
  BY <1>1
<1>2. CASE d <= -1
  BY <1>2
<1> QED
  BY <1>1, <1>2

LEMMA AddMod ==
  ASSUME NEW n \in Nat \ {0}, NEW k \in Int
  PROVE  (k + n) % n = k % n
<1> DEFINE q == k \div n
           m == k % n
           p == (k + n) \div n
           o == (k + n) % n
<1>1. /\ q \in Int /\ m \in 0..(n - 1) /\ k = q * n + m
      /\ p \in Int /\ o \in 0..(n - 1) /\ k + n = p * n + o
  OBVIOUS
<1> HIDE DEF q, m, p, o
<1>2. (p - q - 1) * n = m - o
  BY <1>1
<1>3. p - q - 1 = 0
  <2>1. p - q - 1 \in Int /\ -n < (p - q - 1) * n /\ (p - q - 1) * n < n
    BY <1>1, <1>2
  <2> QED
    BY <2>1, OnlyZero
<1> QED
  BY <1>1, <1>2, <1>3 DEF m, o

(* One step to the right, and i steps, around the end of n places.         *)
LEMMA OneRight ==
  ASSUME NEW n \in Nat \ {0}, NEW k \in 0..(n - 1)
  PROVE  (k + 1) % n = IF k + 1 = n THEN 0 ELSE k + 1
<1>1. CASE k + 1 = n
  <2>1. (0 + n) % n = 0 % n
    BY AddMod
  <2>2. 0 % n = 0
    BY SmallMod
  <2> QED
    BY <1>1, <2>1, <2>2
<1>2. CASE k + 1 # n
  BY <1>2, SmallMod
<1> QED
  BY <1>1, <1>2

LEMMA MoreRight ==
  ASSUME NEW n \in Nat \ {0}, NEW k \in 0..(n - 1), NEW i \in Nat
  PROVE  (k + 1 + i) % n = (((k + 1) % n) + i) % n
<1>1. CASE k + 1 = n
  <2>1. (i + n) % n = i % n
    <3>1. i \in Int
      OBVIOUS
    <3> QED
      BY <3>1, AddMod, Zenon
  <2>2. (k + 1) % n = 0
    BY <1>1, OneRight
  <2>3. k + 1 + i = i + n /\ ((k + 1) % n) + i = i
    BY <1>1, <2>2
  <2> QED
    BY <2>1, <2>3
<1>2. CASE k + 1 # n
  BY <1>2, OneRight
<1> QED
  BY <1>1, <1>2

ToRight(k, n) == IF k + 1 = n THEN 0 ELSE k + 1

(* i places to the left undo i places to the right. *)
LEMMA ThereAndBack ==
  ASSUME NEW n \in Nat \ {0}, NEW a \in 0..(n - 1), NEW b \in 0..(n - 1), NEW i \in 1..3
  PROVE  /\ Leftwards(a, n, i) \in 0..(n - 1) /\ (b + i) % n \in 0..(n - 1)
         /\ Leftwards(a, n, i) = b <=> (b + i) % n = a
<1>1. \A k \in 0..(n - 1) : ToRight(k, n) \in 0..(n - 1) /\ (k + 1) % n = ToRight(k, n)
  BY OneRight DEF ToRight
<1>2. \A k \in 0..(n - 1) : (k + 2) % n = ToRight(ToRight(k, n), n)
  <2>1. SUFFICES ASSUME NEW k \in 0..(n - 1) PROVE (k + 2) % n = ToRight(ToRight(k, n), n)
    OBVIOUS
  <2>2. (k + 1 + 1) % n = (ToRight(k, n) + 1) % n
    <3>1. 1 \in Nat /\ (k + 1) % n = ToRight(k, n)
      BY <1>1
    <3>2. (k + 1 + 1) % n = (((k + 1) % n) + 1) % n
      BY <3>1, MoreRight
    <3> QED
      BY <3>1, <3>2
  <2>3. k + 1 + 1 = k + 2
    OBVIOUS
  <2> QED
    BY <1>1, <2>2, <2>3
<1>3. \A k \in 0..(n - 1) : (k + 3) % n = ToRight(ToRight(ToRight(k, n), n), n)
  <2>1. SUFFICES ASSUME NEW k \in 0..(n - 1) PROVE (k + 3) % n = ToRight(ToRight(ToRight(k, n), n), n)
    OBVIOUS
  <2>2. (k + 1 + 2) % n = (ToRight(k, n) + 2) % n
    <3>1. 2 \in Nat /\ (k + 1) % n = ToRight(k, n)
      BY <1>1
    <3>2. (k + 1 + 2) % n = (((k + 1) % n) + 2) % n
      BY <3>1, MoreRight
    <3> QED
      BY <3>1, <3>2
  <2>3. k + 1 + 2 = k + 3
    OBVIOUS
  <2> QED
    BY <1>1, <1>2, <2>2, <2>3
<1>4. \A k \in 0..(n - 1) : OneLeft(k, n) \in 0..(n - 1)
  BY DEF OneLeft
<1>5. ASSUME NEW j \in 0..(n - 1), NEW k \in 0..(n - 1)
      PROVE  (OneLeft(j, n) = k) <=> (ToRight(k, n) = j)
  BY DEF OneLeft, ToRight
<1>6. CASE i = 1
  <2>1. Leftwards(a, n, i) = OneLeft(a, n) /\ (b + i) % n = ToRight(b, n)
    BY <1>1, <1>6 DEF Leftwards
  <2>2. (OneLeft(a, n) = b) <=> (ToRight(b, n) = a)
    BY <1>5
  <2> QED
    BY <1>1, <1>4, <2>1, <2>2, Zenon
<1>7. CASE i = 2
  <2>1. Leftwards(a, n, i) = OneLeft(OneLeft(a, n), n) /\ (b + i) % n = ToRight(ToRight(b, n), n)
    BY <1>2, <1>7 DEF Leftwards
  <2>2. /\ ToRight(b, n) \in 0..(n - 1) /\ ToRight(ToRight(b, n), n) \in 0..(n - 1)
        /\ OneLeft(a, n) \in 0..(n - 1) /\ OneLeft(OneLeft(a, n), n) \in 0..(n - 1)
    BY <1>1, <1>4, Zenon
  <2>3. (OneLeft(OneLeft(a, n), n) = b) <=> (ToRight(b, n) = OneLeft(a, n))
    BY <1>5, <2>2, Zenon
  <2>4. (OneLeft(a, n) = ToRight(b, n)) <=> (ToRight(ToRight(b, n), n) = a)
    BY <1>5, <2>2, Zenon
  <2> QED
    BY <2>1, <2>2, <2>3, <2>4, Zenon
<1>8. CASE i = 3
  <2>1. /\ Leftwards(a, n, i) = OneLeft(OneLeft(OneLeft(a, n), n), n)
        /\ (b + i) % n = ToRight(ToRight(ToRight(b, n), n), n)
    BY <1>3, <1>8 DEF Leftwards
  <2>2. /\ ToRight(b, n) \in 0..(n - 1) /\ ToRight(ToRight(b, n), n) \in 0..(n - 1)
        /\ ToRight(ToRight(ToRight(b, n), n), n) \in 0..(n - 1)
        /\ OneLeft(a, n) \in 0..(n - 1) /\ OneLeft(OneLeft(a, n), n) \in 0..(n - 1)
        /\ OneLeft(OneLeft(OneLeft(a, n), n), n) \in 0..(n - 1)
    BY <1>1, <1>4, Zenon
  <2>3. (OneLeft(OneLeft(OneLeft(a, n), n), n) = b) <=> (ToRight(b, n) = OneLeft(OneLeft(a, n), n))
    BY <1>5, <2>2, Zenon
  <2>4. (OneLeft(OneLeft(a, n), n) = ToRight(b, n)) <=> (ToRight(ToRight(b, n), n) = OneLeft(a, n))
    BY <1>5, <2>2, Zenon
  <2>5. (OneLeft(a, n) = ToRight(ToRight(b, n), n)) <=> (ToRight(ToRight(ToRight(b, n), n), n) = a)
    BY <1>5, <2>2, Zenon
  <2> QED
    BY <2>1, <2>2, <2>3, <2>4, <2>5, Zenon
<1> QED
  BY <1>6, <1>7, <1>8

(* My right neighbour's left neighbour is me: on the ring, *)
LEMMA RingMirrors ==
  ASSUME NEW r \in Rank, NEW s \in Rank
  PROVE  RightNeighbor(s) = r <=> LeftNeighbor(r) = s
<1>1. N \in Nat \ {0} /\ r \in 0..(N - 1) /\ s \in 0..(N - 1)
  BY NAssumption DEF Rank
<1>2. (s + 1) % N = IF s + 1 = N THEN 0 ELSE s + 1
  BY <1>1, OneRight
<1>3. (r + N - 1) % N = IF r = 0 THEN N - 1 ELSE r - 1
  <2>1. CASE r = 0
    <3>1. N - 1 \in 0..(N - 1) /\ r + N - 1 = N - 1
      BY <1>1, <2>1
    <3>2. (N - 1) % N = N - 1
      BY <1>1, <3>1, SmallMod
    <3> QED
      BY <2>1, <3>1, <3>2
  <2>2. CASE r # 0
    <3>1. r - 1 \in 0..(N - 1) /\ r + N - 1 = (r - 1) + N
      BY <1>1, <2>2
    <3>2. ((r - 1) + N) % N = (r - 1) % N
      <4>1. r - 1 \in Int
        BY <1>1
      <4> QED
        BY <1>1, <4>1, AddMod, Zenon
    <3>3. (r - 1) % N = r - 1
      BY <1>1, <3>1, SmallMod
    <3> QED
      BY <2>2, <3>1, <3>2, <3>3
  <2> QED
    BY <2>1, <2>2
<1> QED
  BY <1>1, <1>2, <1>3 DEF RightNeighbor, LeftNeighbor

(* and on a worker communicator. *)
LEMMA GroupMirrors ==
  ASSUME NEW group \in SUBSET Rank, NEW r \in group, NEW s \in group, NEW i \in 1..3
  PROVE  /\ LeftOf(group, s, i) = r <=> RightOf(group, r, i) = s
         /\ LeftOf(group, s, i) \in group /\ RightOf(group, s, i) \in group
<1> DEFINE n == Cardinality(group)
<1>1. group \in SUBSET Int /\ IsFiniteSet(group) /\ n \in Nat
  <2>1. group \in SUBSET Int
    BY DEF Rank
  <2> QED
    BY <2>1, SubsetOfRanks
<1>2. \A p \in group : RankIn(group, p) \in 0..(n - 1)
  BY <1>1, RankInBounds
<1>3. n \in Nat \ {0}
  BY <1>1, <1>2
<1>4. ASSUME NEW p \in group, NEW k \in 0..(n - 1)
      PROVE  Member(group, k) \in group /\ (Member(group, k) = p <=> RankIn(group, p) = k)
  <2>1. Member(group, k) \in group /\ RankIn(group, Member(group, k)) = k
    BY <1>1, MemberHasRank
  <2>2. RankIn(group, p) = k => Member(group, k) = p
    <3> HIDE DEF n
    <3>1. SUFFICES ASSUME RankIn(group, p) = k
                   PROVE  Member(group, k) = p
      OBVIOUS
    <3>2. RankIn(group, p) = RankIn(group, Member(group, k))
      BY <2>1, <3>1
    <3> QED
      BY <1>1, <2>1, <3>2, RankInInjective, Zenon
  <2> QED
    BY <2>1, <2>2
<1> HIDE DEF n
<1>5. /\ Leftwards(RankIn(group, s), n, i) \in 0..(n - 1)
      /\ (RankIn(group, r) + i) % n \in 0..(n - 1)
      /\ (RankIn(group, s) + i) % n \in 0..(n - 1)
      /\ Leftwards(RankIn(group, s), n, i) = RankIn(group, r)
           <=> (RankIn(group, r) + i) % n = RankIn(group, s)
  <2> DEFINE a == RankIn(group, s)
             b == RankIn(group, r)
  <2>1. a \in 0..(n - 1) /\ b \in 0..(n - 1)
    BY <1>2
  <2> HIDE DEF a, b
  <2>2. /\ Leftwards(a, n, i) \in 0..(n - 1) /\ (b + i) % n \in 0..(n - 1)
        /\ (a + i) % n \in 0..(n - 1)
        /\ Leftwards(a, n, i) = b <=> (b + i) % n = a
    BY <1>3, <2>1, ThereAndBack
  <2> QED
    BY <2>2 DEF a, b
<1> QED
  BY <1>4, <1>5 DEF LeftOf, RightOf, n

(* The call at place j of the iteration k. *)
LEMMA RingPlace ==
  ASSUME NEW k \in Nat, NEW j \in 0..1, NEW n, n = 2 * k + j + 1
  PROVE  Iteration(n, 2) = k /\ Slot(n, 2) = j
BY DEF Iteration, Slot

LEMMA ExchangePlace ==
  ASSUME NEW k \in Nat, NEW j \in 0..5, NEW n, n = 6 * k + j + 1
  PROVE  Iteration(n, 6) = k /\ Slot(n, 6) = j
BY DEF Iteration, Slot

(* The neighbours on the worker communicator. *)
LEMMA WorkerSides ==
  ASSUME NEW r \in Rank, NEW i \in 1..3
  PROVE  /\ LeftWorker(r, i) = LeftOf(Workers(r), r, i)
         /\ RightWorker(r, i) = RightOf(Workers(r), r, i)
<1>1. i = 1 \/ i = 2 \/ i = 3
  OBVIOUS
<1>2. LeftWorker(r, i) = LeftOf(Workers(r), r, i)
  BY <1>1 DEF LeftWorker, LeftOf, Leftwards, WorkerRank, NumWorkers
<1> QED
  BY <1>2 DEF RightWorker, RightOf, WorkerRank, NumWorkers

(* The next call of the workload to its neighbours is the one due.         *)
LEMMA NextIsDue ==
  ASSUME TypeInv, NEW r \in Rank, InStep(r), Colored(r), pc[r] \in MpiPc, blocked[r] = "none"
  PROVE  /\ CallContext(r) = "ring" => NextCall(r) = RingCall(r, Len(log[r]["ring"]) + 1)
         /\ CallContext(r) = "exchange" =>
              NextCall(r) = ExchangeCall(r, Len(log[r]["exchange"]) + 1)
<1>1. CASE pc[r] # "work"
  BY <1>1 DEF CallContext, MpiPc
<1>2. CASE pc[r] = "work"
  <2>1. /\ step[r] \in 0..9 /\ iter[r] \in Nat /\ sizeCalls[r] \in 0..4
        /\ CallContext(r) = WorkContext(step[r] + 1)
        /\ NextCall(r) = WorkCall(r, step[r] + 1)
        /\ Workers(r) = WorkerGroup(r)
    <3>1. step[r] \in Nat /\ (step[r] = 0 \/ step[r] < CallsIn(pc[r]))
      BY DEF TypeInv, TypeOK, Control, ControlOf, Counting
    <3>2. CallsIn(pc[r]) = 10
      BY <1>2 DEF CallsIn, LastWork
    <3>3. step[r] \in 0..9
      BY <3>1, <3>2
    <3> QED
      BY <1>2, <3>3 DEF TypeInv, TypeOK, MsgSizes, CallContext, NextCall, Colored
  <2>2. /\ step[r] \in 2..3 => /\ Len(log[r]["ring"]) = 2 * iter[r] + (step[r] - 2)
                               /\ sizeCalls[r] = (2 * iter[r]) % 5
        /\ step[r] \in 4..9 => /\ Len(log[r]["exchange"]) = 6 * iter[r] + (step[r] - 4)
                               /\ sizeCalls[r] = (2 * iter[r] + 1) % 5
    <3>1. Len(MsgSizes) = 5
      BY DEF MsgSizes
    <3>2. InTraffic(r, 2 * iter[r] + RingSoFar(step[r]), 6 * iter[r] + ExchangeSoFar(step[r]),
                    SizesAsked(r))
      BY <1>2 DEF InStep
    <3>3. /\ Len(log[r]["ring"]) = 2 * iter[r] + RingSoFar(step[r])
          /\ Len(log[r]["exchange"]) = 6 * iter[r] + ExchangeSoFar(step[r])
          /\ sizeCalls[r] = SizesAsked(r) % 5
      BY <3>1, <3>2 DEF InTraffic
    <3>4. CASE step[r] \in 2..3
      <4>1. RingSoFar(step[r]) = step[r] - 2 /\ SizesAsked(r) = 2 * iter[r]
        BY <2>1, <3>4 DEF RingSoFar, SizesAsked
      <4> QED
        BY <3>3, <3>4, <4>1
    <3>5. CASE step[r] \in 4..9
      <4>1. ExchangeSoFar(step[r]) = step[r] - 4 /\ SizesAsked(r) = 2 * iter[r] + 1
        BY <2>1, <3>5 DEF ExchangeSoFar, SizesAsked
      <4> QED
        BY <3>3, <3>5, <4>1
    <3> QED
      BY <3>4, <3>5
  <2>3. \A n \in Nat : sizeCalls[r] = n % 5 => BuffSize(r) = SizeAt(n)
    <3>1. SUFFICES ASSUME NEW n \in Nat, sizeCalls[r] = n % 5
                   PROVE  BuffSize(r) = SizeAt(n)
      OBVIOUS
    <3>2. sizeCalls[r] % 5 = n % 5
      BY <2>1, <3>1
    <3>3. Len(MsgSizes) = 5
      BY DEF MsgSizes
    <3>4. BuffSize(r) = MsgSizes[(sizeCalls[r] % 5) + 1] /\ SizeAt(n) = MsgSizes[(n % 5) + 1]
      BY <3>3 DEF BuffSize, SizeAt
    <3> QED
      BY <3>2, <3>4
  <2>4. CASE step[r] \in 0..1
    BY <2>1, <2>4 DEF WorkContext
  <2>5. CASE step[r] \in 2..3
    <3> DEFINE n == Len(log[r]["ring"]) + 1
    <3>1. BuffSize(r) = SizeAt(2 * iter[r]) /\ WorkContext(step[r] + 1) = "ring"
      <4>1. 2 * iter[r] \in Nat /\ ~(step[r] + 1 <= 2) /\ step[r] + 1 <= 4
        BY <2>1, <2>5
      <4> QED
        BY <2>2, <2>3, <2>5, <4>1 DEF WorkContext
    <3>2. CASE step[r] = 2
      <4>1. NextCall(r) = Sendrecv(RightNeighbor(r), LeftNeighbor(r), BuffSize(r))
        BY <2>1, <3>2 DEF WorkCall
      <4>2. n = 2 * iter[r] + 0 + 1
        BY <2>1, <2>2, <3>2
      <4>3. Iteration(n, 2) = iter[r] /\ Slot(n, 2) = 0
        <5> HIDE DEF n
        <5>1. 0 \in 0..1
          OBVIOUS
        <5> QED
          BY <2>1, <4>2, <5>1, RingPlace
      <4> QED
        BY <2>1, <3>1, <4>1, <4>3 DEF RingCall
    <3>3. CASE step[r] = 3
      <4>1. NextCall(r) = Sendrecv(LeftNeighbor(r), RightNeighbor(r), BuffSize(r))
        BY <2>1, <3>3 DEF WorkCall
      <4>2. n = 2 * iter[r] + 1 + 1
        BY <2>1, <2>2, <3>3
      <4>3. Iteration(n, 2) = iter[r] /\ Slot(n, 2) = 1
        <5> HIDE DEF n
        <5>1. 1 \in 0..1
          OBVIOUS
        <5> QED
          BY <2>1, <4>2, <5>1, RingPlace
      <4> QED
        BY <2>1, <3>1, <4>1, <4>3 DEF RingCall
    <3> QED
      BY <2>5, <3>2, <3>3
  <2>6. CASE step[r] \in 4..9
    <3> DEFINE n == Len(log[r]["exchange"]) + 1
               j == step[r] - 4
               i == (step[r] + 1 - 3) \div 2
    <3>1. BuffSize(r) = SizeAt(2 * iter[r] + 1) /\ WorkContext(step[r] + 1) = "exchange"
      <4>1. 2 * iter[r] + 1 \in Nat /\ ~(step[r] + 1 <= 2) /\ ~(step[r] + 1 <= 4)
        BY <2>1, <2>6
      <4> QED
        BY <2>2, <2>3, <2>6, <4>1 DEF WorkContext
    <3>2. Iteration(n, 6) = iter[r] /\ Slot(n, 6) = j
      <4>1. n = 6 * iter[r] + j + 1 /\ j \in 0..5
        BY <2>1, <2>2, <2>6
      <4> HIDE DEF n, j
      <4> QED
        BY <2>1, <4>1, ExchangePlace
    <3>3. i = Distance(j) /\ i \in 1..3 /\ step[r] + 1 > 4
          /\ IF j \in {0, 2, 4} THEN (step[r] + 1) % 2 = 1 ELSE (step[r] + 1) % 2 = 0
      <4>1. \/ step[r] = 4 \/ step[r] = 5 \/ step[r] = 6
            \/ step[r] = 7 \/ step[r] = 8 \/ step[r] = 9
        BY <2>1, <2>6
      <4> QED
        BY <4>1 DEF Distance
    <3>4. LeftWorker(r, i) = LeftOf(WorkerGroup(r), r, i)
          /\ RightWorker(r, i) = RightOf(WorkerGroup(r), r, i)
      <4> HIDE DEF i
      <4> QED
        BY <2>1, <3>3, WorkerSides
    <3>5. NextCall(r) = IF j \in {0, 2, 4}
                          THEN Sendrecv(LeftWorker(r, i), RightWorker(r, i), BuffSize(r))
                          ELSE Sendrecv(RightWorker(r, i), LeftWorker(r, i), BuffSize(r))
      <4>1. ~(step[r] + 1 = 1) /\ ~(step[r] + 1 = 2) /\ ~(step[r] + 1 = 3) /\ ~(step[r] + 1 = 4)
        BY <2>6
      <4>2. CASE j \in {0, 2, 4}
        <5>1. (step[r] + 1) % 2 = 1
          BY <3>3, <4>2
        <5> QED
          BY <2>1, <3>3, <4>1, <4>2, <5>1 DEF WorkCall
      <4>3. CASE j \notin {0, 2, 4}
        <5>1. (step[r] + 1) % 2 = 0
          BY <3>3, <4>3
        <5> QED
          BY <2>1, <3>3, <4>1, <4>3, <5>1 DEF WorkCall
      <4> QED
        BY <4>2, <4>3
    <3> HIDE DEF i, j, n
    <3>6. NextCall(r) = ExchangeCall(r, n)
      BY <3>1, <3>2, <3>3, <3>4, <3>5 DEF ExchangeCall
    <3> QED
      BY <2>1, <3>1, <3>6 DEF n
  <2> QED
    BY <2>1, <2>4, <2>5, <2>6
<1> QED
  BY <1>1, <1>2

LEMMA SplitIsSent ==
  ASSUME TypeInv, NEW r \in Rank, pc[r] \in MpiPc, blocked[r] = "none"
  PROVE  /\ NextCall(r).op = "split" => pc[r] = "split_worker" /\ NextCall(r).val = smpRank[r]
         /\ pc[r] = "split_worker" => CallContext(r) = "world" /\ NextCall(r).op = "split"
<1>1. step[r] \in Nat
  BY DEF TypeInv, TypeOK
<1>2. CASE pc[r] = "work"
  <2>1. NextCall(r) = WorkCall(r, step[r] + 1)
    BY <1>2 DEF NextCall
  <2>2. step[r] + 1 \in 1..LastWork /\ r \in Workers(r)
    <3>1. Counting(r) /\ HasWorkers(r)
      BY DEF TypeInv, Control, ControlOf
    <3>2. CallsIn(pc[r]) = LastWork
      BY <1>2 DEF CallsIn
    <3> QED
      BY <1>1, <1>2, <3>1, <3>2 DEF Counting, HasWorkers, LastWork
  <2>3. NextCall(r).op # "split"
    BY <2>1, <2>2, WorkCallType DEF TypeInv
  <2> QED
    BY <1>2, <2>3
<1>3. CASE pc[r] \in {"node_mma", "global_mma"}
  <2>1. \/ (step[r] + 1) % 3 = 0
        \/ (step[r] + 1) % 3 = 1
        \/ (step[r] + 1) % 3 = 2
    BY <1>1
  <2>2. /\ NodeReduction(step[r] + 1) # "split"
        /\ GlobalReduction(step[r] + 1) # "split"
    BY <2>1 DEF NodeReduction, GlobalReduction
  <2> QED
    BY <1>3, <2>2 DEF NextCall, Collective
<1>4. CASE pc[r] \notin {"work", "node_mma", "global_mma"}
  BY <1>4 DEF NextCall, CallContext, Collective, MpiPc
<1> QED
  BY <1>2, <1>3, <1>4

LEMMA SameCalls ==
  ASSUME node' = node, NEW r \in Rank
  PROVE  /\ WorkerGroup(r)' = WorkerGroup(r) /\ RankIn(OnNode(r), r)' = RankIn(OnNode(r), r)
         /\ \A n : RingCall(r, n)' = RingCall(r, n) /\ ExchangeCall(r, n)' = ExchangeCall(r, n)
<1>1. WorkerGroup(r)' = WorkerGroup(r) /\ RankIn(OnNode(r), r)' = RankIn(OnNode(r), r)
  BY DEF WorkerGroup, OnNode, RankIn
<1>2. \A n : RingCall(r, n)' = RingCall(r, n)
  BY DEF RingCall, RightNeighbor, LeftNeighbor, SizeAt, MsgSizes, Iteration, Slot, Sendrecv
<1>3. \A n : ExchangeCall(r, n)' = ExchangeCall(r, n)
  BY <1>1 DEF ExchangeCall, LeftOf, RightOf, Leftwards, OneLeft, Distance, SizeAt, MsgSizes,
              Iteration, Slot, Sendrecv, Member, RankIn
<1> QED
  BY <1>1, <1>2, <1>3

LEMMA EnterKeepsTraffic ==
  ASSUME ReportInv, NEW r \in Rank, Traffic(r), InStep(r), Colored(r), EnterCall(r),
         node' = node, args' = args
  PROVE  Traffic(r)' /\ InStep(r)' /\ Colored(r)'
<1> DEFINE call == NextCall(r)
           here == CallContext(r)
<1>1. /\ pc[r] \in MpiPc /\ blocked[r] = "none" /\ pc' = pc
      /\ step'[r] = step[r] + 1 /\ step[r] \in Nat /\ TypeInv
      /\ iter' = iter /\ sizeCalls' = sizeCalls /\ comm' = comm /\ iter[r] \in Nat
  <2>1. TypeInv
    BY DEF ReportInv, GateInv
  <2>2. step[r] \in Nat /\ iter[r] \in Nat /\ iter' = iter /\ sizeCalls' = sizeCalls /\ comm' = comm
    BY <2>1 DEF TypeInv, TypeOK, EnterCall
  <2> QED
    BY <2>1, <2>2, WorldCallEntered
<1>2. call \in Call /\ here \in Context /\ {"world", "ring", "exchange"} \subseteq Context
  BY <1>1, NextCallType DEF Context, Communicator
<1>3. \A c \in Context : log[r][c] \in Seq(Call)
  BY <1>1 DEF TypeInv, TypeOK, MpiTypeOK
<1>4. \A c \in Context : log'[r][c] = IF c = here THEN Append(log[r][c], call) ELSE log[r][c]
  BY <1>1, <1>2 DEF TypeInv, TypeOK, MpiTypeOK, EnterCall, Enter
<1>5. /\ here = "ring" => call = RingCall(r, Len(log[r]["ring"]) + 1)
      /\ here = "exchange" => call = ExchangeCall(r, Len(log[r]["exchange"]) + 1)
      /\ call.op = "split" => pc[r] = "split_worker" /\ call.val = smpRank[r]
      /\ pc[r] = "split_worker" => here = "world" /\ call.op = "split"
  BY <1>1, NextIsDue, SplitIsSent
<1>6. /\ pc[r] \in EarlyPc => here = "world"
      /\ pc[r] = "work" => here = IF step[r] < 2 THEN "world"
                                  ELSE IF step[r] < 4 THEN "ring" ELSE "exchange"
  BY <1>1 DEF EarlyPc, InitPc, CallContext, MpiPc, WorkContext
<1>7. /\ here = "world" => Current(r)' = call /\ log'[r]["world"] # << >>
      /\ blocked'[r] = here
  BY <1>1, WorldCallEntered
<1> HIDE DEF call, here
<1>8. ASSUME NEW c \in Context
      PROVE  /\ Len(log[r][c]) \in Nat
             /\ Len(log'[r][c]) = IF c = here THEN Len(log[r][c]) + 1 ELSE Len(log[r][c])
             /\ \A n \in DOMAIN log'[r][c] :
                  \/ n \in DOMAIN log[r][c] /\ log'[r][c][n] = log[r][c][n]
                  \/ c = here /\ n = Len(log[r][c]) + 1 /\ log'[r][c][n] = call
  <2>1. log[r][c] \in Seq(Call) /\ log'[r][c] = IF c = here THEN Append(log[r][c], call) ELSE log[r][c]
    BY <1>3, <1>4
  <2>2. /\ Len(log[r][c]) \in Nat /\ DOMAIN log[r][c] = 1..Len(log[r][c])
        /\ Len(Append(log[r][c], call)) = Len(log[r][c]) + 1
        /\ DOMAIN Append(log[r][c], call) = 1..(Len(log[r][c]) + 1)
        /\ \A n \in 1..Len(log[r][c]) : Append(log[r][c], call)[n] = log[r][c][n]
        /\ Append(log[r][c], call)[Len(log[r][c]) + 1] = call
    BY <1>2, <2>1, AppendProperties, LenProperties
  <2>3. CASE c = here
    BY <2>1, <2>2, <2>3
  <2>4. CASE c # here
    BY <2>1, <2>2, <2>4
  <2> QED
    BY <2>3, <2>4
<1>9. Traffic(r)'
  <2>1. ASSUME NEW n \in DOMAIN log'[r]["ring"]
        PROVE  log'[r]["ring"][n] = RingCall(r, n)
    <3>1. \/ n \in DOMAIN log[r]["ring"] /\ log'[r]["ring"][n] = log[r]["ring"][n]
          \/ "ring" = here /\ n = Len(log[r]["ring"]) + 1 /\ log'[r]["ring"][n] = call
      BY <1>2, <1>8
    <3>2. n \in DOMAIN log[r]["ring"] => log[r]["ring"][n] = RingCall(r, n)
      BY DEF Traffic
    <3> QED
      BY <1>5, <3>1, <3>2
  <2>2. ASSUME NEW n \in DOMAIN log'[r]["exchange"]
        PROVE  log'[r]["exchange"][n] = ExchangeCall(r, n)
    <3>1. \/ n \in DOMAIN log[r]["exchange"] /\ log'[r]["exchange"][n] = log[r]["exchange"][n]
          \/ "exchange" = here /\ n = Len(log[r]["exchange"]) + 1 /\ log'[r]["exchange"][n] = call
      BY <1>2, <1>8
    <3>2. n \in DOMAIN log[r]["exchange"] => log[r]["exchange"][n] = ExchangeCall(r, n)
      BY DEF Traffic
    <3> QED
      BY <1>5, <3>1, <3>2
  <2> QED
    BY <2>1, <2>2, SameCalls DEF Traffic
<1>10. InStep(r)'
  <2>1. /\ Len(log'[r]["ring"]) = IF here = "ring" THEN Len(log[r]["ring"]) + 1
                                  ELSE Len(log[r]["ring"])
        /\ Len(log'[r]["exchange"]) = IF here = "exchange" THEN Len(log[r]["exchange"]) + 1
                                      ELSE Len(log[r]["exchange"])
        /\ Len(log[r]["ring"]) \in Nat /\ Len(log[r]["exchange"]) \in Nat
    BY <1>2, <1>8
  <2>2. CASE pc[r] \in EarlyPc
    BY <1>1, <1>6, <2>1, <2>2 DEF InStep, InTraffic, EarlyPc, InitPc
  <2>3. CASE pc[r] = "work"
    <3>1. InTraffic(r, 2 * iter[r] + RingSoFar(step[r]), 6 * iter[r] + ExchangeSoFar(step[r]),
                    SizesAsked(r))
      BY <2>3 DEF InStep
    <3>2. SizesAsked(r)' = SizesAsked(r)
      BY <1>1, <1>2, <1>7 DEF SizesAsked, Context, Communicator
    <3>3. /\ RingSoFar(step[r] + 1) = IF here = "ring" THEN RingSoFar(step[r]) + 1 ELSE RingSoFar(step[r])
          /\ ExchangeSoFar(step[r] + 1) =
               IF here = "exchange" THEN ExchangeSoFar(step[r]) + 1 ELSE ExchangeSoFar(step[r])
          /\ RingSoFar(step[r]) \in Int /\ ExchangeSoFar(step[r]) \in Int
      BY <1>1, <1>6, <2>3 DEF RingSoFar, ExchangeSoFar
    <3>4. /\ Len(log[r]["ring"]) = 2 * iter[r] + RingSoFar(step[r])
          /\ Len(log[r]["exchange"]) = 6 * iter[r] + ExchangeSoFar(step[r])
          /\ sizeCalls[r] = SizesAsked(r) % Len(MsgSizes)
      BY <3>1 DEF InTraffic
    <3>5. /\ Len(log'[r]["ring"]) = 2 * iter[r] + RingSoFar(step[r] + 1)
          /\ Len(log'[r]["exchange"]) = 6 * iter[r] + ExchangeSoFar(step[r] + 1)
          /\ sizeCalls[r] = SizesAsked(r) % Len(MsgSizes)
      <4> DEFINE m == RingSoFar(step[r])
                 n == ExchangeSoFar(step[r])
      <4>1. m \in Int /\ n \in Int
        BY <3>3
      <4>2. /\ RingSoFar(step[r] + 1) = IF here = "ring" THEN m + 1 ELSE m
            /\ ExchangeSoFar(step[r] + 1) = IF here = "exchange" THEN n + 1 ELSE n
            /\ Len(log[r]["ring"]) = 2 * iter[r] + m
            /\ Len(log[r]["exchange"]) = 6 * iter[r] + n
        BY <3>3, <3>4
      <4> HIDE DEF m, n
      <4> QED
        BY <1>1, <2>1, <3>4, <4>1, <4>2
    <3>6. InTraffic(r, 2 * iter[r] + RingSoFar(step[r]), 6 * iter[r] + ExchangeSoFar(step[r]),
                    SizesAsked(r))'
      BY <1>1, <3>2, <3>5 DEF InTraffic, MsgSizes, RingSoFar, ExchangeSoFar
    <3> QED
      BY <1>1, <2>3, <3>6 DEF InStep, EarlyPc, InitPc
  <2>4. CASE pc[r] \notin EarlyPc \cup {"work"}
    BY <1>1, <2>4 DEF InStep, MpiPc
  <2> QED
    BY <2>2, <2>3, <2>4
<1>11. Colored(r)'
  <2>1. ASSUME NEW i \in DOMAIN log'[r]["world"], log'[r]["world"][i].op = "split"
        PROVE  log'[r]["world"][i].val = RankIn(OnNode(r), r)
    <3>1. i \in DOMAIN log[r]["world"] /\ log[r]["world"][i].op = "split" =>
            log[r]["world"][i].val = RankIn(OnNode(r), r)
      BY DEF Colored
    <3>2. pc[r] = "split_worker" => smpRank[r] = RankIn(OnNode(r), r)
      BY DEF ReportInv, Located, Unsplit
    <3>3. \/ i \in DOMAIN log[r]["world"] /\ log'[r]["world"][i] = log[r]["world"][i]
          \/ log'[r]["world"][i] = call
      BY <1>2, <1>8, <2>1
    <3> QED
      BY <1>5, <2>1, <3>1, <3>2, <3>3
  <2>2. pc[r] = "split_worker" => InWorldCall(r, "split")'
    BY <1>5, <1>7 DEF InWorldCall
  <2>3. Workers(r)' = Workers(r)
    BY <1>1 DEF Workers
  <2> QED
    BY <1>1, <2>1, <2>2, <2>3, SameCalls DEF Colored
<1> QED
  BY <1>9, <1>10, <1>11

(* The functions in which the worker communicator is there. *)
Grouped == {"num_nodes", "verify", "work", "sample_post"}

(* Which steps matter to the traffic.                                      *)
Apart(r) ==
  /\ sizeCalls' = sizeCalls /\ comm'[r]["worker"] = comm[r]["worker"]
  /\ pc'[r] \in EarlyPc \cup Grouped =>
       pc[r] \in EarlyPc /\ pc'[r] \in EarlyPc /\ (pc'[r] \in Grouped => pc[r] \in Grouped)

LEMMA StepApart ==
  ASSUME ReportInv, NEW r \in Rank, Run(r) \/ Failure(r)
  PROVE  \/ EnterCall(r) \/ TakeSample(r) \/ FinishSplitWorker(r) \/ FinishVerify(r)
         \/ FinishWork(r) \/ Apart(r)
<1>1. TypeOK /\ pc[r] # "exited"
  BY StepKinds DEF ReportInv, GateInv, TypeInv
<1>2. Communicator = {"world", "smp", "worker"} /\ "smp" # "worker"
  BY DEF Communicator
<1> USE DEF TypeOK, MpiTypeOK, Fail, Goto, Proceed, Returns, Leave, jobVars, infoVars,
            dataVars, Apart, Grouped, EarlyPc, InitPc
<1>3. CASE Setup(r)
  BY <1>1, <1>3 DEF Setup
<1>4. CASE SetupFails(r)
  BY <1>1, <1>4 DEF SetupFails
<1>5. CASE TakeSampleFails(r)
  BY <1>1, <1>5 DEF TakeSampleFails
<1>6. CASE FinishInit(r)
  BY <1>1, <1>6 DEF FinishInit
<1>7. CASE FinishSplitSmp(r)
  BY <1>1, <1>2, <1>7 DEF FinishSplitSmp
<1>8. CASE FinishNumNodes(r)
  BY <1>1, <1>8 DEF FinishNumNodes
<1>9. CASE WorkFails(r)
  BY <1>1, <1>9 DEF WorkFails
<1>10. CASE LocalMmas(r)
  BY <1>1, <1>10 DEF LocalMmas
<1>11. CASE FinishNodeMma(r)
  BY <1>1, <1>11 DEF FinishNodeMma
<1>12. CASE FinishGlobalMma(r)
  BY <1>1, <1>12 DEF FinishGlobalMma
<1>13. CASE UsageFails(r)
  BY <1>1, <1>13 DEF UsageFails
<1>14. CASE FinishFreeSmp(r)
  BY <1>1, <1>14 DEF FinishFreeSmp
<1>15. CASE FinishFreeWorker(r)
  BY <1>1, <1>15 DEF FinishFreeWorker
<1>16. CASE FinishFinalize(r)
  BY <1>1, <1>16 DEF FinishFinalize
<1> QED
  BY <1>3, <1>4, <1>5, <1>6, <1>7, <1>8, <1>9, <1>10, <1>11, <1>12, <1>13, <1>14, <1>15,
     <1>16 DEF Run, Failure, Return

(* The split by the rank on the node puts a process with its group.        *)
LEMMA SplitByRank ==
  ASSUME TrafficInv, NEW r \in Rank, FinishSplitWorker(r)
  PROVE  SameColor(r) = WorkerGroup(r)
<1>1. InWorldCall(r, "split") /\ MayReturn(r) /\ GateInv
  BY DEF TrafficInv, ReportInv, Colored, FinishSplitWorker, Returns, MayReturn
<1>2. ASSUME NEW s \in Rank
      PROVE  Contribution(r, s) = RankIn(OnNode(s), s)
  <2>1. /\ Nth(r) \in DOMAIN log[s]["world"]
        /\ log[s]["world"][Nth(r)].op = "split"
        /\ Contribution(r, s) = log[s]["world"][Nth(r)].val
    BY <1>1, AllAnnounced DEF Rendezvous
  <2> QED
    BY <2>1 DEF TrafficInv, Colored
<1> QED
  BY <1>2 DEF SameColor, WorkerGroup

LEMMA CountOn ==
  ASSUME NEW m \in Nat, NEW n \in 0..4, n = m % 5
  PROVE  (n + 1) % 5 = (m + 1) % 5
OBVIOUS

(* A step that enters no call. *)
LEMMA StepKeepsTraffic ==
  ASSUME TrafficInv, NEW r \in Rank, Run(r) \/ Failure(r), ~EnterCall(r),
         node' = node, args' = args, log' = log, blocked'[r] = "none"
  PROVE  Traffic(r)' /\ InStep(r)' /\ Colored(r)'
<1>1. /\ Traffic(r) /\ InStep(r) /\ Colored(r) /\ ReportInv
      /\ TypeOK /\ ControlOf(r) /\ CourseOf(r)
      /\ step[r] \in Nat /\ iter[r] \in Nat /\ args.iters \in Nat
  BY SampleFacts DEF TrafficInv, ReportInv
<1>2. Traffic(r)'
  BY <1>1, SameCalls DEF Traffic
<1>3. /\ step \in [Rank -> 0..LastReduction] /\ pc \in [Rank -> Pc] /\ iter \in [Rank -> Nat]
      /\ sizeCalls \in [Rank -> 0..4] /\ Len(MsgSizes) = 5
      /\ comm \in [Rank -> [Communicator -> SUBSET Rank]]
  BY <1>1 DEF TypeOK, MpiTypeOK, MsgSizes
<1>4. \A ring, exchange, sizes :
        sizeCalls'[r] = sizeCalls[r] =>
          (InTraffic(r, ring, exchange, sizes)' <=> InTraffic(r, ring, exchange, sizes))
  BY DEF InTraffic, MsgSizes
<1>5. /\ Workers(r)' = WorkerGroup(r) \/ pc'[r] \notin Grouped
      => Colored(r)'
  <2>1. \A i \in DOMAIN log'[r]["world"] :
          log'[r]["world"][i].op = "split" => log'[r]["world"][i].val = RankIn(OnNode(r), r)'
    BY <1>1, SameCalls DEF Colored
  <2> QED
    BY <2>1, SameCalls DEF Colored, Grouped
<1>6. RingSoFar(0) = 0 /\ ExchangeSoFar(0) = 0
  BY DEF RingSoFar, ExchangeSoFar
<1>7. CASE TakeSample(r)
  <2>1. /\ pc[r] \in {"sample_pre", "sample_post"} /\ comm' = comm /\ sizeCalls' = sizeCalls
        /\ step' = step /\ step[r] = 0
    BY <1>1, <1>7, OutsideMpi DEF TakeSample, ReportInv, GateInv, MpiPc
  <2>2. Initialized(r) <=> pc[r] = "sample_post"
    BY <1>1, <2>1, SampleStage DEF ReportInv
  <2>3. IF iter[r] + 1 = args.iters
          THEN pc'[r] = IF pc[r] = "sample_post" THEN "local_mma" ELSE "init"
          ELSE /\ iter'[r] = iter[r] + 1
               /\ pc[r] = "sample_pre" => pc'[r] = "sample_pre"
               /\ pc[r] = "sample_post" => pc'[r] = IF args.work THEN "work" ELSE "sample_post"
    BY <1>3, <1>7, <2>1, <2>2 DEF TakeSample, Goto, StartIteration
  <2>4. Colored(r)'
    BY <1>1, <1>5, <2>1, <2>3 DEF Colored, Workers, Grouped
  <2>5. InStep(r)'
    <3>1. CASE pc[r] = "sample_pre"
      <4>1. InTraffic(r, 0, 0, 0)'
        BY <1>1, <1>4, <2>1, <3>1 DEF InStep, EarlyPc
      <4> QED
        BY <2>3, <3>1, <4>1 DEF InStep
    <3>2. CASE pc[r] = "sample_post" /\ pc'[r] = "work"
      <4>1. args.work /\ iter'[r] = iter[r] + 1 /\ step'[r] = 0
        BY <2>1, <2>3, <3>2
      <4>2. InTraffic(r, 2 * (iter[r] + 1), 6 * (iter[r] + 1), 2 * (iter[r] + 1))
        BY <1>1, <3>2, <4>1 DEF InStep
      <4>3. SizesAsked(r)' = 2 * (iter[r] + 1)
        BY <1>1, <4>1 DEF SizesAsked
      <4>4. /\ Len(log'[r]["ring"]) = 2 * iter'[r] + RingSoFar(step'[r])
            /\ Len(log'[r]["exchange"]) = 6 * iter'[r] + ExchangeSoFar(step'[r])
            /\ sizeCalls'[r] = SizesAsked(r)' % 5
        BY <1>1, <1>3, <1>6, <2>1, <4>1, <4>2, <4>3 DEF InTraffic
      <4>5. InTraffic(r, 2 * iter[r] + RingSoFar(step[r]), 6 * iter[r] + ExchangeSoFar(step[r]),
                      SizesAsked(r))'
        BY <1>3, <4>4 DEF InTraffic, RingSoFar, ExchangeSoFar, MsgSizes
      <4> QED
        BY <3>2, <4>5 DEF InStep, EarlyPc, InitPc
    <3>3. CASE pc[r] = "sample_post" /\ pc'[r] # "work"
      BY <2>3, <3>3 DEF InStep, EarlyPc, InitPc
    <3> QED
      BY <2>1, <3>1, <3>2, <3>3
  <2> QED
    BY <1>2, <2>4, <2>5
<1>8. CASE FinishSplitWorker(r)
  <2>1. /\ pc[r] = "split_worker" /\ pc'[r] = "num_nodes" /\ sizeCalls' = sizeCalls
        /\ Workers(r)' = SameColor(r)
    BY <1>3, <1>8 DEF FinishSplitWorker, Returns, Proceed, Goto, Workers, Communicator
  <2>2. InTraffic(r, 0, 0, 0)'
    BY <1>1, <1>4, <2>1 DEF InStep, EarlyPc, InitPc
  <2> QED
    BY <1>2, <1>5, <1>8, <2>1, <2>2, SplitByRank DEF InStep, EarlyPc, InitPc
<1>9. CASE FinishVerify(r)
  <2>1. /\ pc[r] = "verify" /\ iter' = iter /\ sizeCalls' = sizeCalls /\ comm' = comm
        /\ PpnDiffers(r) \/ PpnAgrees(r)
    BY <1>9 DEF FinishVerify, Returns
  <2>2. /\ step'[r] = 0
        /\ pc'[r] \in {"free_smp", IF args.work THEN "work" ELSE "sample_post"}
    BY <1>3, <2>1 DEF PpnDiffers, PpnAgrees, Proceed, Goto, StartIteration
  <2>3. iter[r] = 0 /\ InTraffic(r, 0, 0, 0)
    BY <1>1, <2>1 DEF CourseOf, Rounds, InitPc, InStep, EarlyPc
  <2>4. Colored(r)'
    BY <1>1, <1>5, <2>1, <2>2 DEF Colored, Workers, Grouped
  <2>5. InStep(r)'
    <3>1. CASE pc'[r] = "work"
      <4>1. SizesAsked(r)' = 0
        BY <2>1, <2>2, <2>3 DEF SizesAsked
      <4>2. /\ Len(log'[r]["ring"]) = 2 * iter'[r] + RingSoFar(step'[r])
            /\ Len(log'[r]["exchange"]) = 6 * iter'[r] + ExchangeSoFar(step'[r])
            /\ sizeCalls'[r] = SizesAsked(r)' % 5
        BY <1>3, <1>6, <2>1, <2>2, <2>3, <4>1 DEF InTraffic
      <4>3. InTraffic(r, 2 * iter[r] + RingSoFar(step[r]), 6 * iter[r] + ExchangeSoFar(step[r]),
                      SizesAsked(r))'
        BY <1>3, <4>2 DEF InTraffic, RingSoFar, ExchangeSoFar, MsgSizes
      <4> QED
        BY <3>1, <4>3 DEF InStep, EarlyPc, InitPc
    <3>2. CASE pc'[r] # "work"
      BY <2>2, <3>2 DEF InStep, EarlyPc, InitPc
    <3> QED
      BY <3>1, <3>2
  <2> QED
    BY <1>2, <2>4, <2>5
<1>10. CASE FinishWork(r)
  <2>1. /\ pc[r] = "work" /\ iter' = iter /\ comm' = comm /\ blocked[r] # "none"
        /\ step[r] \in 1..10
        /\ sizeCalls'[r] = IF step[r] \in {4, 10} THEN (sizeCalls[r] + 1) % 5 ELSE sizeCalls[r]
    <3>1. CallsIn("work") = 10 /\ LastOfSize = {4, 10}
      BY DEF CallsIn, LastWork, LastOfSize
    <3>2. /\ pc[r] = "work" /\ iter' = iter /\ comm' = comm /\ blocked[r] # "none"
          /\ sizeCalls' = IF step[r] \in {4, 10}
                            THEN [sizeCalls EXCEPT ![r] = (@ + 1) % 5] ELSE sizeCalls
      BY <1>3, <1>10, <3>1 DEF FinishWork, Returns, MayReturn
    <3>3. step[r] > 0 /\ step[r] <= 10
      BY <1>1, <3>1, <3>2 DEF ControlOf, Counting
    <3>4. sizeCalls'[r] = IF step[r] \in {4, 10} THEN (sizeCalls[r] + 1) % 5 ELSE sizeCalls[r]
      BY <1>3, <3>2
    <3> QED
      BY <1>1, <3>2, <3>3, <3>4
  <2>2. \/ pc'[r] \in Ending
        \/ step[r] = 10 /\ pc'[r] = "sample_post"
        \/ step[r] # 10 /\ pc'[r] = "work" /\ step'[r] = step[r]
    BY <1>3, <1>10, <2>1 DEF FinishWork, Fail, Proceed, Goto, Ending, LastWork
  <2>3. Colored(r)'
    BY <1>1, <1>5, <2>1, <2>2 DEF Colored, Workers, Grouped, Ending
  <2>4. /\ Len(log[r]["ring"]) = 2 * iter[r] + RingSoFar(step[r])
        /\ Len(log[r]["exchange"]) = 6 * iter[r] + ExchangeSoFar(step[r])
        /\ sizeCalls[r] = SizesAsked(r) % 5
    BY <1>1, <1>3, <2>1 DEF InStep, InTraffic
  <2>5. SizesAsked(r) = 2 * iter[r] + (IF step[r] <= 4 THEN 0 ELSE 1)
    BY <2>1 DEF SizesAsked
  <2>6. CASE step[r] # 10 /\ pc'[r] = "work" /\ step'[r] = step[r]
    <3>1. SizesAsked(r)' = 2 * iter[r] + (IF step[r] < 4 THEN 0 ELSE 1)
      BY <2>1, <2>6 DEF SizesAsked
    <3>2. sizeCalls'[r] = SizesAsked(r)' % 5
      <4>1. CASE step[r] = 4
        <5>1. SizesAsked(r) = 2 * iter[r] /\ SizesAsked(r)' = 2 * iter[r] + 1 /\ 2 * iter[r] \in Nat
          BY <1>1, <2>5, <3>1, <4>1
        <5>2. sizeCalls'[r] = (sizeCalls[r] + 1) % 5
          BY <2>1, <4>1
        <5> QED
          BY <1>3, <2>4, <5>1, <5>2, CountOn
      <4>2. CASE step[r] # 4
        BY <2>1, <2>4, <2>5, <2>6, <3>1, <4>2
      <4> QED
        BY <4>1, <4>2
    <3>3. InTraffic(r, 2 * iter[r] + RingSoFar(step[r]), 6 * iter[r] + ExchangeSoFar(step[r]),
                    SizesAsked(r))'
      BY <1>3, <2>1, <2>4, <2>6, <3>2 DEF InTraffic, RingSoFar, ExchangeSoFar, MsgSizes
    <3> QED
      BY <1>2, <2>3, <2>6, <3>3 DEF InStep, EarlyPc, InitPc
  <2>7. CASE step[r] = 10 /\ pc'[r] = "sample_post"
    <3>1. RingSoFar(10) = 2 /\ ExchangeSoFar(10) = 6
      BY DEF RingSoFar, ExchangeSoFar
    <3>2. SizesAsked(r) = 2 * iter[r] + 1 /\ 2 * iter[r] + 1 \in Nat
          /\ 2 * iter[r] + 1 + 1 = 2 * (iter[r] + 1)
      BY <1>1, <2>5, <2>7
    <3>3. sizeCalls'[r] = (2 * (iter[r] + 1)) % 5
      <4>1. sizeCalls'[r] = (sizeCalls[r] + 1) % 5 /\ sizeCalls[r] \in 0..4
        BY <1>3, <2>1, <2>7
      <4> QED
        BY <2>4, <3>2, <4>1, CountOn
    <3>4. /\ Len(log'[r]["ring"]) = 2 * (iter'[r] + 1)
          /\ Len(log'[r]["exchange"]) = 6 * (iter'[r] + 1)
      BY <1>1, <2>1, <2>4, <2>7, <3>1
    <3>5. InTraffic(r, 2 * (iter[r] + 1), 6 * (iter[r] + 1), 2 * (iter[r] + 1))'
      BY <1>3, <2>1, <3>3, <3>4 DEF InTraffic, MsgSizes
    <3> QED
      BY <1>2, <2>3, <2>7, <3>5 DEF InStep, EarlyPc, InitPc
  <2>8. CASE pc'[r] \in Ending
    BY <1>2, <2>3, <2>8 DEF InStep, EarlyPc, InitPc, Ending
  <2> QED
    BY <2>2, <2>6, <2>7, <2>8
<1>11. CASE Apart(r)
  <2>1. Colored(r)'
    BY <1>1, <1>5, <1>11 DEF Apart, Colored, Workers, Grouped
  <2>2. InStep(r)'
    <3>1. CASE pc'[r] \in EarlyPc
      <4>1. InTraffic(r, 0, 0, 0)'
        BY <1>1, <1>4, <1>11, <3>1 DEF Apart, InStep
      <4> QED
        BY <3>1, <4>1 DEF InStep, EarlyPc, InitPc
    <3>2. CASE pc'[r] \notin EarlyPc
      BY <1>11, <3>2 DEF Apart, InStep, Grouped
    <3> QED
      BY <3>1, <3>2
  <2> QED
    BY <1>2, <2>1, <2>2
<1> QED
  BY <1>1, <1>7, <1>8, <1>9, <1>10, <1>11, StepApart

LEMMA InitTrafficInv == Init => TrafficInv
<1> SUFFICES ASSUME Init PROVE TrafficInv
  OBVIOUS
<1>1. ASSUME NEW r \in Rank
      PROVE  Traffic(r) /\ InStep(r) /\ Colored(r)
  <2>1. /\ pc[r] = "setup" /\ sizeCalls[r] = 0 /\ blocked[r] = "none"
        /\ log[r]["ring"] = << >> /\ log[r]["exchange"] = << >> /\ log[r]["world"] = << >>
    BY DEF Init, MpiInit, Context, Communicator
  <2>2. InTraffic(r, 0, 0, 0)
    BY <2>1 DEF InTraffic, MsgSizes
  <2> QED
    BY <2>1, <2>2 DEF Traffic, InStep, EarlyPc, Colored
<1> QED
  BY <1>1, InitReportInv DEF TrafficInv

LEMMA OthersAsk ==
  ASSUME TypeOK, NEW r \in Rank, Run(r) \/ Failure(r), NEW s \in Rank \ {r}
  PROVE  sizeCalls'[s] = sizeCalls[s]
<1>1. sizeCalls' = sizeCalls \/ FinishWork(r)
  BY DEF Run, Failure, Return, Setup, SetupFails, TakeSample, TakeSampleFails, EnterCall,
         FinishInit, FinishSplitSmp, FinishSplitWorker, FinishNumNodes, FinishVerify, WorkFails,
         LocalMmas, FinishNodeMma, FinishGlobalMma, UsageFails, FinishFreeSmp,
         FinishFreeWorker, FinishFinalize
<1> QED
  BY <1>1 DEF FinishWork, TypeOK

LEMMA StepTrafficInv == TrafficInv /\ [Next]_vars => TrafficInv'
<1> SUFFICES ASSUME TrafficInv, [Next]_vars PROVE TrafficInv'
  OBVIOUS
<1>1. ReportInv' /\ TypeInv /\ TypeOK
  BY StepReportInv DEF TrafficInv, ReportInv, GateInv, TypeInv
<1>2. CASE UNCHANGED vars
  <2>1. \A r \in Rank : Traffic(r)' /\ InStep(r)' /\ Colored(r)'
    <3>1. TAKE r \in Rank
    <3>2. Traffic(r) /\ InStep(r) /\ Colored(r)
      BY DEF TrafficInv
    <3> QED
      BY <1>2, <3>2, SameCalls
      DEF vars, Traffic, InStep, InTraffic, MsgSizes, RingSoFar, ExchangeSoFar, SizesAsked,
          Colored, Workers, InWorldCall, Current, Nth
  <2> QED
    BY <1>1, <2>1 DEF TrafficInv
<1>3. CASE Next
  <2>1. PICK r \in Rank : Run(r) \/ Failure(r)
    BY <1>3 DEF Next
  <2>2. /\ node' = node /\ args' = args
        /\ EnterCall(r) \/ (log' = log /\ blocked'[r] = "none")
    BY <1>1, <2>1, StepEffects, OthersStay
  <2>3. ASSUME NEW s \in Rank \ {r}
        PROVE  Traffic(s)' /\ InStep(s)' /\ Colored(s)'
    <3>1. /\ Same(s) /\ SameData(s) /\ sizeCalls'[s] = sizeCalls[s]
          /\ Traffic(s) /\ InStep(s) /\ Colored(s)
      BY <1>1, <2>1, <2>3, OthersStay, OthersKeep, OthersAsk DEF TrafficInv
    <3>2. /\ pc'[s] = pc[s] /\ step'[s] = step[s] /\ blocked'[s] = blocked[s]
          /\ log'[s] = log[s] /\ comm'[s] = comm[s] /\ iter'[s] = iter[s]
      BY <3>1 DEF Same, SameData
    <3>3. Traffic(s)'
      BY <2>2, <3>1, <3>2, SameCalls DEF Traffic
    <3>4. InStep(s)'
      BY <2>2, <3>1, <3>2
      DEF InStep, InTraffic, MsgSizes, RingSoFar, ExchangeSoFar, SizesAsked
    <3>5. Colored(s)'
      BY <2>2, <3>1, <3>2, SameCalls DEF Colored, Workers, InWorldCall, Current, Nth
    <3> QED
      BY <3>3, <3>4, <3>5
  <2>4. Traffic(r)' /\ InStep(r)' /\ Colored(r)'
    BY <2>1, <2>2, EnterKeepsTraffic, StepKeepsTraffic DEF TrafficInv
  <2> QED
    BY <1>1, <2>3, <2>4 DEF TrafficInv
<1> QED
  BY <1>2, <1>3

(* Sends and receives that fall together are paired by their order.        *)
FallTogether(m, n, sent, received) ==
  \A k \in Nat : k <= m /\ k <= n => (k \in sent <=> k \in received)

LEMMA PairedByRank ==
  ASSUME NEW m \in Nat, NEW n \in Nat, NEW sent \in SUBSET (1..m), NEW received \in SUBSET (1..n),
         FallTogether(m, n, sent, received),
         NEW i \in sent, NEW j \in received, RankIn(sent, i) = RankIn(received, j)
  PROVE  i = j
<1>1. /\ sent \in SUBSET Int /\ IsFiniteSet(sent)
      /\ received \in SUBSET Int /\ IsFiniteSet(received)
  <2>1. IsFiniteSet(1..m) /\ IsFiniteSet(1..n)
    BY FS_Interval
  <2>2. sent \subseteq 1..m /\ received \subseteq 1..n
    OBVIOUS
  <2>3. IsFiniteSet(sent) /\ IsFiniteSet(received)
    BY <2>1, <2>2, FS_Subset, Zenon
  <2> QED
    BY <2>3
<1>2. /\ i \in Nat /\ i <= m /\ j \in Nat /\ j <= n
      /\ \A k \in sent : k \in Nat /\ k <= m
      /\ \A k \in received : k \in Nat /\ k <= n
  OBVIOUS
<1>3. i \in sent /\ j \in received /\ RankIn(sent, i) = RankIn(received, j)
  OBVIOUS
<1>4. ~(i < j)
  <2>1. SUFFICES ASSUME i < j PROVE FALSE
    OBVIOUS
  <2>2. i \in received
    BY <1>2, <2>1 DEF FallTogether
  <2>3. {k \in sent : k < i} = {k \in received : k < i}
    <3>1. ASSUME NEW k \in Nat, k < i
          PROVE  k \in sent <=> k \in received
      <4>1. k <= m /\ k <= n
        BY <1>2, <2>1, <3>1
      <4> QED
        BY <4>1 DEF FallTogether
    <3> QED
      BY <1>2, <3>1
  <2>4. RankIn(received, i) = RankIn(received, j)
    BY <1>3, <2>3 DEF RankIn
  <2>5. i = j
    BY ONLY <1>1, <1>3, <2>2, <2>4, RankInInjective
  <2> QED
    BY <1>2, <2>1, <2>5
<1>5. ~(j < i)
  <2>1. SUFFICES ASSUME j < i PROVE FALSE
    OBVIOUS
  <2>2. j \in sent
    BY <1>2, <2>1 DEF FallTogether
  <2>3. {k \in sent : k < j} = {k \in received : k < j}
    <3>1. ASSUME NEW k \in Nat, k < j
          PROVE  k \in sent <=> k \in received
      <4>1. k <= m /\ k <= n
        BY <1>2, <2>1, <3>1
      <4> QED
        BY <4>1 DEF FallTogether
    <3> QED
      BY <1>2, <3>1
  <2>4. RankIn(sent, i) = RankIn(sent, j)
    BY <1>3, <2>3 DEF RankIn
  <2>5. i = j
    BY ONLY <1>1, <1>3, <2>2, <2>4, RankInInjective
  <2> QED
    BY <1>2, <2>1, <2>5
<1> QED
  BY <1>2, <1>4, <1>5

(* The n-th call of one process and of another on the ring, *)
LEMMA RingCallsMeet ==
  ASSUME NEW r \in Rank, NEW s \in Rank, NEW n
  PROVE  /\ RingCall(s, n).to = r <=> RingCall(r, n).from = s
         /\ RingCall(s, n).val = RingCall(r, n).val
<1>1. /\ RightNeighbor(s) = r <=> LeftNeighbor(r) = s
      /\ RightNeighbor(r) = s <=> LeftNeighbor(s) = r
  BY RingMirrors
<1> QED
  BY <1>1 DEF RingCall, Sendrecv

(* and on a worker communicator, or on two of them.                        *)
LEMMA ExchangeCallsMeet ==
  ASSUME NEW r \in Rank, NEW s \in Rank, NEW n \in Nat
  PROVE  /\ ExchangeCall(s, n).to = r <=> ExchangeCall(r, n).from = s
         /\ ExchangeCall(s, n).val = ExchangeCall(r, n).val
<1> DEFINE i == Distance(Slot(n, 6))
<1>1. i \in 1..3
  BY DEF Distance
<1> HIDE DEF i
<1>2. /\ LeftOf(WorkerGroup(s), s, i) = r <=> RightOf(WorkerGroup(r), r, i) = s
      /\ RightOf(WorkerGroup(s), s, i) = r <=> LeftOf(WorkerGroup(r), r, i) = s
  <2>1. /\ WorkerGroup(r) \in SUBSET Rank /\ WorkerGroup(s) \in SUBSET Rank
        /\ r \in WorkerGroup(r) /\ s \in WorkerGroup(s)
    BY DEF WorkerGroup
  <2>2. CASE r \in WorkerGroup(s)
    <3>1. WorkerGroup(r) = WorkerGroup(s)
      BY <2>2 DEF WorkerGroup
    <3> QED
      BY <1>1, <2>1, <3>1, GroupMirrors
  <2>3. CASE r \notin WorkerGroup(s)
    <3>1. s \notin WorkerGroup(r)
      BY <2>3 DEF WorkerGroup
    <3>2. /\ LeftOf(WorkerGroup(s), s, i) \in WorkerGroup(s)
          /\ RightOf(WorkerGroup(s), s, i) \in WorkerGroup(s)
          /\ LeftOf(WorkerGroup(r), r, i) \in WorkerGroup(r)
          /\ RightOf(WorkerGroup(r), r, i) \in WorkerGroup(r)
      BY <1>1, <2>1, GroupMirrors
    <3> QED
      BY <2>3, <3>1, <3>2
  <2> QED
    BY <2>2, <2>3
<1> QED
  BY <1>2 DEF ExchangeCall, Sendrecv, i

LEMMA MessagesDoFit == TrafficInv => MessagesFit
<1> SUFFICES ASSUME TrafficInv, NEW r \in Rank, NEW s \in Rank, NEW c \in {"ring", "exchange"},
                    NEW i \in SendsTo(s, r, c), NEW j \in ReceivesFrom(r, s, c),
                    RankIn(SendsTo(s, r, c), i) = RankIn(ReceivesFrom(r, s, c), j)
             PROVE  log[s][c][i].val = log[r][c][j].val
  BY DEF MessagesFit
<1> DEFINE m == Len(log[s][c])
           n == Len(log[r][c])
<1>1. m \in Nat /\ n \in Nat /\ DOMAIN log[s][c] = 1..m /\ DOMAIN log[r][c] = 1..n
  <2>1. log[s][c] \in Seq(Call) /\ log[r][c] \in Seq(Call)
    BY DEF TrafficInv, ReportInv, GateInv, TypeInv, TypeOK, MpiTypeOK, Context
  <2> QED
    BY <2>1, LenProperties
<1>2. ASSUME NEW k \in Nat, k \in DOMAIN log[s][c], k \in DOMAIN log[r][c]
      PROVE  /\ k \in SendsTo(s, r, c) <=> k \in ReceivesFrom(r, s, c)
             /\ log[s][c][k].val = log[r][c][k].val
  <2>1. CASE c = "ring"
    <3>1. log[s][c][k] = RingCall(s, k) /\ log[r][c][k] = RingCall(r, k)
      BY <1>2, <2>1 DEF TrafficInv, Traffic
    <3> QED
      BY <1>2, <3>1, RingCallsMeet DEF SendsTo, ReceivesFrom
  <2>2. CASE c = "exchange"
    <3>1. log[s][c][k] = ExchangeCall(s, k) /\ log[r][c][k] = ExchangeCall(r, k)
      BY <1>2, <2>2 DEF TrafficInv, Traffic
    <3> QED
      BY <1>2, <3>1, ExchangeCallsMeet DEF SendsTo, ReceivesFrom
  <2> QED
    BY <2>1, <2>2
<1>3. i = j
  <2> DEFINE sent == SendsTo(s, r, c)
             received == ReceivesFrom(r, s, c)
  <2>1. sent \in SUBSET (1..m) /\ received \in SUBSET (1..n)
    BY <1>1 DEF SendsTo, ReceivesFrom
  <2>2. FallTogether(m, n, sent, received)
    <3>1. SUFFICES ASSUME NEW k \in Nat, k <= m, k <= n
                   PROVE  k \in sent <=> k \in received
      BY DEF FallTogether
    <3>2. CASE k = 0
      BY <2>1, <3>2
    <3>3. CASE k # 0
      BY <1>1, <1>2, <3>1, <3>3
    <3> QED
      BY <3>2, <3>3
  <2> HIDE DEF sent, received, m, n
  <2>3. i \in sent /\ j \in received /\ RankIn(sent, i) = RankIn(received, j)
    BY DEF sent, received
  <2>4. m \in Nat /\ n \in Nat
    BY <1>1
  <2> QED
    BY ONLY <2>1, <2>2, <2>3, <2>4, PairedByRank
<1> QED
  BY <1>1, <1>2, <1>3 DEF SendsTo, ReceivesFrom

(* A message of the workload is as long as the buffer that receives it,    *)
(* for every number of processes, placement and iteration, and whoever     *)
(* fails: the n-th message of a process to another, and the n-th receive   *)
(* the other posts for it, lie at the same place of the same iteration     *)
(* (txrx_chain, workerxchange, get_msg_size).                              *)
THEOREM MessagesAlwaysFit == Spec => []MessagesFit
BY InitTrafficInv, StepTrafficInv, MessagesDoFit, PTL DEF Spec

(***************************************************************************)
(* The end of a job, whatever fails: what a step does to the place of the  *)
(* process, and to the steps it has left.                                  *)
(***************************************************************************)

(* What comes after the last call of a function.                           *)
Follows(from, to) ==
  \/ from = "init" /\ to = "split_smp"
  \/ from = "split_smp" /\ to = "split_worker"
  \/ from = "split_worker" /\ to = "num_nodes"
  \/ from = "num_nodes" /\ to = "verify"
  \/ from = "verify" /\ to = IF args.work THEN "work" ELSE "sample_post"
  \/ from = "work" /\ to = "sample_post"
  \/ from = "node_mma" /\ to = "global_mma"
  \/ from = "global_mma" /\ to = "free_smp"
  \/ from = "free_smp" /\ to = "free_worker"
  \/ from = "free_worker" /\ to = "finalize"
  \/ from = "finalize" /\ to = "exited"

(* A process enters a call, *)
Calls(r) ==
  /\ blocked[r] = "none" /\ blocked'[r] # "none"
  /\ pc[r] \in MpiPc
  /\ UNCHANGED <<pc, iter>> /\ step'[r] = step[r] + 1

(* returns from one, *)
ComesBack(r) ==
  /\ blocked[r] # "none" /\ blocked'[r] = "none"
  /\ pc[r] \in MpiPc /\ iter'[r] = iter[r]
  /\ \/ pc'[r] = pc[r] /\ step'[r] = step[r] /\ 0 < step[r] /\ step[r] < CallsIn(pc[r])
     \/ step[r] = CallsIn(pc[r]) /\ step'[r] = 0 /\ Follows(pc[r], pc'[r])

(* does something else, *)
Works(r) ==
  /\ blocked[r] = "none" /\ blocked'[r] = "none"
  /\ step[r] = 0 /\ step'[r] = 0
  /\ \/ pc[r] = "setup" /\ pc'[r] = "sample_pre" /\ iter'[r] = iter[r]
     \/ /\ pc[r] = "sample_pre"
        /\ \/ iter[r] + 1 # args.iters /\ iter'[r] = iter[r] + 1 /\ pc'[r] = "sample_pre"
           \/ iter[r] + 1 = args.iters /\ iter'[r] = 0 /\ pc'[r] = "init"
     \/ /\ pc[r] = "sample_post"
        /\ \/ /\ iter[r] + 1 # args.iters /\ iter'[r] = iter[r] + 1
              /\ pc'[r] = IF args.work THEN "work" ELSE "sample_post"
           \/ iter[r] + 1 = args.iters /\ iter'[r] = 0 /\ pc'[r] = "local_mma"
     \/ pc[r] = "local_mma" /\ pc'[r] = "node_mma" /\ iter'[r] = iter[r]

(* or leaves all that for the end of main.                                 *)
GivesUp(r) ==
  /\ pc[r] \notin Ending /\ pc'[r] \in {"free_smp", "exited"}
  /\ step'[r] = 0 /\ blocked'[r] = "none" /\ iter'[r] = iter[r]

LEMMA StepGoes ==
  ASSUME CourseInv, NEW r \in Rank, Run(r) \/ Failure(r)
  PROVE  Calls(r) \/ ComesBack(r) \/ Works(r) \/ GivesUp(r)
<1>1. pc[r] # "exited" /\ TypeInv
  BY StepKinds DEF CourseInv
<1>2. /\ TypeOK /\ ControlOf(r) /\ CourseOf(r)
      /\ pc \in [Rank -> Pc] /\ step[r] \in Nat /\ iter[r] \in Nat /\ args.iters \in Nat
      /\ Initialized(r) <=> WorldCalls(r) # 0
      /\ WorldCalls(r) \in Nat
      /\ pc[r] \notin Ending => ec[r] = 0
  BY <1>1, CourseFacts
<1>3. /\ step \in [Rank -> 0..LastReduction] /\ iter \in [Rank -> Nat]
      /\ blocked \in [Rank -> Context \cup {"none"}]
  BY <1>2 DEF TypeOK, MpiTypeOK
<1>4. pc[r] = "sample_post" => Initialized(r)
  <2>1. SUFFICES ASSUME pc[r] = "sample_post" PROVE WorldCalls(r) # 0
    BY <1>2
  <2>2. WorldCalls(r) = InitCalls + WorkloadCalls(iter[r] + 1, PerRound)
    BY <1>2, <2>1 DEF CourseOf, OnCourse, Ending
  <2>3. WorkloadCalls(iter[r] + 1, PerRound) \in Nat
    BY <1>2, WorkloadGrows
  <2> QED
    BY <2>2, <2>3 DEF InitCalls
<1>5. pc[r] = "sample_pre" => ~Initialized(r)
  BY <1>2 DEF ControlOf, Early, Initialized
<1>6. pc[r] \notin MpiPc => step[r] = 0 /\ blocked[r] = "none"
  BY <1>1, OutsideMpi
<1> HIDE DEF WorldCalls, Initialized
<1>7. ASSUME NEW where, Returns(r, where)
      PROVE  /\ pc[r] = where /\ blocked[r] # "none" /\ blocked'[r] = "none"
             /\ 0 < step[r] /\ step[r] <= CallsIn(where)
             /\ pc[r] \in MpiPc
  BY <1>2, <1>3, <1>7 DEF Returns, MayReturn, Leave, ControlOf, Counting
<1>8. ASSUME NEW where, Proceed(r, where)
      PROVE  pc'[r] = where /\ step'[r] = 0
  BY <1>2, <1>3, <1>8 DEF Proceed, Goto, LastReduction
<1>9. ASSUME NEW where, Goto(r, where)
      PROVE  pc'[r] = where
  BY <1>2, <1>9 DEF Goto
<1>10. ASSUME Fail(r)
       PROVE  pc'[r] \in {"free_smp", "exited"}
  BY <1>9, <1>10 DEF Fail
<1>11. ASSUME NEW from, NEW to, Returns(r, from), Proceed(r, to), Follows(from, to),
              iter' = iter, CallsIn(from) = 1
       PROVE  ComesBack(r)
  <2>1. step[r] = CallsIn(pc[r])
    BY <1>2, <1>7, <1>11
  <2> QED
    BY <1>7, <1>8, <1>11, <2>1 DEF ComesBack
<1>12. \A p \in MpiPc \ {"work", "node_mma", "global_mma"} : CallsIn(p) = 1
  BY DEF CallsIn
<1>13. CASE Setup(r)
  BY <1>6, <1>9, <1>13 DEF Setup, Works, GivesUp, Ending, MpiPc
<1>14. CASE SetupFails(r)
  BY <1>6, <1>10, <1>14 DEF SetupFails, GivesUp, Ending, MpiPc
<1>15. CASE TakeSample(r)
  <2>1. /\ pc[r] \in {"sample_pre", "sample_post"}
        /\ step' = step /\ blocked' = blocked
        /\ iter'[r] = IF iter[r] + 1 = args.iters THEN 0 ELSE iter[r] + 1
        /\ pc'[r] = IF iter[r] + 1 = args.iters
                      THEN IF Initialized(r) THEN "local_mma" ELSE "init"
                      ELSE StartIteration(r, Initialized(r))
    BY <1>3, <1>9, <1>15 DEF TakeSample
  <2> QED
    BY <1>4, <1>5, <1>6, <2>1 DEF Works, MpiPc, StartIteration
<1>16. CASE TakeSampleFails(r)
  BY <1>6, <1>10, <1>16 DEF TakeSampleFails, GivesUp, Ending, MpiPc
<1>17. CASE EnterCall(r)
  <2>1. CallContext(r) # "none"
    BY <1>17 DEF EnterCall, CallContext, WorkContext, MpiPc
  <2> QED
    BY <1>2, <1>3, <1>17, <2>1 DEF EnterCall, Enter, Calls
<1>18. CASE FinishInit(r)
  BY <1>11, <1>12, <1>18 DEF FinishInit, Follows, MpiPc
<1>19. CASE FinishSplitSmp(r)
  BY <1>11, <1>12, <1>19 DEF FinishSplitSmp, Follows, MpiPc
<1>20. CASE FinishSplitWorker(r)
  BY <1>11, <1>12, <1>20 DEF FinishSplitWorker, Follows, MpiPc
<1>21. CASE FinishNumNodes(r)
  BY <1>11, <1>12, <1>21 DEF FinishNumNodes, Follows, MpiPc
<1>22. CASE FinishVerify(r)
  <2>1. Returns(r, "verify") /\ iter' = iter
    BY <1>22 DEF FinishVerify
  <2>2. CASE SizesDiffer(r)
    <3>1. Proceed(r, "free_smp")
      BY <1>22, <2>2 DEF FinishVerify, PpnDiffers
    <3> QED
      BY <1>7, <1>8, <2>1, <3>1 DEF GivesUp, Ending
  <2>3. CASE ~SizesDiffer(r)
    <3>1. Proceed(r, StartIteration(r, TRUE))
      BY <1>22, <2>3 DEF FinishVerify, PpnAgrees
    <3>2. Follows("verify", StartIteration(r, TRUE))
      BY DEF Follows, StartIteration
    <3> QED
      BY <1>11, <1>12, <2>1, <3>1, <3>2 DEF MpiPc
  <2> QED
    BY <2>2, <2>3
<1>23. CASE FinishWork(r)
  <2>1. Returns(r, "work") /\ iter' = iter
    BY <1>23 DEF FinishWork
  <2>2. CASE InvalidResult(r)
    <3>1. Fail(r) /\ step'[r] = 0
      BY <1>3, <1>23, <2>2 DEF FinishWork, LastReduction
    <3> QED
      BY <1>7, <1>10, <2>1, <3>1 DEF GivesUp, Ending
  <2>3. CASE ~InvalidResult(r) /\ step[r] = LastWork
    <3>1. Proceed(r, "sample_post")
      BY <1>23, <2>3 DEF FinishWork
    <3> QED
      BY <1>7, <1>8, <2>1, <2>3, <3>1 DEF ComesBack, Follows, CallsIn
  <2>4. CASE ~InvalidResult(r) /\ step[r] # LastWork
    <3>1. UNCHANGED <<pc, step>>
      BY <1>23, <2>4 DEF FinishWork
    <3>2. step[r] < CallsIn(pc[r])
      BY <1>2, <1>7, <2>1, <2>4 DEF CallsIn, LastWork
    <3> QED
      BY <1>7, <2>1, <3>1, <3>2 DEF ComesBack
  <2> QED
    BY <2>2, <2>3, <2>4
<1>24. CASE WorkFails(r)
  <2>1. step'[r] = 0 /\ blocked'[r] = "none" /\ iter' = iter /\ pc[r] = "work" /\ Fail(r)
    BY <1>3, <1>24 DEF WorkFails, LastReduction
  <2> QED
    BY <1>10, <2>1 DEF GivesUp, Ending
<1>25. CASE LocalMmas(r)
  <2>1. step'[r] = 0 /\ blocked' = blocked /\ iter' = iter /\ pc[r] = "local_mma" /\ pc'[r] = "node_mma"
    BY <1>8, <1>25 DEF LocalMmas
  <2> QED
    BY <1>6, <2>1 DEF Works, MpiPc
<1>26. CASE FinishNodeMma(r)
  <2>1. Returns(r, "node_mma") /\ iter' = iter
    BY <1>26 DEF FinishNodeMma
  <2>2. CASE step[r] = LastReduction
    BY <1>7, <1>8, <1>26, <2>1, <2>2 DEF FinishNodeMma, ComesBack, Follows, CallsIn
  <2>3. CASE step[r] # LastReduction
    <3>1. step[r] < CallsIn(pc[r])
      BY <1>2, <1>7, <2>1, <2>3 DEF CallsIn, LastReduction
    <3> QED
      BY <1>7, <1>26, <2>1, <2>3, <3>1 DEF FinishNodeMma, ComesBack
  <2> QED
    BY <2>2, <2>3
<1>27. CASE FinishGlobalMma(r)
  <2>1. Returns(r, "global_mma") /\ iter' = iter
    BY <1>27 DEF FinishGlobalMma
  <2>2. CASE step[r] = LastReduction
    BY <1>7, <1>8, <1>27, <2>1, <2>2 DEF FinishGlobalMma, ComesBack, Follows, CallsIn
  <2>3. CASE step[r] # LastReduction
    <3>1. step[r] < CallsIn(pc[r])
      BY <1>2, <1>7, <2>1, <2>3 DEF CallsIn, LastReduction
    <3> QED
      BY <1>7, <1>27, <2>1, <2>3, <3>1 DEF FinishGlobalMma, ComesBack
  <2> QED
    BY <2>2, <2>3
<1>28. CASE UsageFails(r)
  <2>1. pc[r] \in {"local_mma", "node_mma", "global_mma"} /\ step[r] = 0 /\ blocked[r] = "none"
    BY <1>2, <1>6, <1>28 DEF UsageFails, ControlOf, Counting, MpiPc
  <2> QED
    BY <1>10, <1>28, <2>1 DEF UsageFails, GivesUp, Ending
<1>29. CASE FinishFreeSmp(r)
  BY <1>11, <1>12, <1>29 DEF FinishFreeSmp, Follows, MpiPc
<1>30. CASE FinishFreeWorker(r)
  BY <1>11, <1>12, <1>30 DEF FinishFreeWorker, Follows, MpiPc
<1>31. CASE FinishFinalize(r)
  BY <1>11, <1>12, <1>31 DEF FinishFinalize, Follows, MpiPc
<1> QED
  BY <1>13, <1>14, <1>15, <1>16, <1>17, <1>18, <1>19, <1>20, <1>21, <1>22, <1>23, <1>24,
     <1>25, <1>26, <1>27, <1>28, <1>29, <1>30, <1>31 DEF Run, Failure, Return

-----------------------------------------------------------------------------
(* The steps left at each place. *)

Ladder(n, rounds) ==
  /\ StepsFrom("exited", rounds) = 0
  /\ StepsFrom("finalize", rounds) = 2
  /\ StepsFrom("free_worker", rounds) = 4
  /\ StepsFrom("free_smp", rounds) = 6
  /\ StepsFrom("global_mma", rounds) = 30
  /\ StepsFrom("node_mma", rounds) = 54
  /\ StepsFrom("local_mma", rounds) = 55
  /\ StepsFrom("sample_post", rounds) = 35 + 21 * rounds
  /\ StepsFrom("work", rounds) = 55 + 21 * rounds
  /\ StepsFrom("verify", rounds) = 57 + 21 * n
  /\ StepsFrom("num_nodes", rounds) = 59 + 21 * n
  /\ StepsFrom("split_worker", rounds) = 61 + 21 * n
  /\ StepsFrom("split_smp", rounds) = 63 + 21 * n
  /\ StepsFrom("init", rounds) = 65 + 21 * n
  /\ StepsFrom("sample_pre", rounds) = 65 + 21 * n + rounds
  /\ StepsFrom("setup", rounds) = 66 + 22 * n

LEMMA StepsByPlace ==
  ASSUME NEW rounds \in Int, args.iters \in Nat
  PROVE  Ladder(args.iters, rounds)
BY DEF Ladder, StepsFrom, UsageSteps, ReductionSteps, EndSteps, SampleSteps, LastReduction, LastWork

LEMMA CallsByPlace ==
  /\ CallsIn("work") = 10 /\ CallsIn("node_mma") = 12 /\ CallsIn("global_mma") = 12
  /\ \A p \in MpiPc \ {"work", "node_mma", "global_mma"} : CallsIn(p) = 1
  /\ \A p \in Pc \ MpiPc : CallsIn(p) = 0
BY DEF CallsIn, LastWork, LastReduction, MpiPc, Pc

(* There are always enough steps left to leave the function one is in.     *)
LEMMA StepsLeftIsNat ==
  ASSUME TypeInv, NEW r \in Rank
  PROVE  StepsLeft(r) \in Nat /\ (pc[r] \notin Ending => StepsLeft(r) > 6)
<1>1. /\ TypeOK /\ ControlOf(r) /\ pc[r] \in Pc /\ step[r] \in Nat /\ iter[r] \in Nat
      /\ args.iters \in Nat
      /\ step[r] <= CallsIn(pc[r])
      /\ blocked[r] # "none" => pc[r] \in MpiPc /\ step[r] > 0
      /\ blocked[r] = "none" => step[r] = 0 \/ step[r] < CallsIn(pc[r])
  <2>1. TypeOK /\ ControlOf(r) /\ args.iters \in Nat
    BY ItersIsNat DEF TypeInv, Control
  <2>2. pc[r] \in Pc /\ step[r] \in Nat /\ iter[r] \in Nat
    BY <2>1 DEF TypeOK
  <2> QED
    BY <2>1, <2>2 DEF ControlOf, Counting
<1>2. pc[r] \notin {"setup", "exited"} => iter[r] < args.iters
  BY <1>1 DEF TypeOK, ControlOf, HasSamples
<1> DEFINE rounds == args.iters - iter[r]
<1>3. /\ rounds \in Int
      /\ pc[r] \notin {"setup", "exited"} => rounds >= 1
  BY <1>1, <1>2
<1>4. /\ StepsMade(r) \in Int /\ StepsMade(r) >= 0 /\ StepsMade(r) <= 2 * CallsIn(pc[r])
      /\ pc[r] \notin MpiPc => StepsMade(r) = 0
      /\ pc[r] \in MpiPc => StepsMade(r) < 2 * CallsIn(pc[r])
  <2>1. pc[r] \in MpiPc => CallsIn(pc[r]) > 0
    BY CallsByPlace
  <2> QED
    BY <1>1, <2>1, CallsByPlace DEF StepsMade
<1>5. StepsLeft(r) = StepsFrom(pc[r], rounds) - StepsMade(r)
  BY DEF StepsLeft
<1> HIDE DEF rounds
<1> DEFINE n == args.iters
<1>6. n \in Nat /\ Ladder(n, rounds)
  BY <1>1, <1>3, StepsByPlace
<1> HIDE DEF n
<1>7. CASE pc[r] \in MpiPc
  <2>1. CASE pc[r] \in {"work", "node_mma", "global_mma"}
    BY <1>3, <1>4, <1>5, <1>6, <2>1, CallsByPlace DEF Ladder, Ending
  <2>2. CASE pc[r] \notin {"work", "node_mma", "global_mma"}
    <3>1. StepsMade(r) <= 2
      BY <1>4, <1>7, <2>2, CallsByPlace
    <3> QED
      BY <1>3, <1>4, <1>5, <1>6, <1>7, <2>2, <3>1 DEF Ladder, MpiPc, Ending
  <2> QED
    BY <2>1, <2>2
<1>8. CASE pc[r] \notin MpiPc
  BY <1>1, <1>3, <1>4, <1>5, <1>6, <1>8 DEF Ladder, MpiPc, Pc, Ending
<1> QED
  BY <1>7, <1>8

(* A step uses up one of them, or more.                                    *)
LEMMA StepUsesUp ==
  ASSUME CourseInv, NEW r \in Rank, Run(r) \/ Failure(r)
  PROVE  StepsLeft(r)' < StepsLeft(r)
<1>1. pc[r] # "exited" /\ TypeInv /\ TypeOK /\ args' = args
  BY StepKinds, OthersStay DEF CourseInv, TypeInv
<1>2. /\ pc[r] \in Pc /\ step[r] \in Nat /\ iter[r] \in Nat /\ args.iters \in Nat
      /\ pc[r] # "setup" => iter[r] < args.iters
      /\ pc[r] = "setup" => iter[r] = 0
  BY <1>1, CourseFacts DEF CourseOf, Rounds, TypeOK
<1>3. iter'[r] \in Nat
  BY <1>2, StepGoes DEF Calls, ComesBack, Works, GivesUp
<1> DEFINE n == args.iters
           rounds == args.iters - iter[r]
           later == args.iters - iter'[r]
<1>4. /\ StepsLeft(r) = StepsFrom(pc[r], rounds) - StepsMade(r)
      /\ StepsLeft(r)' = StepsFrom(pc'[r], later) - StepsMade(r)'
  BY <1>1 DEF StepsLeft, StepsFrom
<1>5. /\ n \in Nat /\ rounds \in Int /\ rounds <= n
      /\ pc[r] # "setup" => rounds >= 1
      /\ iter'[r] = iter[r] => later = rounds
      /\ iter'[r] = 0 => later = n
      /\ iter'[r] = iter[r] + 1 => later = rounds - 1
      /\ iter[r] + 1 = args.iters <=> rounds = 1
  BY <1>2
<1>6. /\ blocked[r] = "none" => StepsMade(r) = 2 * step[r]
      /\ blocked[r] # "none" => StepsMade(r) = 2 * step[r] - 1
      /\ blocked'[r] = "none" => StepsMade(r)' = 2 * step'[r]
      /\ blocked'[r] # "none" => StepsMade(r)' = 2 * step'[r] - 1
  BY DEF StepsMade
<1> DEFINE made == StepsMade(r)
           after == StepsMade(r)'
<1>7. Ladder(n, rounds) /\ Ladder(n, later)
  <2>1. rounds \in Int /\ later \in Int
    BY <1>2, <1>3
  <2> QED
    BY <1>2, <2>1, StepsByPlace
<1> HIDE DEF n, rounds, later, made, after
<1>8. CASE Calls(r)
  <2>1. later = rounds /\ pc'[r] = pc[r] /\ made = 2 * step[r] /\ after = 2 * (step[r] + 1) - 1
    BY <1>5, <1>6, <1>8 DEF Calls, made, after
  <2>2. StepsFrom(pc[r], rounds) \in Int
    BY <1>2, <1>5, <1>7 DEF Ladder, Pc, MpiPc
  <2> QED
    BY <1>2, <1>4, <2>1, <2>2 DEF made, after
<1>9. CASE ComesBack(r) /\ pc'[r] = pc[r] /\ step'[r] = step[r]
  <2>1. later = rounds /\ made = 2 * step[r] - 1 /\ after = 2 * step[r]
    BY <1>5, <1>6, <1>9 DEF ComesBack, made, after
  <2>2. StepsFrom(pc[r], rounds) \in Int
    BY <1>2, <1>5, <1>7 DEF Ladder, Pc, MpiPc
  <2> QED
    BY <1>2, <1>4, <1>9, <2>1, <2>2 DEF made, after
<1>10. CASE /\ ComesBack(r) /\ step[r] = CallsIn(pc[r]) /\ step'[r] = 0
           /\ Follows(pc[r], pc'[r])
  <2>1. later = rounds /\ made = 2 * CallsIn(pc[r]) - 1 /\ after = 0
    BY <1>5, <1>6, <1>10 DEF ComesBack, made, after
  <2>2. StepsFrom(pc'[r], later) < StepsFrom(pc[r], rounds) - made
    BY <1>1, <1>2, <1>5, <1>10, <2>1, <1>7, CallsByPlace DEF Ladder, Follows, MpiPc
  <2>3. StepsFrom(pc'[r], later) \in Int
    BY <1>2, <1>5, <1>10, <2>1, <1>7 DEF Ladder, Follows
  <2> QED
    BY <1>4, <2>1, <2>2, <2>3 DEF made, after
<1>11. CASE Works(r)
  <2>1. made = 0 /\ after = 0
    BY <1>6, <1>11 DEF Works, made, after
  <2>2. StepsFrom(pc'[r], later) < StepsFrom(pc[r], rounds)
    BY <1>2, <1>5, <1>11, <1>7 DEF Ladder, Works
  <2>3. StepsFrom(pc'[r], later) \in Int /\ StepsFrom(pc[r], rounds) \in Int
    BY <1>2, <1>5, <1>11, <1>7 DEF Ladder, Works
  <2> QED
    BY <1>4, <2>1, <2>2, <2>3 DEF made, after
<1>12. CASE GivesUp(r)
  <2>1. after = 0 /\ later = rounds
    BY <1>5, <1>6, <1>12 DEF GivesUp, after
  <2>2. StepsFrom(pc'[r], later) \in 0..6
    BY <1>2, <1>5, <1>12, <2>1, <1>7 DEF Ladder, GivesUp
  <2>3. StepsLeft(r) > 6 /\ StepsLeft(r) \in Nat
    BY <1>1, <1>12, StepsLeftIsNat DEF GivesUp
  <2> QED
    BY <1>4, <2>1, <2>2, <2>3 DEF after
<1> QED
  BY <1>8, <1>9, <1>10, <1>11, <1>12, StepGoes DEF ComesBack

LEMMA OneStepLess ==
  ASSUME CourseInv, \A r \in Rank : StepsLeft(r)' >= 0, Next
  PROVE  \E r \in Rank :
           /\ StepsLeft(r)' < StepsLeft(r) /\ StepsLeft(r)' >= 0
           /\ \A s \in Rank \ {r} : StepsLeft(s)' = StepsLeft(s)
<1>1. PICK r \in Rank : Run(r) \/ Failure(r)
  BY DEF Next
<1>2. args' = args /\ \A s \in Rank \ {r} : Same(s) /\ iter'[s] = iter[s]
  BY <1>1, OthersStay, OthersKeep DEF CourseInv, TypeInv, SameData
<1>3. \A s \in Rank \ {r} : StepsLeft(s)' = StepsLeft(s)
  BY <1>2 DEF StepsLeft, StepsFrom, StepsMade, Same
<1> QED
  BY <1>1, <1>3, StepUsesUp

(* Whatever fails, wherever the processes are and however MPI lets calls   *)
(* return: a job makes a bounded number of steps, no loop of main, of      *)
(* sample or of mmu_mpi_work goes on for ever.                             *)
THEOREM JobRunsOut == Spec => StepsRunOut
<1>1. CourseInv => \A r \in Rank : StepsLeft(r) >= 0
  BY StepsLeftIsNat DEF CourseInv
<1>2. ASSUME CourseInv, (\A r \in Rank : StepsLeft(r) >= 0)', [Next]_vars
      PROVE  [\E r \in Rank :
                /\ StepsLeft(r)' < StepsLeft(r) /\ StepsLeft(r)' >= 0
                /\ \A s \in Rank \ {r} : StepsLeft(s)' = StepsLeft(s)]_vars
  BY <1>2, OneStepLess
<1> QED
  BY <1>1, <1>2, InitCourseInv, StepCourseInv, PTL DEF Spec, StepsRunOut

(***************************************************************************)
(* No process waits for ever in a job without faults.  The script of a job *)
(* is one sequence: the n-th MPI call of every process is made in the same *)
(* context, so that whoever has entered the fewest calls of all is ahead   *)
(* of nobody in any context, and what it waits for is there.               *)
(***************************************************************************)

(* The calls before the reductions of the nodes, and those of a node.      *)
CallsToReduce == InitCalls + (IF EvenPlacement /\ args.work THEN LastWork * args.iters ELSE 0)
Reductions == IF EvenPlacement THEN LastReduction ELSE 0

(* How many calls a process without faults has entered by this place.      *)
Entered(r) ==
  IF pc[r] \in {"setup", "sample_pre"} THEN 0
  ELSE IF pc[r] \in InitPc THEN CallsBefore(pc[r]) + step[r]
  ELSE IF pc[r] = "work" THEN InitCalls + LastWork * iter[r] + step[r]
  ELSE IF pc[r] = "sample_post"
    THEN InitCalls + (IF args.work THEN LastWork * (iter[r] + 1) ELSE 0)
  ELSE IF pc[r] = "local_mma" THEN CallsToReduce
  ELSE IF pc[r] = "node_mma" THEN CallsToReduce + step[r]
  ELSE IF pc[r] = "global_mma" THEN CallsToReduce + LastReduction + step[r]
  ELSE CallsToReduce + 2 * Reductions +
         (IF pc[r] = "free_smp" THEN step[r]
          ELSE IF pc[r] = "free_worker" THEN 1 + step[r]
          ELSE IF pc[r] = "finalize" THEN 2 + step[r]
          ELSE 3)

(* The context of the n-th.                                                *)
ContextAt(n) ==
  IF n <= InitCalls THEN "world"
  ELSE IF n <= CallsToReduce THEN WorkContext(((n - InitCalls - 1) % LastWork) + 1)
  ELSE IF n <= CallsToReduce + Reductions THEN "smp"
  ELSE IF n <= CallsToReduce + 2 * Reductions THEN "world"
  ELSE IF n = CallsToReduce + 2 * Reductions + 1 THEN "smp"
  ELSE IF n = CallsToReduce + 2 * Reductions + 2 THEN "worker"
  ELSE "world"

(* How many of the first n calls are made in this one.                     *)
CallsAmong(n, c) == Cardinality({k \in 1..n : ContextAt(k) = c})

Paced(r) == HasRun => \A c \in Context : Len(log[r][c]) = CallsAmong(Entered(r), c)

(* A process in a call has made one, and only the first tells the outcome. *)
InACall(r) == blocked[r] # "none" => Len(log[r][blocked[r]]) > 0

Tells(r) ==
  \A what \in {"report", "ppn_differs"} :
    what \in said[r] <=> r = 0 /\ pc[r] \in Ending /\ what = Outcome

PaceInv ==
  /\ ScriptInv
  /\ TrafficInv
  /\ \A r \in Rank : Paced(r) /\ InACall(r) /\ Tells(r)

LEMMA CallsToReduceIsNat ==
  ASSUME TypeOK
  PROVE  /\ CallsToReduce \in Nat /\ InitCalls <= CallsToReduce
         /\ EvenPlacement /\ args.work => CallsToReduce = 5 + 10 * args.iters
         /\ ~(EvenPlacement /\ args.work) => CallsToReduce = 5
         /\ EvenPlacement => Reductions = 12
         /\ ~EvenPlacement => Reductions = 0
<1>1. args.iters \in Nat
  BY ItersIsNat
<1> HIDE DEF EvenPlacement
<1> QED
  BY <1>1 DEF CallsToReduce, Reductions, InitCalls, LastWork, LastReduction

(* What is known of a process at the places of a job without faults.       *)
LEMMA PlaceFacts ==
  ASSUME ScriptInv, NEW r \in Rank
  PROVE  /\ step[r] \in Nat /\ iter[r] \in Nat /\ args.iters \in Nat
         /\ step[r] <= CallsIn(pc[r])
         /\ blocked[r] = "none" => step[r] = 0 \/ step[r] < CallsIn(pc[r])
         /\ pc[r] \notin {"setup", "exited"} => iter[r] < args.iters
         /\ pc[r] \in {"setup"} \cup InitPc => iter[r] = 0
         /\ pc[r] = "work" => args.work
         /\ pc[r] \in Measuring => EvenPlacement
         /\ pc[r] \notin {"setup", "exited"} => HasRun
         /\ pc[r] \in Pc /\ TypeOK /\ TypeInv
<1>1. /\ TypeOK /\ ControlOf(r) /\ CourseOf(r) /\ TypeInv
  BY DEF ScriptInv, GateInv, TypeInv, Control, CourseInv
<1>2. /\ step[r] \in Nat /\ iter[r] \in Nat /\ args.iters \in Nat /\ pc[r] \in Pc
      /\ step[r] <= CallsIn(pc[r])
      /\ blocked[r] = "none" => step[r] = 0 \/ step[r] < CallsIn(pc[r])
  BY <1>1, ItersIsNat DEF TypeOK, ControlOf, Counting
<1>3. pc[r] \notin {"setup", "exited"} => iter[r] < args.iters /\ HasRun
  BY <1>1, <1>2 DEF TypeOK, ControlOf, HasSamples, CourseOf, Rounds, HasRun
<1>4. pc[r] \in Measuring => EvenPlacement
  BY DEF ScriptInv, GateInv, PpnGate, EvenPlacement
<1> QED
  BY <1>1, <1>2, <1>3, <1>4 DEF CourseOf, Rounds

(* The next call of a process is made where the script says.               *)
LEMMA NextIsInPlace ==
  ASSUME ScriptInv, NEW r \in Rank, pc[r] \in MpiPc, blocked[r] = "none"
  PROVE  Entered(r) \in Nat /\ CallContext(r) = ContextAt(Entered(r) + 1)
<1>1. /\ step[r] \in Nat /\ iter[r] \in Nat /\ args.iters \in Nat
      /\ step[r] = 0 \/ step[r] < CallsIn(pc[r])
      /\ iter[r] < args.iters
      /\ pc[r] \in InitPc => iter[r] = 0
      /\ pc[r] = "work" => args.work
      /\ pc[r] \in Measuring => EvenPlacement
      /\ TypeOK
  BY PlaceFacts DEF MpiPc
<1> DEFINE M == CallsToReduce
           R == Reductions
<1>2. /\ M \in Nat /\ 5 <= M /\ R \in Nat
      /\ EvenPlacement /\ args.work => M = 5 + 10 * args.iters
      /\ ~(EvenPlacement /\ args.work) => M = 5
      /\ EvenPlacement => R = 12
      /\ ~EvenPlacement => R = 0
  BY <1>1, CallsToReduceIsNat DEF InitCalls
<1> HIDE DEF EvenPlacement, M, R
<1>3. ASSUME NEW n \in Nat
      PROVE  /\ n <= 5 => ContextAt(n) = "world"
             /\ n > 5 /\ n <= M => ContextAt(n) = WorkContext(((n - 6) % 10) + 1)
             /\ n > M /\ n <= M + R => ContextAt(n) = "smp"
             /\ n > M + R /\ n <= M + 2 * R => ContextAt(n) = "world"
             /\ n = M + 2 * R + 1 => ContextAt(n) = "smp"
             /\ n = M + 2 * R + 2 => ContextAt(n) = "worker"
             /\ n = M + 2 * R + 3 => ContextAt(n) = "world"
  <2>1. n - InitCalls - 1 = n - 6 /\ InitCalls = 5 /\ LastWork = 10
    BY DEF InitCalls, LastWork
  <2>2. ContextAt(n) =
          IF n <= 5 THEN "world"
          ELSE IF n <= M THEN WorkContext(((n - 6) % 10) + 1)
          ELSE IF n <= M + R THEN "smp"
          ELSE IF n <= M + 2 * R THEN "world"
          ELSE IF n = M + 2 * R + 1 THEN "smp"
          ELSE IF n = M + 2 * R + 2 THEN "worker"
          ELSE "world"
    BY <2>1 DEF ContextAt, M, R
  <2> QED
    BY <1>2, <2>2
<1>4. CASE pc[r] \in InitPc
  <2>1. step[r] = 0 /\ CallContext(r) = "world"
    BY <1>1, <1>4 DEF CallsIn, InitPc, MpiPc, CallContext
  <2>2. Entered(r) \in 0..4
    BY <1>4, <2>1 DEF Entered, InitPc, CallsBefore
  <2>3. Entered(r) + 1 \in Nat /\ Entered(r) + 1 <= 5
    BY <2>2
  <2> QED
    BY <1>3, <2>1, <2>2, <2>3
<1>5. CASE pc[r] = "work"
  <2>1. step[r] < 10 /\ args.work /\ M = 5 + 10 * args.iters
    BY <1>1, <1>2, <1>5 DEF CallsIn, LastWork, Measuring
  <2>2. Entered(r) = 5 + 10 * iter[r] + step[r]
    BY <1>5 DEF Entered, InitPc, InitCalls, LastWork
  <2> DEFINE n == Entered(r) + 1
  <2>3. /\ n \in Nat /\ n > 5 /\ n <= M /\ n - 6 = 10 * iter[r] + step[r]
    BY <1>1, <2>1, <2>2
  <2>4. (n - 6) % 10 = step[r]
    <3> HIDE DEF n
    <3> QED
      BY <1>1, <2>1, <2>3
  <2>5. ContextAt(n) = WorkContext(step[r] + 1)
    <3> HIDE DEF n
    <3> QED
      BY <1>3, <2>3, <2>4
  <2> QED
    BY <1>1, <1>5, <2>2, <2>5 DEF CallContext
<1>6. CASE pc[r] \in {"node_mma", "global_mma"}
  <2>1. step[r] < 12 /\ R = 12
    BY <1>1, <1>2, <1>6 DEF CallsIn, LastReduction, Measuring
  <2>2. /\ pc[r] = "node_mma" => Entered(r) = M + step[r] /\ CallContext(r) = "smp"
        /\ pc[r] = "global_mma" => Entered(r) = M + 12 + step[r] /\ CallContext(r) = "world"
    BY <1>6 DEF Entered, InitPc, LastReduction, CallContext, M
  <2>3. Entered(r) \in Nat /\ Entered(r) + 1 \in Nat
    BY <1>1, <1>2, <1>6, <2>2
  <2> HIDE DEF Entered
  <2> QED
    BY <1>1, <1>2, <1>3, <1>6, <2>1, <2>2, <2>3
<1>7. CASE pc[r] \in {"free_smp", "free_worker", "finalize"}
  <2>1. step[r] = 0
    BY <1>1, <1>7 DEF CallsIn, MpiPc
  <2>2. /\ pc[r] = "free_smp" => Entered(r) = M + 2 * R + 0 /\ CallContext(r) = "smp"
        /\ pc[r] = "free_worker" => Entered(r) = M + 2 * R + 1 /\ CallContext(r) = "worker"
        /\ pc[r] = "finalize" => Entered(r) = M + 2 * R + 2 /\ CallContext(r) = "world"
    BY <1>7, <2>1 DEF Entered, InitPc, CallContext, M, R
  <2>3. Entered(r) \in Nat /\ Entered(r) + 1 \in Nat
    BY <1>2, <1>7, <2>2
  <2> HIDE DEF Entered
  <2> QED
    BY <1>2, <1>3, <1>7, <2>2, <2>3
<1> QED
  BY <1>4, <1>5, <1>6, <1>7 DEF MpiPc, InitPc

LEMMA CallsAmongGrow ==
  /\ \A n \in Nat : \A c : CallsAmong(n, c) \in Nat
  /\ \A m, n \in Nat : \A c : m <= n => CallsAmong(m, c) <= CallsAmong(n, c)
  /\ \A n \in Nat : \A c :
       CallsAmong(n + 1, c) = CallsAmong(n, c) + (IF ContextAt(n + 1) = c THEN 1 ELSE 0)
  /\ \A c : CallsAmong(0, c) = 0
<1> DEFINE Upto(n, c) == {k \in 1..n : ContextAt(k) = c}
<1>1. ASSUME NEW n \in Nat, NEW c
      PROVE  IsFiniteSet(Upto(n, c)) /\ Cardinality(Upto(n, c)) \in Nat
  <2>1. IsFiniteSet(1..n)
    BY FS_Interval
  <2>2. Upto(n, c) \subseteq 1..n
    OBVIOUS
  <2>3. IsFiniteSet(Upto(n, c))
    BY <2>1, <2>2, FS_Subset, Zenon
  <2> QED
    BY <2>3, FS_CardinalityType
<1>2. ASSUME NEW m \in Nat, NEW n \in Nat, NEW c, m <= n
      PROVE  Cardinality(Upto(m, c)) <= Cardinality(Upto(n, c))
  <2>1. Upto(m, c) \subseteq Upto(n, c)
    BY <1>2
  <2> HIDE DEF Upto
  <2> QED
    BY <1>1, <2>1, FS_Subset
<1>3. ASSUME NEW n \in Nat, NEW c
      PROVE  Cardinality(Upto(n + 1, c)) =
               Cardinality(Upto(n, c)) + (IF ContextAt(n + 1) = c THEN 1 ELSE 0)
  <2>1. ContextAt(n + 1) = c => Upto(n + 1, c) = Upto(n, c) \cup {n + 1}
    OBVIOUS
  <2>2. ContextAt(n + 1) # c => Upto(n + 1, c) = Upto(n, c)
    OBVIOUS
  <2>3. n + 1 \notin Upto(n, c)
    OBVIOUS
  <2> HIDE DEF Upto
  <2>4. Cardinality(Upto(n, c) \cup {n + 1}) = Cardinality(Upto(n, c)) + 1
    BY <1>1, <2>3, FS_AddElement
  <2>5. Cardinality(Upto(n, c)) \in Nat
    BY <1>1
  <2>6. CASE ContextAt(n + 1) = c
    BY <2>1, <2>4, <2>6, Zenon
  <2>7. CASE ContextAt(n + 1) # c
    <3>1. Cardinality(Upto(n + 1, c)) = Cardinality(Upto(n, c))
      BY <2>2, <2>7, Zenon
    <3> QED
      BY <2>5, <2>7, <3>1
  <2> QED
    BY <2>6, <2>7
<1>4. \A c : Cardinality(Upto(0, c)) = 0
  <2>1. \A c : Upto(0, c) = {}
    OBVIOUS
  <2> QED
    BY <2>1, FS_EmptySet
<1> QED
  BY <1>1, <1>2, <1>3, <1>4 DEF CallsAmong

(* The script of a job stays.                                              *)
LEMMA ScriptStays ==
  ASSUME node' = node, args' = args
  PROVE  /\ HasRun' <=> HasRun
         /\ EvenPlacement' <=> EvenPlacement
         /\ CallsToReduce' = CallsToReduce /\ Reductions' = Reductions
         /\ \A n, c : CallsAmong(n, c)' = CallsAmong(n, c)
         /\ Outcome' = Outcome
<1>1. (HasRun' <=> HasRun) /\ (EvenPlacement' <=> EvenPlacement)
  BY DEF HasRun, EvenPlacement, OnNode
<1>2. CallsToReduce' = CallsToReduce /\ Reductions' = Reductions
  BY <1>1 DEF CallsToReduce, Reductions, InitCalls, LastWork, LastReduction
<1>3. \A n : ContextAt(n)' = ContextAt(n)
  BY <1>2 DEF ContextAt, WorkContext, InitCalls, LastWork
<1> QED
  BY <1>1, <1>2, <1>3 DEF CallsAmong, Outcome

(* Whatever is not a call does not change how many have been made.         *)
LEMMA EnteredStays ==
  ASSUME MayFail = {}, ScriptInv, HasRun, NEW r \in Rank, Run(r), ~EnterCall(r), node' = node,
         args' = args
  PROVE  Entered(r)' = Entered(r)
<1>1. /\ step[r] \in Nat /\ iter[r] \in Nat /\ args.iters \in Nat
      /\ step[r] <= CallsIn(pc[r])
      /\ pc[r] \in InitPc => iter[r] = 0
      /\ pc[r] = "work" => args.work
      /\ pc[r] \in Measuring => EvenPlacement
      /\ pc[r] \in Pc /\ TypeOK /\ TypeInv /\ CourseInv
  BY PlaceFacts DEF ScriptInv
<1> DEFINE M == CallsToReduce
           R == Reductions
<1>2. /\ M \in Nat /\ 5 <= M
      /\ EvenPlacement /\ args.work => M = 5 + 10 * args.iters
      /\ ~(EvenPlacement /\ args.work) => M = 5
      /\ EvenPlacement => R = 12
      /\ ~EvenPlacement => R = 0
      /\ M' = M /\ R' = R
  BY <1>1, CallsToReduceIsNat, ScriptStays DEF InitCalls
<1> HIDE DEF EvenPlacement, M, R
<1>3. /\ pc[r] = "setup" \/ pc[r] = "sample_pre" => Entered(r) = 0
      /\ pc[r] = "init" => Entered(r) = 0 + step[r]
      /\ pc[r] = "split_smp" => Entered(r) = 1 + step[r]
      /\ pc[r] = "split_worker" => Entered(r) = 2 + step[r]
      /\ pc[r] = "num_nodes" => Entered(r) = 3 + step[r]
      /\ pc[r] = "verify" => Entered(r) = 4 + step[r]
      /\ pc[r] = "work" => Entered(r) = 5 + 10 * iter[r] + step[r]
      /\ pc[r] = "sample_post" =>
           Entered(r) = 5 + (IF args.work THEN 10 * (iter[r] + 1) ELSE 0)
      /\ pc[r] = "local_mma" => Entered(r) = M
      /\ pc[r] = "node_mma" => Entered(r) = M + step[r]
      /\ pc[r] = "global_mma" => Entered(r) = M + 12 + step[r]
      /\ pc[r] = "free_smp" => Entered(r) = M + 2 * R + step[r]
      /\ pc[r] = "free_worker" => Entered(r) = M + 2 * R + (1 + step[r])
      /\ pc[r] = "finalize" => Entered(r) = M + 2 * R + (2 + step[r])
      /\ pc[r] = "exited" => Entered(r) = M + 2 * R + 3
  BY DEF Entered, InitPc, CallsBefore, InitCalls, LastWork, LastReduction, M, R
<1>4. /\ pc'[r] = "setup" \/ pc'[r] = "sample_pre" => Entered(r)' = 0
      /\ pc'[r] = "init" => Entered(r)' = 0 + step'[r]
      /\ pc'[r] = "split_smp" => Entered(r)' = 1 + step'[r]
      /\ pc'[r] = "split_worker" => Entered(r)' = 2 + step'[r]
      /\ pc'[r] = "num_nodes" => Entered(r)' = 3 + step'[r]
      /\ pc'[r] = "verify" => Entered(r)' = 4 + step'[r]
      /\ pc'[r] = "work" => Entered(r)' = 5 + 10 * iter'[r] + step'[r]
      /\ pc'[r] = "sample_post" =>
           Entered(r)' = 5 + (IF args.work THEN 10 * (iter'[r] + 1) ELSE 0)
      /\ pc'[r] = "local_mma" => Entered(r)' = M
      /\ pc'[r] = "node_mma" => Entered(r)' = M + step'[r]
      /\ pc'[r] = "global_mma" => Entered(r)' = M + 12 + step'[r]
      /\ pc'[r] = "free_smp" => Entered(r)' = M + 2 * R + step'[r]
      /\ pc'[r] = "free_worker" => Entered(r)' = M + 2 * R + (1 + step'[r])
      /\ pc'[r] = "finalize" => Entered(r)' = M + 2 * R + (2 + step'[r])
      /\ pc'[r] = "exited" => Entered(r)' = M + 2 * R + 3
  BY <1>2 DEF Entered, InitPc, CallsBefore, InitCalls, LastWork, LastReduction, M, R
<1> HIDE DEF Entered
<1>5. ~Calls(r)
  BY <1>1, StepEffects DEF Calls
<1>6. CASE ComesBack(r) /\ pc'[r] = pc[r] /\ step'[r] = step[r]
  <2>1. iter'[r] = iter[r]
    BY <1>6 DEF ComesBack
  <2> QED
    BY <1>1, <1>3, <1>4, <1>6, <2>1 DEF Pc, MpiPc
<1>7. CASE /\ ComesBack(r) /\ step[r] = CallsIn(pc[r]) /\ step'[r] = 0
           /\ Follows(pc[r], pc'[r])
  <2>1. iter'[r] = iter[r] /\ pc[r] \in MpiPc
    BY <1>7 DEF ComesBack
  <2> QED
    BY <1>1, <1>2, <1>3, <1>4, <1>7, <2>1, CallsByPlace DEF Follows, InitPc, Measuring, MpiPc
<1>8. CASE Works(r)
  BY <1>1, <1>2, <1>3, <1>4, <1>8 DEF Works, Measuring
<1>9. CASE GivesUp(r)
  <2>1. Advances(r) /\ pc[r] \notin Ending /\ pc'[r] \in {"free_smp", "exited"} /\ step'[r] = 0
    BY <1>9, StepAdvances DEF GivesUp
  <2>2. \/ pc[r] = "global_mma" /\ step[r] = 12 /\ pc'[r] = "free_smp"
        \/ pc[r] = "verify" /\ pc'[r] = "free_smp" /\ ~EvenPlacement
    BY <2>1 DEF Advances, LastStages, Ending, LastReduction
  <2>3. pc[r] = "verify" => step[r] = 1
    <3>1. pc[r] = "verify" => step[r] # 0
      BY <1>1, VerifyReturns
    <3>2. pc[r] = "verify" => step[r] <= 1
      BY <1>1, CallsByPlace DEF MpiPc
    <3> QED
      BY <1>1, <3>1, <3>2
  <2> QED
    BY <1>1, <1>2, <1>3, <1>4, <2>1, <2>2, <2>3 DEF Measuring
<1> QED
  BY <1>1, <1>5, <1>6, <1>7, <1>8, <1>9, StepGoes DEF ComesBack

LEMMA EnterPaced ==
  ASSUME ScriptInv, NEW r \in Rank, Paced(r), EnterCall(r), node' = node, args' = args
  PROVE  Paced(r)' /\ InACall(r)'
<1> DEFINE call == NextCall(r)
           here == CallContext(r)
<1>1. /\ pc[r] \in MpiPc /\ blocked[r] = "none" /\ pc' = pc /\ iter' = iter
      /\ step'[r] = step[r] + 1 /\ blocked'[r] = here /\ step[r] \in Nat
      /\ TypeInv /\ TypeOK /\ HasRun
  <2>1. iter' = iter
    BY DEF EnterCall
  <2>2. pc[r] \in MpiPc /\ TypeInv
    BY DEF EnterCall, ScriptInv, GateInv
  <2>3. HasRun /\ step[r] \in Nat
    BY <2>2, PlaceFacts DEF MpiPc
  <2> QED
    BY <2>1, <2>2, <2>3, WorldCallEntered DEF TypeInv
<1>2. call \in Call /\ here \in Context
  BY <1>1, NextCallType
<1>3. \A c \in Context : log[r][c] \in Seq(Call)
  BY <1>1 DEF TypeOK, MpiTypeOK
<1>4. \A c \in Context : log'[r][c] = IF c = here THEN Append(log[r][c], call) ELSE log[r][c]
  BY <1>1, <1>2 DEF TypeOK, MpiTypeOK, EnterCall, Enter
<1>5. Entered(r) \in Nat /\ here = ContextAt(Entered(r) + 1)
  BY <1>1, NextIsInPlace
<1>6. Entered(r)' = Entered(r) + 1
  <2>1. /\ CallsToReduce' = CallsToReduce /\ Reductions' = Reductions
        /\ CallsToReduce \in Nat /\ Reductions \in Nat /\ iter[r] \in Nat
    BY <1>1, ScriptStays, CallsToReduceIsNat DEF TypeOK, Reductions, LastReduction
  <2>2. pc[r] \notin {"setup", "sample_pre", "sample_post", "local_mma", "exited"}
    BY <1>1 DEF MpiPc
  <2>3. CASE pc[r] \in InitPc
    <3>1. CallsBefore(pc[r]) \in Nat
      BY DEF CallsBefore
    <3> HIDE DEF InitPc
    <3> QED
      BY <1>1, <2>2, <2>3, <3>1 DEF Entered, CallsBefore, InitPc
  <2>4. CASE pc[r] \notin InitPc
    <3> HIDE DEF CallsToReduce, Reductions
    <3> QED
      BY <1>1, <2>1, <2>2, <2>4 DEF Entered, MpiPc, InitPc, InitCalls, LastWork, LastReduction
  <2> QED
    BY <2>3, <2>4
<1> HIDE DEF call, here
<1>7. \A c \in Context :
        /\ Len(log'[r][c]) = Len(log[r][c]) + (IF c = here THEN 1 ELSE 0)
        /\ Len(log[r][c]) \in Nat
  <2>1. TAKE c \in Context
  <2>2. log[r][c] \in Seq(Call) /\ Len(log[r][c]) \in Nat
    BY <1>3, LenProperties
  <2>3. Len(Append(log[r][c], call)) = Len(log[r][c]) + 1
    BY <1>2, <2>2, AppendProperties
  <2>4. log'[r][c] = IF c = here THEN Append(log[r][c], call) ELSE log[r][c]
    BY <1>4
  <2>5. CASE c = here
    <3>1. log'[r][c] = Append(log[r][c], call)
      BY <2>4, <2>5
    <3> QED
      BY <2>2, <2>3, <2>5, <3>1
  <2>6. CASE c # here
    <3>1. log'[r][c] = log[r][c]
      BY <2>4, <2>6
    <3> QED
      BY <2>2, <2>6, <3>1
  <2> QED
    BY <2>5, <2>6
<1>8. \A c \in Context : Len(log'[r][c]) = CallsAmong(Entered(r) + 1, c)
  <2>1. \A c \in Context : Len(log[r][c]) = CallsAmong(Entered(r), c)
    BY <1>1 DEF Paced
  <2>2. \A c \in Context : CallsAmong(Entered(r) + 1, c) =
                             CallsAmong(Entered(r), c) + (IF c = here THEN 1 ELSE 0)
    BY <1>5, CallsAmongGrow
  <2> QED
    BY <1>7, <2>1, <2>2
<1>9. Paced(r)'
  BY <1>6, <1>8, ScriptStays DEF Paced
<1>10. InACall(r)'
  <2>1. Len(log'[r][here]) = Len(log[r][here]) + 1 /\ Len(log[r][here]) \in Nat
    BY <1>2, <1>7
  <2>2. Len(log'[r][here]) > 0
    BY <2>1
  <2> QED
    BY <1>1, <2>2 DEF InACall
<1> QED
  BY <1>9, <1>10

(* Who says what: only the verification and the report tell the outcome.   *)
LEMMA StepTells ==
  ASSUME MayFail = {}, ScriptInv, NEW r \in Rank, Tells(r), Run(r), node' = node, args' = args
  PROVE  Tells(r)'
<1> DEFINE Both == {"report", "ppn_differs"}
<1>1. /\ step[r] \in Nat /\ TypeOK
      /\ pc[r] \in Measuring => EvenPlacement
      /\ pc[r] \notin {"setup", "exited"} => HasRun
      /\ said \in [Rank -> SUBSET {"ppn_differs", "settings", "report"}]
      /\ pc \in [Rank -> Pc]
      /\ pc[r] # "exited"
  BY PlaceFacts, StepKinds DEF TypeOK, ScriptInv
<1>2. Outcome' = Outcome
  BY ScriptStays
<1>3. HasRun => Outcome = IF EvenPlacement THEN "report" ELSE "ppn_differs"
  BY DEF Outcome, HasRun
<1>4. ~HasRun => Outcome = "nothing"
  BY DEF Outcome, HasRun
<1> HIDE DEF Outcome, EvenPlacement, HasRun
<1>5. CASE FinishVerify(r)
  <2>1. pc[r] = "verify" /\ (SizesDiffer(r) <=> ~EvenPlacement)
    BY <1>5, VerifyJudges DEF ScriptInv, FinishVerify, Returns
  <2>2. Both \cap said[r] = {}
    BY <1>1, <2>1 DEF Tells, Ending
  <2>3. CASE SizesDiffer(r)
    <3>1. pc'[r] = "free_smp" /\ said'[r] = IF r = 0 THEN said[r] \cup {"ppn_differs"} ELSE said[r]
      BY <1>1, <1>5, <2>3 DEF FinishVerify, PpnDiffers, Proceed, Goto
    <3>2. Outcome = "ppn_differs"
      BY <1>1, <1>3, <2>1, <2>3
    <3> QED
      BY <1>2, <2>2, <3>1, <3>2 DEF Tells, Ending
  <2>4. CASE ~SizesDiffer(r)
    <3>1. /\ pc'[r] \in {"work", "sample_post"}
          /\ said'[r] = IF r = 0 THEN said[r] \cup {"settings"} ELSE said[r]
      BY <1>1, <1>5, <2>4 DEF FinishVerify, PpnAgrees, Proceed, Goto, StartIteration
    <3> QED
      BY <2>2, <3>1 DEF Tells, Ending
  <2> QED
    BY <2>3, <2>4
<1>6. CASE FinishGlobalMma(r)
  <2>1. pc[r] = "global_mma"
    BY <1>6 DEF FinishGlobalMma, Returns
  <2>2. Both \cap said[r] = {} /\ Outcome = "report"
    BY <1>1, <1>3, <2>1 DEF Tells, Ending, Measuring
  <2>3. CASE step[r] = LastReduction
    <3>1. pc'[r] = "free_smp" /\ said'[r] = IF r = 0 THEN said[r] \cup {"report"} ELSE said[r]
      BY <1>1, <1>6, <2>3 DEF FinishGlobalMma, Proceed, Goto
    <3> QED
      BY <1>2, <2>2, <3>1 DEF Tells, Ending
  <2>4. CASE step[r] # LastReduction
    <3>1. pc'[r] = "global_mma" /\ said' = said
      BY <1>6, <2>1, <2>4 DEF FinishGlobalMma
    <3> QED
      BY <2>2, <3>1 DEF Tells, Ending
  <2> QED
    BY <2>3, <2>4
<1>7. CASE ~FinishVerify(r) /\ ~FinishGlobalMma(r)
  <2>1. said' = said
    BY <1>7 DEF Run, Return, Setup, TakeSample, EnterCall, FinishInit, FinishSplitSmp,
       FinishSplitWorker, FinishNumNodes, FinishWork, LocalMmas, FinishNodeMma, FinishFreeSmp,
       FinishFreeWorker, FinishFinalize
  <2>2. CASE pc[r] \in Ending <=> pc'[r] \in Ending
    BY <1>2, <2>1, <2>2 DEF Tells
  <2>3. CASE pc[r] = "setup" /\ ~HasRun
    BY <1>2, <1>4, <2>1, <2>3 DEF Tells, Ending
  <2>4. EnterCall(r) => pc' = pc
    BY DEF EnterCall
  <2>5. pc[r] # "verify" \/ pc'[r] \notin Ending
    <3>1. pc[r] = "verify" => EnterCall(r)
      BY <1>1, <1>7, VerifyReturns DEF TypeInv, ScriptInv, GateInv
    <3> QED
      BY <2>4, <3>1 DEF Ending
  <2>6. pc[r] # "global_mma" \/ pc'[r] \notin Ending
    <3>1. pc[r] = "global_mma" => EnterCall(r)
      BY <1>7
      DEF Run, Return, Returns, Setup, TakeSample, LocalMmas, FinishInit, FinishSplitSmp,
          FinishSplitWorker, FinishNumNodes, FinishVerify, FinishWork, FinishNodeMma,
          FinishFreeSmp, FinishFreeWorker, FinishFinalize
    <3> QED
      BY <2>4, <3>1 DEF Ending
  <2>7. EnterCall(r) \/ Advances(r)
    BY StepAdvances
  <2> QED
    BY <2>2, <2>3, <2>4, <2>5, <2>6, <2>7 DEF Advances, LastStages, Ending
<1> QED
  BY <1>5, <1>6, <1>7

LEMMA InitPaceInv == Init => PaceInv
<1> SUFFICES ASSUME Init PROVE PaceInv
  OBVIOUS
<1>1. ASSUME NEW r \in Rank
      PROVE  Paced(r) /\ InACall(r) /\ Tells(r)
  <2>1. /\ pc[r] = "setup" /\ blocked[r] = "none" /\ said[r] = {}
        /\ \A c \in Context : log[r][c] = << >>
    BY DEF Init, MpiInit
  <2>2. Entered(r) = 0 /\ Len(<< >>) = 0
    BY <2>1 DEF Entered
  <2>3. Paced(r)
    BY <2>1, <2>2, CallsAmongGrow DEF Paced
  <2> QED
    BY <2>1, <2>3 DEF InACall, Tells, Ending
<1> QED
  BY <1>1, InitScriptInv, InitTrafficInv DEF PaceInv

LEMMA StepPaceInv ==
  ASSUME MayFail = {}
  PROVE  PaceInv /\ [Next]_vars => PaceInv'
<1> SUFFICES ASSUME PaceInv, [Next]_vars PROVE PaceInv'
  OBVIOUS
<1>1. /\ ScriptInv' /\ TrafficInv' /\ TypeInv /\ TypeOK /\ ScriptInv
  BY StepScriptInv, StepTrafficInv DEF PaceInv, ScriptInv, GateInv, TypeInv
<1>2. ASSUME args' = args, node' = node, NEW s \in Rank, Same(s), iter'[s] = iter[s],
             said'[s] = said[s]
      PROVE  Paced(s)' /\ InACall(s)' /\ Tells(s)'
  <2>1. Paced(s) /\ InACall(s) /\ Tells(s)
    BY DEF PaceInv
  <2>2. /\ pc'[s] = pc[s] /\ step'[s] = step[s] /\ blocked'[s] = blocked[s] /\ log'[s] = log[s]
    BY <1>2 DEF Same
  <2>3. Entered(s)' = Entered(s)
    BY <1>2, <2>2, ScriptStays
    DEF Entered, InitPc, CallsBefore, InitCalls, LastWork, LastReduction
  <2>4. Paced(s)'
    BY <1>2, <2>1, <2>2, <2>3, ScriptStays DEF Paced
  <2> QED
    BY <1>2, <2>1, <2>2, <2>4, ScriptStays DEF InACall, Tells, Ending
<1>3. CASE UNCHANGED vars
  BY <1>1, <1>2, <1>3 DEF vars, Same, PaceInv
<1>4. CASE Next
  <2>1. PICK r \in Rank : Run(r) \/ Failure(r)
    BY <1>4 DEF Next
  <2>2. ~Failure(r)
    BY DEF Failure, SetupFails, TakeSampleFails, WorkFails, UsageFails
  <2>3. /\ node' = node /\ args' = args
        /\ EnterCall(r) \/ (log' = log /\ blocked'[r] = "none")
    BY <1>1, <2>1, StepEffects, OthersStay
  <2>4. \A s \in Rank \ {r} : Same(s) /\ iter'[s] = iter[s] /\ said'[s] = said[s]
    BY <1>1, <2>1, OthersStay, OthersKeep DEF SameData
  <2>5. Paced(r) /\ InACall(r) /\ Tells(r)
    BY DEF PaceInv
  <2>6. Tells(r)'
    BY <1>1, <2>1, <2>2, <2>3, <2>5, StepTells
  <2>7. Paced(r)' /\ InACall(r)'
    <3>1. CASE EnterCall(r)
      BY <1>1, <2>3, <2>5, <3>1, EnterPaced
    <3>2. CASE ~EnterCall(r)
      <4>1. HasRun => Entered(r)' = Entered(r)
        BY <1>1, <2>1, <2>2, <2>3, <3>2, EnteredStays
      <4>2. Paced(r)'
        BY <2>3, <2>5, <3>2, <4>1, ScriptStays DEF Paced
      <4> QED
        BY <2>3, <3>2, <4>2 DEF InACall
    <3> QED
      BY <3>1, <3>2
  <2> QED
    BY <1>1, <1>2, <2>3, <2>4, <2>6, <2>7 DEF PaceInv
<1> QED
  BY <1>3, <1>4

-----------------------------------------------------------------------------
(* Whoever is behind can go on. *)

LEMMA EnteredIsBounded ==
  ASSUME ScriptInv, HasRun, NEW r \in Rank
  PROVE  /\ Entered(r) \in 0..(CallsToReduce + 2 * Reductions + 3)
         /\ Entered(r) \in Nat /\ CallsToReduce + 2 * Reductions + 3 \in Nat
         /\ \A s \in Rank : pc[s] = "exited" => Entered(r) <= Entered(s)
<1>1. /\ step[r] \in Nat /\ iter[r] \in Nat /\ args.iters \in Nat
      /\ step[r] <= CallsIn(pc[r])
      /\ pc[r] \notin {"setup", "exited"} => iter[r] < args.iters
      /\ pc[r] = "work" => args.work
      /\ pc[r] \in Measuring => EvenPlacement
      /\ pc[r] \in Pc /\ TypeOK
  BY PlaceFacts
<1> DEFINE M == CallsToReduce
           R == Reductions
<1>2. /\ M \in Nat /\ 5 <= M /\ R \in Nat
      /\ EvenPlacement /\ args.work => M = 5 + 10 * args.iters
      /\ EvenPlacement => R = 12
  BY <1>1, CallsToReduceIsNat DEF InitCalls
<1> HIDE DEF EvenPlacement, M, R
<1>3. /\ pc[r] = "setup" \/ pc[r] = "sample_pre" => Entered(r) = 0
      /\ pc[r] = "init" => Entered(r) = 0 + step[r]
      /\ pc[r] = "split_smp" => Entered(r) = 1 + step[r]
      /\ pc[r] = "split_worker" => Entered(r) = 2 + step[r]
      /\ pc[r] = "num_nodes" => Entered(r) = 3 + step[r]
      /\ pc[r] = "verify" => Entered(r) = 4 + step[r]
      /\ pc[r] = "work" => Entered(r) = 5 + 10 * iter[r] + step[r]
      /\ pc[r] = "sample_post" =>
           Entered(r) = 5 + (IF args.work THEN 10 * (iter[r] + 1) ELSE 0)
      /\ pc[r] = "local_mma" => Entered(r) = M
      /\ pc[r] = "node_mma" => Entered(r) = M + step[r]
      /\ pc[r] = "global_mma" => Entered(r) = M + 12 + step[r]
      /\ pc[r] = "free_smp" => Entered(r) = M + 2 * R + step[r]
      /\ pc[r] = "free_worker" => Entered(r) = M + 2 * R + (1 + step[r])
      /\ pc[r] = "finalize" => Entered(r) = M + 2 * R + (2 + step[r])
      /\ pc[r] = "exited" => Entered(r) = M + 2 * R + 3
  BY DEF Entered, InitPc, CallsBefore, InitCalls, LastWork, LastReduction, M, R
<1>4. \A s \in Rank : pc[s] = "exited" => Entered(s) = M + 2 * R + 3
  BY DEF Entered, InitPc, M, R
<1> HIDE DEF Entered
<1>5. Entered(r) \in Nat /\ Entered(r) <= M + 2 * R + 3
  BY <1>1, <1>2, <1>3, CallsByPlace DEF Pc, MpiPc, Measuring
<1> QED
  BY <1>2, <1>4, <1>5 DEF M, R

LEMMA NoMessageOnACommunicator ==
  ASSUME NEW c \in Communicator, NEW n \in Nat \ {0}, Unreduced \in Nat
  PROVE  OpAt(c, n) # "sendrecv"
<1>1. CASE c = "world"
  <2>1. CASE n <= 5
    BY <1>1, <2>1 DEF OpAt, WorldOp, InitOps, InitCalls
  <2>2. CASE n > 5
    <3>1. GlobalReduction(n - Unreduced) # "sendrecv"
      <4>1. \/ (n - Unreduced) % 3 = 0
            \/ (n - Unreduced) % 3 = 1
            \/ (n - Unreduced) % 3 = 2
        <5> HIDE DEF Unreduced
        <5> QED
          OBVIOUS
      <4> QED
        BY <4>1 DEF GlobalReduction
    <3> QED
      BY <1>1, <2>2, <3>1 DEF OpAt, WorldOp, InitCalls
  <2> QED
    BY <2>1, <2>2
<1>2. CASE c = "smp"
  <2>1. NodeReduction(n) # "sendrecv"
    <3>1. n % 3 = 0 \/ n % 3 = 1 \/ n % 3 = 2
      OBVIOUS
    <3> QED
      BY <3>1 DEF NodeReduction
  <2> QED
    BY <1>2, <2>1 DEF OpAt, NodeOp
<1>3. CASE c = "worker"
  BY <1>3 DEF OpAt
<1> QED
  BY <1>1, <1>2, <1>3 DEF Communicator

(* A process that has entered no more calls than any other waits for       *)
(* nobody: its collective is matched, its message is there and its own is  *)
(* expected.                                                               *)
LEMMA BehindCanGoOn ==
  ASSUME PaceInv, HasRun, NEW r \in Rank, pc[r] # "exited",
         \A s \in Rank : Entered(r) <= Entered(s)
  PROVE  CanGoOn(r)
<1>1. /\ TypeOK /\ Unreduced \in Nat /\ Paced(r) /\ InACall(r)
      /\ \A s \in Rank : Entered(s) \in Nat
      /\ blocked[r] \in Context \cup {"none"}
  <2>1. ScriptInv /\ CourseInv /\ Paced(r) /\ InACall(r)
    BY DEF PaceInv, ScriptInv
  <2>2. TypeOK /\ Unreduced \in Nat
    BY <2>1, CourseFacts
  <2> QED
    BY <2>1, <2>2, EnteredIsBounded DEF TypeOK, MpiTypeOK
<1>2. SUFFICES ASSUME blocked[r] # "none"
               PROVE  MustReturn(r)
  BY DEF CanGoOn, Exited
<1> DEFINE c == blocked[r]
           n == Len(log[r][c])
<1>3. c \in Context
  BY <1>1, <1>2
<1> HIDE DEF c, n
<1>4. /\ \A s \in Rank : log[s][c] \in Seq(Call)
      /\ \A s \in Rank : Len(log[s][c]) \in Nat /\ DOMAIN log[s][c] = 1..Len(log[s][c])
  <2>1. \A s \in Rank : log[s][c] \in Seq(Call)
    BY <1>1, <1>3 DEF TypeOK, MpiTypeOK
  <2> QED
    BY <2>1, LenProperties
<1>5. \A s \in Rank : n <= Len(log[s][c])
  <2>1. TAKE s \in Rank
  <2>2. /\ Len(log[s][c]) = CallsAmong(Entered(s), c)
        /\ n = CallsAmong(Entered(r), c)
    BY <1>3 DEF PaceInv, Paced, n
  <2> QED
    BY <1>1, <2>2, CallsAmongGrow
<1>6. n \in Nat \ {0}
  BY <1>1, <1>2, <1>4 DEF InACall, c, n
<1>7. Nth(r) = n /\ Current(r) = log[r][c][n] /\ n \in DOMAIN log[r][c]
  BY <1>4, <1>6 DEF Nth, Current, c, n
<1>8. CASE c \in Communicator
  <2>1. ASSUME NEW s \in comm[r][c]
        PROVE  Matched(r, s)
    <3>1. s \in Rank
      BY <1>1, <1>8 DEF TypeOK, MpiTypeOK
    <3>2. n \in DOMAIN log[s][c] /\ n <= Len(log[s][c])
      BY <1>4, <1>5, <1>6, <3>1
    <3>3. log[s][c][n].op = OpAt(c, n) /\ log[r][c][n].op = OpAt(c, n)
      BY <1>7, <1>8, <3>1, <3>2 DEF PaceInv, ScriptInv, Scripted
    <3> QED
      BY <1>7, <3>2, <3>3 DEF Matched, c
  <2>2. Current(r).op # "sendrecv"
    <3>1. Current(r).op = OpAt(c, n)
      BY <1>7, <1>8 DEF PaceInv, ScriptInv, Scripted
    <3> QED
      BY <1>1, <1>6, <1>8, <3>1, NoMessageOnACommunicator
  <2>3. AllMatched(r)
    BY <2>1 DEF AllMatched, c
  <2> QED
    BY <1>2, <2>2, <2>3 DEF MustReturn, MayReturn
<1>9. CASE c \in {"ring", "exchange"}
  <2> DEFINE call == Current(r)
  <2>1. /\ call.op = "sendrecv" /\ call.to \in Rank /\ call.from \in Rank
    <3>1. call = IF c = "ring" THEN RingCall(r, n) ELSE ExchangeCall(r, n)
      BY <1>7, <1>9 DEF PaceInv, TrafficInv, Traffic
    <3>2. RingCall(r, n).op = "sendrecv" /\ RingCall(r, n).to \in Rank /\ RingCall(r, n).from \in Rank
      BY RingNeighbors DEF RingCall, Sendrecv
    <3>3. /\ ExchangeCall(r, n).op = "sendrecv"
          /\ ExchangeCall(r, n).to \in Rank /\ ExchangeCall(r, n).from \in Rank
      <4> DEFINE i == Distance(Slot(n, 6))
                 group == WorkerGroup(r)
      <4>1. i \in 1..3 /\ group \in SUBSET Rank /\ r \in group
        BY DEF Distance, WorkerGroup
      <4> HIDE DEF i, group
      <4>2. LeftOf(group, r, i) \in Rank /\ RightOf(group, r, i) \in Rank
        BY <4>1, GroupMirrors
      <4> QED
        BY <4>2 DEF ExchangeCall, Sendrecv, i, group
    <3> QED
      BY <3>1, <3>2, <3>3
  <2> HIDE DEF call
  <2>2. ASSUME NEW s \in Rank, NEW k \in 1..n
        PROVE  /\ log[r][c][k].from = s <=> log[s][c][k].to = r
               /\ log[r][c][k].to = s <=> log[s][c][k].from = r
    <3>1. k \in Nat /\ k \in DOMAIN log[r][c] /\ k \in DOMAIN log[s][c]
      BY <1>4, <1>5, <1>6 DEF n
    <3>2. CASE c = "ring"
      <4>1. log[s][c][k] = RingCall(s, k) /\ log[r][c][k] = RingCall(r, k)
        BY <3>1, <3>2 DEF PaceInv, TrafficInv, Traffic
      <4> QED
        BY <4>1, RingCallsMeet
    <3>3. CASE c = "exchange"
      <4>1. log[s][c][k] = ExchangeCall(s, k) /\ log[r][c][k] = ExchangeCall(r, k)
        BY <3>1, <3>3 DEF PaceInv, TrafficInv, Traffic
      <4> QED
        BY <3>1, <4>1, ExchangeCallsMeet
    <3> QED
      BY <1>9, <3>2, <3>3
  <2>3. ASSUME NEW s \in Rank
        PROVE  /\ Cardinality(ReceivesFrom(r, s, c)) <= Cardinality(SendsTo(s, r, c))
               /\ Cardinality(SendsTo(r, s, c)) <= Cardinality(ReceivesFrom(s, r, c))
    <3>1. /\ IsFiniteSet(SendsTo(s, r, c)) /\ IsFiniteSet(ReceivesFrom(s, r, c))
      <4>1. IsFiniteSet(1..Len(log[s][c]))
        BY <1>4, FS_Interval
      <4>2. SendsTo(s, r, c) \subseteq 1..Len(log[s][c]) /\ ReceivesFrom(s, r, c) \subseteq 1..Len(log[s][c])
        BY <1>4 DEF SendsTo, ReceivesFrom
      <4> QED
        BY <4>1, <4>2, FS_Subset, Zenon
    <3>2. 1..n \subseteq DOMAIN log[s][c] /\ DOMAIN log[r][c] = 1..n
      BY <1>4, <1>5, <1>6 DEF n
    <3>3. ReceivesFrom(r, s, c) \subseteq SendsTo(s, r, c) /\ SendsTo(r, s, c) \subseteq ReceivesFrom(s, r, c)
      BY <2>2, <3>2 DEF SendsTo, ReceivesFrom
    <3> QED
      BY <3>1, <3>3, FS_Subset
  <2>4. Arrived(r) /\ Taken(r)
    BY <2>1, <2>3 DEF Arrived, Taken, c, call
  <2> QED
    BY <1>2, <2>1, <2>4 DEF MustReturn, MayReturn, Rendezvous, Loose, call
<1> QED
  BY <1>3, <1>8, <1>9 DEF Context

LEMMA SomeoneIsBehind ==
  ASSUME ScriptInv, HasRun, NEW going \in SUBSET Rank, going # {}
  PROVE  \E r \in going : \A s \in going : Entered(r) <= Entered(s)
<1> DEFINE S == {-Entered(r) : r \in going}
           most == CallsToReduce + 2 * Reductions + 3
<1>1. \A r \in going : Entered(r) \in 0..most /\ Entered(r) \in Nat /\ most \in Nat
  BY EnteredIsBounded
<1> HIDE DEF most
<1>2. S \in SUBSET Int /\ S # {}
  BY <1>1
<1>3. IsFiniteSet(S)
  <2>1. S \subseteq (-most)..0 /\ most \in Nat
    BY <1>1
  <2>2. -most \in Int /\ 0 \in Int
    BY <2>1
  <2>3. IsFiniteSet((-most)..0)
    BY <2>2, FS_Interval, Zenon
  <2> QED
    BY <2>1, <2>3, FS_Subset, Zenon
<1>4. MaxOf(S) \in S /\ \A y \in S : y <= MaxOf(S)
  <2> HIDE DEF S
  <2> QED
    BY <1>2, <1>3, MaxOfIsMaximum
<1>5. PICK r \in going : MaxOf(S) = -Entered(r)
  BY <1>4
<1>6. ASSUME NEW s \in going
      PROVE  Entered(r) <= Entered(s)
  <2>1. -Entered(s) \in S
    OBVIOUS
  <2>2. -Entered(s) <= -Entered(r)
    BY <1>4, <1>5, <2>1
  <2> QED
    BY <1>1, <2>2
<1> QED
  BY <1>6

LEMMA PacedNeverStuck == PaceInv => NeverStuck
<1> SUFFICES ASSUME PaceInv PROVE NeverStuck
  OBVIOUS
<1>1. ScriptInv
  BY DEF PaceInv
<1>2. CASE \A r \in Rank : Exited(r)
  <2>1. \A r \in Rank, what \in {"report", "ppn_differs"} :
          what \in said[r] <=> r = 0 /\ what = Outcome
    BY <1>2 DEF PaceInv, Tells, Exited, Ending
  <2>2. 0 \in Rank
    BY NAssumption DEF Rank
  <2>3. ASSUME NEW what \in {"report", "ppn_differs"}
        PROVE  Cardinality(Told(what)) = IF what = Outcome THEN 1 ELSE 0
    <3>1. Told(what) = IF what = Outcome THEN {0} ELSE {}
      BY <2>1, <2>2 DEF Told
    <3> QED
      BY <3>1, FS_Singleton, FS_EmptySet
  <2> QED
    BY <1>2, <2>3 DEF NeverStuck, Ended
<1>3. CASE ~HasRun /\ ~\A r \in Rank : Exited(r)
  <2>1. PICK r \in Rank : pc[r] # "exited"
    BY <1>3 DEF Exited
  <2>2. pc[r] = "setup" /\ TypeInv
    BY <1>1, <1>3, <2>1, PlaceFacts
  <2>3. blocked[r] = "none"
    BY <2>2, OutsideMpi DEF MpiPc
  <2> QED
    BY <2>1, <2>3 DEF NeverStuck, CanGoOn, Exited
<1>4. CASE HasRun /\ ~\A r \in Rank : Exited(r)
  <2> DEFINE going == {r \in Rank : pc[r] # "exited"}
  <2>1. going \in SUBSET Rank /\ going # {}
    BY <1>4 DEF Exited
  <2>2. PICK r \in going : \A s \in going : Entered(r) <= Entered(s)
    <3> HIDE DEF going
    <3> QED
      BY <1>1, <1>4, <2>1, SomeoneIsBehind
  <2>3. \A s \in Rank : Entered(r) <= Entered(s)
    BY <1>1, <1>4, <2>2, EnteredIsBounded
  <2>4. CanGoOn(r)
    BY <1>4, <2>2, <2>3, BehindCanGoOn
  <2> QED
    BY <2>4 DEF NeverStuck
<1> QED
  BY <1>2, <1>3, <1>4

(* A job without faults is never stuck: until every process has exited and *)
(* exactly one has told the outcome, some process has a step of its own to *)
(* make, or is in a call that has to return (main, mmu_mpi_init,           *)
(* txrx_chain, workerxchange, mmu_process_process_usage).                  *)
THEOREM NoDeadlock == MayFail = {} => (Spec => []NeverStuck)
<1> SUFFICES ASSUME MayFail = {}
             PROVE  Spec => []NeverStuck
  OBVIOUS
<1>1. PaceInv /\ [Next]_vars => PaceInv'
  BY StepPaceInv
<1> QED
  BY <1>1, InitPaceInv, PacedNeverStuck, PTL DEF Spec

=============================================================================
