------------------------------- MODULE Mpimemu -------------------------------
(***************************************************************************)
(* A whole mpimemu job: N processes running main of src/src/mpimemu.c from *)
(* their start to their exit, over the MPI runtime of module Mpi.          *)
(*                                                                         *)
(* pc[r] names the function rank r is in.  Where that function makes MPI   *)
(* calls, EnterCall is the call and the Finish action of that function its *)
(* return, with all the code does from there to the next call.             *)
(*                                                                         *)
(* Samples are "real" or "bogus": how they are parsed and reduced to       *)
(* numbers is the matter of other modules.                                 *)
(*                                                                         *)
(* A Bug_ operator is the definition after it with a plausible slip; no    *)
(* specification uses it.  README.md says which property notices it.       *)
(***************************************************************************)
EXTENDS Mpi

CONSTANTS
  Placement,    \* the placements of the processes on nodes, which are integers
  CommandLine,  \* the command lines: kind of run, samples per stage, workload
  MayFail       \* where a process may run out of memory or fail to read /proc

FailurePoint == {"setup", "sample", "workload", "usage"}

ASSUME PlacementAssumption == Placement \subseteq [Rank -> Int]
ASSUME CommandLineAssumption ==
  CommandLine \subseteq [input : {"run", "help", "invalid"}, iters : Nat, work : BOOLEAN]
ASSUME MayFailAssumption == MayFail \subseteq FailurePoint

SampleType == {"self_pre", "self_post", "node_pre", "node_post"}

(* Twelve allreduces: minimum, maximum and average of each sample type. *)
LastReduction == 12
(* The ten MPI calls of mmu_mpi_work. *)
LastWork == 10

VARIABLES
  node,     \* where the launcher placed each process
  args,     \* the command line: the same for every process
  pc,
  step,     \* how many MPI calls of the current function have been entered
  iter,     \* samples taken in the current stage
  smpRank, smpSize, numNodes,  \* fields of mmu_mpi_t
  sizeCalls,  \* calls of get_msg_size so far, modulo the number of sizes
  samples,  \* mem->sample_list, per sample type
  local,    \* the samples the local minima, maxima and averages were made of
  ec,       \* exit code
  said      \* what the process has printed on behalf of the job

jobVars == <<node, args>>
infoVars == <<smpRank, smpSize, numNodes>>
dataVars == <<samples, local>>
vars == <<comm, log, blocked, node, args, pc, step, iter, smpRank, smpSize,
          numNodes, sizeCalls, samples, local, ec, said>>

Init ==
  /\ MpiInit
  /\ node \in Placement
  /\ args \in CommandLine
  /\ pc = [r \in Rank |-> "setup"]
  /\ step = [r \in Rank |-> 0]
  /\ iter = [r \in Rank |-> 0]
  /\ smpRank = [r \in Rank |-> 0]
  /\ smpSize = [r \in Rank |-> 0]
  /\ numNodes = [r \in Rank |-> 0]
  /\ sizeCalls = [r \in Rank |-> 0]
  /\ samples = [r \in Rank |-> [t \in SampleType |-> << >>]]
  /\ local = [r \in Rank |-> [t \in SampleType |-> << >>]]
  /\ ec = [r \in Rank |-> 0]
  /\ said = [r \in Rank |-> {}]

Goto(r, where) == pc' = [pc EXCEPT ![r] = where]

Initialized(r) == log[r]["world"] # << >>

(* The "out" label of main with bad_func set: the exit code, then mpi is   *)
(* finalized if it was initialized.                                        *)
Fail(r) ==
  /\ ec' = [ec EXCEPT ![r] = 1]
  /\ Goto(r, IF Initialized(r) THEN "free_smp" ELSE "exited")

-----------------------------------------------------------------------------
(* main up to mmu_process_reserve_memory.  No samples at all is an error   *)
(* mmu_memory_get_total_iters reports.                                     *)
Setup(r) ==
  /\ pc[r] = "setup"
  /\ IF args.input = "run" /\ args.iters > 0
       THEN Goto(r, "sample_pre") /\ UNCHANGED ec
       ELSE /\ Goto(r, "exited")
            /\ ec' = [ec EXCEPT ![r] = IF args.input = "help" THEN 0 ELSE 1]
  /\ UNCHANGED <<comm, log, blocked, jobVars, step, iter, infoVars, sizeCalls,
                 dataVars, said>>

SetupFails(r) ==
  /\ "setup" \in MayFail
  /\ pc[r] = "setup"
  /\ Fail(r)
  /\ UNCHANGED <<comm, log, blocked, jobVars, step, iter, infoVars, sizeCalls,
                 dataVars, said>>

-----------------------------------------------------------------------------
(* mmu_process_sample_memory_usage_all and sample *)

(* Before MPI_Init everyone samples the node; afterwards the first process *)
(* of each node does, and the others add a bogus sample.                   *)
Bug_Flags(r) ==
  {"SELF"} \cup
  IF ~Initialized(r) THEN {"PRE", "NODE"}
  ELSE IF r = 0 THEN {"NODE"} ELSE {"NODE_BOGUS"}

Flags(r) ==
  {"SELF"} \cup
  IF ~Initialized(r) THEN {"PRE", "NODE"}
  ELSE IF smpRank[r] = 0 THEN {"NODE"} ELSE {"NODE_BOGUS"}

(* get_self_sample keeps the flags of its type and the stage, get_node_    *)
(* sample likewise; get_sample finds the list by them.                     *)
SelfList(flags) == IF "PRE" \in flags THEN "self_pre" ELSE "self_post"
NodeList(flags) == IF "PRE" \in flags THEN "node_pre" ELSE "node_post"
NodeSample(flags) == IF "NODE_BOGUS" \in flags THEN "bogus" ELSE "real"

WithSelf(lists, flags) == [lists EXCEPT ![SelfList(flags)] = Append(@, "real")]
WithNode(lists, flags) ==
  [lists EXCEPT ![NodeList(flags)] = Append(@, NodeSample(flags))]

(* The workload comes before each sample, if asked for and after MPI_Init. *)
Bug_StartIteration(r, initialized) ==
  IF ~initialized THEN "sample_pre" ELSE "sample_post"

StartIteration(r, initialized) ==
  IF ~initialized THEN "sample_pre"
  ELSE IF args.work THEN "work" ELSE "sample_post"

Bug_TakeSample(r) ==
  LET last == iter[r] = args.iters IN
  /\ pc[r] \in {"sample_pre", "sample_post"}
  /\ samples' = [samples EXCEPT ![r] = WithNode(WithSelf(@, Flags(r)), Flags(r))]
  /\ iter' = [iter EXCEPT ![r] = IF last THEN 0 ELSE iter[r] + 1]
  /\ IF last
       THEN Goto(r, IF Initialized(r) THEN "local_mma" ELSE "init")
       ELSE Goto(r, StartIteration(r, Initialized(r)))
  /\ UNCHANGED <<comm, log, blocked, jobVars, step, infoVars, sizeCalls, local,
                 ec, said>>

TakeSample(r) ==
  LET last == iter[r] + 1 = args.iters IN
  /\ pc[r] \in {"sample_pre", "sample_post"}
  /\ samples' = [samples EXCEPT ![r] = WithNode(WithSelf(@, Flags(r)), Flags(r))]
  /\ iter' = [iter EXCEPT ![r] = IF last THEN 0 ELSE iter[r] + 1]
  /\ IF last
       THEN Goto(r, IF Initialized(r) THEN "local_mma" ELSE "init")
       ELSE Goto(r, StartIteration(r, Initialized(r)))
  /\ UNCHANGED <<comm, log, blocked, jobVars, step, infoVars, sizeCalls, local,
                 ec, said>>

(* /proc cannot be read or parsed, or a sample cannot be allocated: before *)
(* the self sample is on its list, or after it.                            *)
TakeSampleFails(r) ==
  /\ "sample" \in MayFail
  /\ pc[r] \in {"sample_pre", "sample_post"}
  /\ \/ UNCHANGED samples
     \/ samples' = [samples EXCEPT ![r] = WithSelf(@, Flags(r))]
  /\ Fail(r)
  /\ UNCHANGED <<comm, log, blocked, jobVars, step, iter, infoVars, sizeCalls,
                 local, said>>

-----------------------------------------------------------------------------
(* mmu_mpi_work: small_allreduce_max, txrx_chain and workerxchange *)

MsgSizes == <<1, 512, 1024, 8192, 16384>>

(* The size of the calls of get_msg_size's latest caller; txrx_chain and   *)
(* workerxchange ask for theirs before their first send.                   *)
Bug_BuffSize(r) ==
  MsgSizes[((sizeCalls[r] + smpRank[r]) % Len(MsgSizes)) + 1]

BuffSize(r) == MsgSizes[(sizeCalls[r] % Len(MsgSizes)) + 1]

RightNeighbor(r) == (r + 1) % N

Bug_LeftNeighbor(r) == (r + 1) % N

LeftNeighbor(r) == (r + N - 1) % N

Workers(r) == comm[r]["worker"]
NumWorkers(r) == Cardinality(Workers(r))
WorkerRank(r) == RankIn(Workers(r), r)

RightWorker(r, i) == Member(Workers(r), (WorkerRank(r) + i) % NumWorkers(r))

(* i times one to the left, around the end; i is at most 3 *)
OneLeft(k, n) == IF k - 1 < 0 THEN n - 1 ELSE k - 1

LeftWorker(r, i) ==
  LET n == NumWorkers(r)
      one == OneLeft(WorkerRank(r), n)
      two == OneLeft(one, n)
  IN Member(Workers(r), CASE i = 1 -> one [] i = 2 -> two [] i = 3 -> OneLeft(two, n))

(* The n-th MPI call of mmu_mpi_work, and its context. *)
WorkContext(n) == IF n <= 2 THEN "world" ELSE IF n <= 4 THEN "ring" ELSE "exchange"

WorkCall(r, n) ==
  LET i == (n - 3) \div 2   \* the round of workerxchange
  IN
  CASE n = 1 -> Collective("max_double", r)
    [] n = 2 -> Collective("barrier", 0)
    [] n = 3 -> Sendrecv(RightNeighbor(r), LeftNeighbor(r), BuffSize(r))
    [] n = 4 -> Sendrecv(LeftNeighbor(r), RightNeighbor(r), BuffSize(r))
    [] n > 4 /\ n % 2 = 1 -> Sendrecv(LeftWorker(r, i), RightWorker(r, i), BuffSize(r))
    [] n > 4 /\ n % 2 = 0 -> Sendrecv(RightWorker(r, i), LeftWorker(r, i), BuffSize(r))

(* Calls after which the function has the size of its next buffers to ask. *)
LastOfSize == {4, LastWork}

-----------------------------------------------------------------------------
(* get_node_mmas and get_global_mmas: for each type a minimum, a maximum   *)
(* and a sum.  Within a node the minimum of the post-init node samples is  *)
(* a maximum, because all but one of the contributions are bogus zeros.    *)

TypeOrder == <<"self_pre", "self_post", "node_pre", "node_post">>

NodeReduction(n) ==
  CASE n % 3 = 1 -> IF TypeOrder[(n + 2) \div 3] = "node_post" THEN "max_ull" ELSE "min_ull"
    [] n % 3 = 2 -> "max_ull"
    [] n % 3 = 0 -> "sum_double"

GlobalReduction(n) ==
  CASE n % 3 = 1 -> "min_ull" [] n % 3 = 2 -> "max_ull" [] n % 3 = 0 -> "sum_double"

-----------------------------------------------------------------------------
(* The MPI calls, by function *)

CallContext(r) ==
  CASE pc[r] \in {"init", "split_smp", "split_worker", "num_nodes", "verify",
                  "global_mma", "finalize"} -> "world"
    [] pc[r] \in {"node_mma", "free_smp"} -> "smp"
    [] pc[r] = "free_worker" -> "worker"
    [] pc[r] = "work" -> WorkContext(step[r] + 1)

NextCall(r) ==
  CASE pc[r] = "init" -> Collective("init", 0)
    [] pc[r] = "split_smp" -> Collective("split_type", node[r])
    [] pc[r] = "split_worker" -> Collective("split", smpRank[r])
    [] pc[r] = "num_nodes" -> Collective("sum_int", IF smpRank[r] = 0 THEN 1 ELSE 0)
    [] pc[r] = "verify" -> Collective("max_int2", smpSize[r])
    [] pc[r] = "work" -> WorkCall(r, step[r] + 1)
    [] pc[r] = "node_mma" -> Collective(NodeReduction(step[r] + 1), 0)
    [] pc[r] = "global_mma" -> Collective(GlobalReduction(step[r] + 1), 0)
    [] pc[r] \in {"free_smp", "free_worker"} -> Collective("comm_free", 0)
    [] pc[r] = "finalize" -> Collective("finalize", 0)

MpiPc == {"init", "split_smp", "split_worker", "num_nodes", "verify", "work",
          "node_mma", "global_mma", "free_smp", "free_worker", "finalize"}

EnterCall(r) ==
  /\ pc[r] \in MpiPc
  /\ Enter(r, CallContext(r), NextCall(r))
  /\ step' = [step EXCEPT ![r] = @ + 1]
  /\ UNCHANGED <<comm, jobVars, pc, iter, infoVars, sizeCalls, dataVars, ec, said>>

(* The call r is in returns, in the function it was made from. *)
Returns(r, where) ==
  /\ pc[r] = where
  /\ MayReturn(r)
  /\ Leave(r)

(* On to another function. *)
Proceed(r, where) ==
  /\ Goto(r, where)
  /\ step' = [step EXCEPT ![r] = 0]

-----------------------------------------------------------------------------
(* mmu_mpi_init *)

FinishInit(r) ==
  /\ Returns(r, "init")
  /\ Proceed(r, "split_smp")
  /\ UNCHANGED <<comm, jobVars, iter, infoVars, sizeCalls, dataVars, ec, said>>

(* The members of the communicator a split puts r in. *)
SameColor(r) == {s \in Rank : Contribution(r, s) = Contribution(r, r)}

FinishSplitSmp(r) ==
  /\ Returns(r, "split_smp")
  /\ comm' = [comm EXCEPT ![r]["smp"] = SameColor(r)]
  /\ smpSize' = [smpSize EXCEPT ![r] = Cardinality(SameColor(r))]
  /\ smpRank' = [smpRank EXCEPT ![r] = RankIn(SameColor(r), r)]
  /\ Proceed(r, "split_worker")
  /\ UNCHANGED <<jobVars, iter, numNodes, sizeCalls, dataVars, ec, said>>

FinishSplitWorker(r) ==
  /\ Returns(r, "split_worker")
  /\ comm' = [comm EXCEPT ![r]["worker"] = SameColor(r)]
  /\ Proceed(r, "num_nodes")
  /\ UNCHANGED <<jobVars, iter, infoVars, sizeCalls, dataVars, ec, said>>

FinishNumNodes(r) ==
  /\ Returns(r, "num_nodes")
  /\ numNodes' = [numNodes EXCEPT ![r] =
                    Cardinality({s \in Rank : Contribution(r, s) = 1})]
  /\ Proceed(r, "verify")
  /\ UNCHANGED <<comm, jobVars, iter, smpRank, smpSize, sizeCalls, dataVars, ec, said>>

(* world_root_verify_smp_size: the maxima of the sizes and of their        *)
(* negations, the latter being minus the minimum.                          *)
Bug_SizesDiffer(r) == MaxOf(Contributions(r)) # smpSize[r]

SizesDiffer(r) ==
  MaxOf(Contributions(r)) # -MaxOf({-n : n \in Contributions(r)})

(* A job whose nodes differ ends here: one process says so, all fail. *)
Bug_PpnDiffers(r) ==
  /\ IF r = 0
       THEN /\ ec' = [ec EXCEPT ![r] = 1]
            /\ said' = [said EXCEPT ![r] = @ \cup {"ppn_differs"}]
       ELSE UNCHANGED <<ec, said>>
  /\ Proceed(r, "free_smp")

PpnDiffers(r) ==
  /\ ec' = [ec EXCEPT ![r] = 1]
  /\ said' = [said EXCEPT ![r] = IF r = 0 THEN @ \cup {"ppn_differs"} ELSE @]
  /\ Proceed(r, "free_smp")

PpnAgrees(r) ==
  /\ said' = [said EXCEPT ![r] = IF r = 0 THEN @ \cup {"settings"} ELSE @]
  /\ Proceed(r, StartIteration(r, TRUE))
  /\ UNCHANGED ec

Bug_FinishVerify(r) ==
  /\ Returns(r, "verify")
  /\ IF r = 0 /\ SizesDiffer(r) THEN PpnDiffers(r) ELSE PpnAgrees(r)
  /\ UNCHANGED <<comm, jobVars, iter, infoVars, sizeCalls, dataVars>>

FinishVerify(r) ==
  /\ Returns(r, "verify")
  /\ IF SizesDiffer(r) THEN PpnDiffers(r) ELSE PpnAgrees(r)
  /\ UNCHANGED <<comm, jobVars, iter, infoVars, sizeCalls, dataVars>>

(* A call of mmu_mpi_work returns.  small_allreduce_max checks its result. *)
InvalidResult(r) == step[r] = 1 /\ MaxOf(Contributions(r)) # N - 1

FinishWork(r) ==
  /\ Returns(r, "work")
  /\ IF InvalidResult(r)
       THEN Fail(r) /\ step' = [step EXCEPT ![r] = 0]
       ELSE /\ IF step[r] = LastWork
                 THEN Proceed(r, "sample_post")
                 ELSE UNCHANGED <<pc, step>>
            /\ UNCHANGED ec
  /\ sizeCalls' = IF step[r] \in LastOfSize
                    THEN [sizeCalls EXCEPT ![r] = (@ + 1) % Len(MsgSizes)]
                    ELSE sizeCalls
  /\ UNCHANGED <<comm, jobVars, iter, infoVars, dataVars, said>>

(* The buffers of txrx_chain or workerxchange cannot be allocated. *)
WorkFails(r) ==
  /\ "workload" \in MayFail
  /\ pc[r] = "work"
  /\ blocked[r] = "none"
  /\ step[r] \in {2, 4}
  /\ Fail(r)
  /\ step' = [step EXCEPT ![r] = 0]
  /\ UNCHANGED <<comm, log, blocked, jobVars, iter, infoVars, sizeCalls, dataVars, said>>

-----------------------------------------------------------------------------
(* mmu_process_process_usage *)

(* mmu_memory_get_local_mmas pops every sample off every list. *)
LocalMmas(r) ==
  /\ pc[r] = "local_mma"
  /\ local' = [local EXCEPT ![r] = samples[r]]
  /\ samples' = [samples EXCEPT ![r] = [t \in SampleType |-> << >>]]
  /\ Proceed(r, "node_mma")
  /\ UNCHANGED <<comm, log, blocked, jobVars, iter, infoVars, sizeCalls, ec, said>>

FinishNodeMma(r) ==
  /\ Returns(r, "node_mma")
  /\ IF step[r] = LastReduction
       THEN Proceed(r, "global_mma")
       ELSE UNCHANGED <<pc, step>>
  /\ UNCHANGED <<comm, jobVars, iter, infoVars, sizeCalls, dataVars, ec, said>>

FinishGlobalMma(r) ==
  /\ Returns(r, "global_mma")
  /\ IF step[r] = LastReduction
       THEN /\ Proceed(r, "free_smp")
            /\ said' = [said EXCEPT ![r] = IF r = 0 THEN @ \cup {"report"} ELSE @]
       ELSE UNCHANGED <<pc, step, said>>
  /\ UNCHANGED <<comm, jobVars, iter, infoVars, sizeCalls, dataVars, ec>>

(* The lists of results are allocated before the first reduction. *)
UsageFails(r) ==
  /\ "usage" \in MayFail
  /\ \/ pc[r] = "local_mma"
     \/ pc[r] \in {"node_mma", "global_mma"} /\ step[r] = 0
  /\ Fail(r)
  /\ UNCHANGED <<comm, log, blocked, jobVars, step, iter, infoVars, sizeCalls,
                 dataVars, said>>

-----------------------------------------------------------------------------
(* mmu_mpi_finalize, and the end of main *)

Bug_FinishFreeSmp(r) ==
  /\ Returns(r, "free_smp")
  /\ Proceed(r, "finalize")
  /\ UNCHANGED <<comm, jobVars, iter, infoVars, sizeCalls, dataVars, ec, said>>

FinishFreeSmp(r) ==
  /\ Returns(r, "free_smp")
  /\ Proceed(r, "free_worker")
  /\ UNCHANGED <<comm, jobVars, iter, infoVars, sizeCalls, dataVars, ec, said>>

FinishFreeWorker(r) ==
  /\ Returns(r, "free_worker")
  /\ Proceed(r, "finalize")
  /\ UNCHANGED <<comm, jobVars, iter, infoVars, sizeCalls, dataVars, ec, said>>

FinishFinalize(r) ==
  /\ Returns(r, "finalize")
  /\ Proceed(r, "exited")
  /\ UNCHANGED <<comm, jobVars, iter, infoVars, sizeCalls, dataVars, ec, said>>

-----------------------------------------------------------------------------
Return(r) ==
  \/ FinishInit(r)
  \/ FinishSplitSmp(r)
  \/ FinishSplitWorker(r)
  \/ FinishNumNodes(r)
  \/ FinishVerify(r)
  \/ FinishWork(r)
  \/ FinishNodeMma(r)
  \/ FinishGlobalMma(r)
  \/ FinishFreeSmp(r)
  \/ FinishFreeWorker(r)
  \/ FinishFinalize(r)

Failure(r) ==
  \/ SetupFails(r)
  \/ TakeSampleFails(r)
  \/ WorkFails(r)
  \/ UsageFails(r)

Run(r) ==
  \/ Setup(r)
  \/ TakeSample(r)
  \/ LocalMmas(r)
  \/ EnterCall(r)
  \/ Return(r)

Next == \E r \in Rank : Run(r) \/ Failure(r)

Spec == Init /\ [][Next]_vars

(* A process the operating system runs makes progress, and MPI returns     *)
(* from a call once it can no longer put it off.  Nothing has to fail.     *)
Fairness ==
  \A r \in Rank :
    WF_vars(Run(r) /\ (blocked[r] # "none" => MustReturn(r)))

FairSpec == Spec /\ Fairness

-----------------------------------------------------------------------------
Pc == MpiPc \cup {"setup", "sample_pre", "sample_post", "local_mma", "exited"}

TypeOK ==
  /\ MpiTypeOK
  /\ node \in Placement
  /\ args \in CommandLine
  /\ pc \in [Rank -> Pc]
  /\ step \in [Rank -> 0..LastReduction]
  /\ iter \in [Rank -> Nat]
  /\ \A r \in Rank : iter[r] = 0 \/ iter[r] < args.iters
  /\ smpRank \in [Rank -> Nat]
  /\ smpSize \in [Rank -> Nat]
  /\ numNodes \in [Rank -> Nat]
  /\ sizeCalls \in [Rank -> 0..(Len(MsgSizes) - 1)]
  /\ samples \in [Rank -> [SampleType -> Seq({"real", "bogus"})]]
  /\ local \in [Rank -> [SampleType -> Seq({"real", "bogus"})]]
  /\ ec \in [Rank -> {0, 1}]
  /\ said \in [Rank -> SUBSET {"ppn_differs", "settings", "report"}]

OnNode(r) == {s \in Rank : node[s] = node[r]}

EvenPlacement == \A r, s \in Rank : Cardinality(OnNode(r)) = Cardinality(OnNode(s))

Exited(r) == pc[r] = "exited"

(* Every process makes the same collectives in the same order on every     *)
(* communicator: no branch of main, of mmu_mpi_init or of process_usage    *)
(* takes one process to a call its peers do not make.                      *)
CollectivesMatch ==
  \A r \in Rank, c \in Communicator : \A s \in comm[r][c] :
    \A i \in DOMAIN log[r][c] \cap DOMAIN log[s][c] :
      log[r][c][i].op = log[s][c][i].op

(* mmu_mpi_finalize frees the communicators before MPI_Finalize, and no    *)
(* call on a communicator follows its being freed, or MPI_Finalize.        *)
NothingAfterFree ==
  \A r \in Rank :
    /\ \A c \in Communicator : \A i \in DOMAIN log[r][c] :
         log[r][c][i].op \in {"comm_free", "finalize"} => i = Len(log[r][c])
    /\ \A i \in DOMAIN log[r]["world"] :
         log[r]["world"][i].op = "finalize" =>
           \A c \in {"smp", "worker"} :
             \E j \in DOMAIN log[r][c] : log[r][c][j].op = "comm_free"

(* A buffer receives a message of its own size: the counters behind        *)
(* get_msg_size stay in step between neighbours, over any number of        *)
(* iterations of the workload.                                             *)
MessagesFit ==
  \A r, s \in Rank, c \in {"ring", "exchange"} :
    LET sent == SendsTo(s, r, c)
        received == ReceivesFrom(r, s, c)
    IN \A i \in sent, j \in received :
         RankIn(sent, i) = RankIn(received, j) => log[s][c][i].val = log[r][c][j].val

(* No process measures or reports anything after MPI_Init in a job whose   *)
(* nodes hold different numbers of processes: "it is imperative that the   *)
(* number of tasks per node is equal" (mpimemu.c:171), and all learn it    *)
(* from world_root_verify_smp_size.                                        *)
Measuring == {"work", "sample_post", "local_mma", "node_mma", "global_mma"}

PpnGate ==
  \A r, s \in Rank :
    pc[r] \in Measuring => Cardinality(OnNode(r)) = Cardinality(OnNode(s))

(* With the workload on, no process is more than one sample ahead of       *)
(* another after MPI_Init (sample, and the allreduce and barrier of        *)
(* small_allreduce_max).                                                   *)
PostSamples(r) == Len(samples[r]["self_post"]) + Len(local[r]["self_post"])

LockstepSampling ==
  args.work => \A r, s \in Rank : PostSamples(r) <= PostSamples(s) + 1

(* What is reported covers the whole job: when the report is printed every *)
(* process has put args.iters samples of each type into its averages, and  *)
(* the post-init node samples of each node are those of exactly one of its *)
(* processes, bogus on all others, as get_node_mmas assumes                *)
(* (mmu_process.c:548).                                                    *)
Only(sample, n) == [i \in 1..n |-> sample]

IsCollector(r) == local[r]["node_post"] = Only("real", args.iters)

ReportCoversJob ==
  (\E r \in Rank : "report" \in said[r]) =>
    \A r \in Rank :
      /\ \A t \in SampleType \ {"node_post"} : local[r][t] = Only("real", args.iters)
      /\ local[r]["node_post"] \in {Only("real", args.iters), Only("bogus", args.iters)}
      /\ Cardinality({s \in OnNode(r) : IsCollector(s)}) = 1

(* The exit code of a process without a fault of its own is that of the    *)
(* whole job: success for a usage message or a measured job, failure for   *)
(* a bad command line or uneven nodes, on every process alike.             *)
Succeeds ==
  \/ args.input = "help"
  \/ args.input = "run" /\ args.iters > 0 /\ EvenPlacement

ExitTellsOutcome ==
  \A r \in Rank : Exited(r) => (ec[r] = 0 <=> Succeeds)

(* A process that exits successfully after measuring does so because every *)
(* process got through: a fault anywhere keeps all others from exiting     *)
(* with success, and from printing a report.                               *)
SuccessIsUnanimous ==
  args.input = "run" =>
    \A r, s \in Rank :
      (Exited(r) /\ ec[r] = 0) \/ "report" \in said[r] => ec[s] = 0

(* Every job without faults ends, and by then exactly one process has told *)
(* the user what came of it: the report, or that the nodes differ          *)
(* (mpimemu.c:165, "we want only one process to display the error          *)
(* message").                                                              *)
Told(what) == {r \in Rank : what \in said[r]}

Outcome ==
  IF args.input = "run" /\ args.iters > 0
    THEN IF EvenPlacement THEN "report" ELSE "ppn_differs"
    ELSE "nothing"

Ended ==
  /\ \A r \in Rank : Exited(r)
  /\ \A what \in {"report", "ppn_differs"} :
       Cardinality(Told(what)) = IF what = Outcome THEN 1 ELSE 0

JobEnds == <>Ended

(* There is no deadlock in a job without faults: as long as it has not     *)
(* ended, with its outcome told, some process has something to do that is  *)
(* not a call it must wait in (the rings of txrx_chain and workerxchange,  *)
(* the collectives of processes that are not at the same place).           *)
CanGoOn(r) == ~Exited(r) /\ (blocked[r] # "none" => MustReturn(r))

NeverStuck == Ended \/ \E r \in Rank : CanGoOn(r)

(* Nothing goes on for ever, whatever fails: each step of a process takes  *)
(* it nearer to its exit, and no other further from its own.  At most so   *)
(* many steps are left of a process; an MPI call is two, the workload and  *)
(* a sample are SampleSteps, the reductions of a node or of the job        *)
(* ReductionSteps.                                                         *)
SampleSteps == 2 * LastWork + 1
ReductionSteps == 2 * LastReduction
EndSteps == 6
UsageSteps == 1 + ReductionSteps + ReductionSteps + EndSteps

StepsFrom(where, rounds) ==
  CASE where = "exited" -> 0
    [] where = "finalize" -> 2
    [] where = "free_worker" -> 4
    [] where = "free_smp" -> EndSteps
    [] where = "global_mma" -> ReductionSteps + EndSteps
    [] where = "node_mma" -> UsageSteps - 1
    [] where = "local_mma" -> UsageSteps
    [] where = "sample_post" -> UsageSteps + SampleSteps * (rounds - 1) + 1
    [] where = "work" -> UsageSteps + SampleSteps * rounds
    [] where = "verify" -> UsageSteps + SampleSteps * args.iters + 2
    [] where = "num_nodes" -> UsageSteps + SampleSteps * args.iters + 4
    [] where = "split_worker" -> UsageSteps + SampleSteps * args.iters + 6
    [] where = "split_smp" -> UsageSteps + SampleSteps * args.iters + 8
    [] where = "init" -> UsageSteps + SampleSteps * args.iters + 10
    [] where = "sample_pre" -> UsageSteps + SampleSteps * args.iters + 10 + rounds
    [] where = "setup" -> UsageSteps + SampleSteps * args.iters + 11 + args.iters

StepsMade(r) == IF blocked[r] = "none" THEN 2 * step[r] ELSE 2 * step[r] - 1

StepsLeft(r) == StepsFrom(pc[r], args.iters - iter[r]) - StepsMade(r)

StepsRunOut ==
  [][\E r \in Rank :
       /\ StepsLeft(r)' < StepsLeft(r) /\ StepsLeft(r)' >= 0
       /\ \A s \in Rank \ {r} : StepsLeft(s)' = StepsLeft(s)]_vars

=============================================================================
