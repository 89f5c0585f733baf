----------------------------- MODULE SampleStore -----------------------------
(***************************************************************************)
(* The sampling of one process (mmu_memory.c, driven by sample() of        *)
(* mmu_process.c): room for all samples is reserved, then in each stage,   *)
(* again and again, get_sample reads /proc/self/status and /proc/meminfo   *)
(* line by line into a sample and appends it to one of four lists.         *)
(*                                                                         *)
(* A file is the sequence of what fgets returns of it: a line longer than  *)
(* the buffer is several.  The delegate of a node is known after MPI_Init; *)
(* here the variable delegate says from the start who will be it.          *)
(*                                                                         *)
(* A Bug_ operator is the definition after it with a plausible slip; no    *)
(* specification uses it.  README.md says which property notices it.       *)
(***************************************************************************)
EXTENDS ProcSample

VARIABLES
  delegate,  \* is this process the delegate of its node, from MPI_Init on?
  lists,     \* the four sample lists
  ended,     \* "no", "success" or "failure"
  pc,        \* where in main, sample() or get_sample the process is
  stage,
  i,         \* iterations begun in this stage
  kind,      \* what get_sample samples
  file,      \* the file being read
  line,      \* the line to be read
  sample,    \* elements_in_kb
  capacity   \* of each list

vars == <<delegate, lists, ended, pc, stage, i, kind, file, line, sample, capacity>>

Init ==
  /\ delegate \in BOOLEAN
  /\ lists = [l \in List |-> <<>>]
  /\ ended = "no"
  /\ pc = "reserve"
  /\ stage = "pre"
  /\ i = 0
  /\ kind = "self"
  /\ file = <<>>
  /\ line = 1
  /\ sample = Blank
  /\ capacity = [l \in List |-> 0]

Failure == ended' = "failure" /\ pc' = "ended"

-----------------------------------------------------------------------------
(* reserve_memory_for_samples, list by list: failing, it has reserved some. *)

Bug_Reserve ==
  /\ pc = "reserve"
  /\ capacity' = [l \in List |-> Iters - 1]
  /\ pc' = "loop"
  /\ UNCHANGED <<delegate, lists, ended, stage, i, kind, file, line, sample>>

Reserve ==
  /\ pc = "reserve"
  /\ capacity' = [l \in List |-> Iters]
  /\ pc' = "loop"
  /\ UNCHANGED <<delegate, lists, ended, stage, i, kind, file, line, sample>>

ReserveFails ==
  /\ pc = "reserve"
  /\ \E got \in SUBSET List :
       capacity' = [l \in List |-> IF l \in got THEN Iters ELSE 0]
  /\ Failure
  /\ UNCHANGED <<delegate, lists, stage, i, kind, file, line, sample>>

-----------------------------------------------------------------------------
(* mmu_process_sample_memory_usage_all and sample() *)

Flags ==
  {"SELF"} \union (IF stage = "pre" THEN {"PRE_MPI_INIT", "NODE"}
                   ELSE IF delegate THEN {"NODE"} ELSE {"NODE_BOGUS"})

(* get_self_sample and get_node_sample mask the flags of the other kind.   *)
Mask == IF kind = "self" THEN {"SELF", "SELF_BOGUS"} ELSE {"NODE", "NODE_BOGUS"}
ModFlags == (Flags \intersect Mask) \union (Flags \intersect {"PRE_MPI_INIT"})

Iterate ==
  /\ pc = "loop"
  /\ i < Iters
  /\ i' = i + 1
  /\ kind' = "self"
  /\ pc' = "call"
  /\ UNCHANGED <<delegate, lists, ended, stage, file, line, sample, capacity>>

(* All iterations are done: MPI_Init and the second stage.                 *)
MpiInit ==
  /\ pc = "loop"
  /\ i = Iters
  /\ stage = "pre"
  /\ stage' = "post"
  /\ i' = 0
  /\ UNCHANGED <<delegate, lists, ended, pc, kind, file, line, sample, capacity>>

Finish ==
  /\ pc = "loop"
  /\ i = Iters
  /\ stage = "post"
  /\ ended' = "success"
  /\ pc' = "ended"
  /\ UNCHANGED <<delegate, lists, stage, i, kind, file, line, sample, capacity>>

-----------------------------------------------------------------------------
(* get_sample *)

Target == <<IF "PRE_MPI_INIT" \in ModFlags THEN "pre" ELSE "post",
            IF "SELF" \in ModFlags THEN "self" ELSE "node">>

ProcTable == IF "SELF" \in ModFlags THEN SelfKey ELSE NodeKey

Bug_Open ==
  /\ pc = "call"
  /\ "NODE_BOGUS" \notin ModFlags
  /\ file' \in Files(Target[2])
  /\ line' = 1
  /\ pc' = "read"
  /\ UNCHANGED <<delegate, lists, ended, stage, i, kind, sample, capacity>>

Open ==
  /\ pc = "call"
  /\ "NODE_BOGUS" \notin ModFlags
  /\ file' \in Files(Target[2])
  /\ line' = 1
  /\ sample' = Blank
  /\ pc' = "read"
  /\ UNCHANGED <<delegate, lists, ended, stage, i, kind, capacity>>

(* A bogus request opens no file.                                          *)
Bogus ==
  /\ pc = "call"
  /\ "NODE_BOGUS" \in ModFlags
  /\ sample' = Blank
  /\ pc' = "append"
  /\ UNCHANGED <<delegate, lists, ended, stage, i, kind, file, line, capacity>>

(* No memory for the sample, or no file.                                   *)
OpenFails ==
  /\ pc = "call"
  /\ Failure
  /\ UNCHANGED <<delegate, lists, stage, i, kind, file, line, sample, capacity>>

More == pc = "read" /\ line <= Len(file)
CurrentLine == file[line]

Skip ==
  /\ More
  /\ CurrentLine.key # NoColon /\ CurrentLine.key \notin ProcTable
  /\ line' = line + 1
  /\ UNCHANGED <<delegate, lists, ended, pc, stage, i, kind, file, sample, capacity>>

Update ==
  /\ More
  /\ CurrentLine.key # NoColon /\ CurrentLine.key \in ProcTable
  /\ CurrentLine.val \in Value
  /\ sample' = [sample EXCEPT ![CurrentLine.key] = CurrentLine.val]
  /\ line' = line + 1
  /\ UNCHANGED <<delegate, lists, ended, pc, stage, i, kind, file, capacity>>

(* No key, no digit, or strtoull finds a number that is too large.         *)
ParseFails ==
  /\ More
  /\ \/ CurrentLine.key = NoColon
     \/ CurrentLine.key \in ProcTable /\ CurrentLine.val \notin Value
  /\ Failure
  /\ UNCHANGED <<delegate, lists, stage, i, kind, file, line, sample, capacity>>

Bug_PostProcessed ==
  IF "NODE" \in ModFlags
  THEN [sample EXCEPT !["MemUsed"] = sample["MemTotal"] - sample["MemFree"]]
  ELSE sample

PostProcessed ==
  IF "NODE" \in ModFlags
  THEN [sample EXCEPT !["MemUsed"] =
          (sample["MemTotal"] - sample["MemFree"]) % (UllongMax + 1)]
  ELSE sample

(* fgets returns NULL at the end of the file, and after an error too: the  *)
(* loop does not tell them apart.                                          *)
NoMoreLines ==
  /\ pc = "read"
  /\ sample' = PostProcessed
  /\ pc' = "append"
  /\ UNCHANGED <<delegate, lists, ended, stage, i, kind, file, line, capacity>>

(* mmu_list_append grows the array of the list if it has to.               *)
AppendItem ==
  /\ pc = "append"
  /\ LET size == Len(lists[Target]) + 1 IN
       capacity' = [capacity EXCEPT ![Target] = IF @ >= size THEN @ ELSE size]
  /\ lists' = [lists EXCEPT ![Target] = Append(@, sample)]
  /\ kind' = "node"
  /\ pc' = IF kind = "self" THEN "call" ELSE "loop"
  /\ UNCHANGED <<delegate, ended, stage, i, file, line, sample>>

AppendFails ==
  /\ pc = "append"
  /\ Failure
  /\ UNCHANGED <<delegate, lists, stage, i, kind, file, line, sample, capacity>>

-----------------------------------------------------------------------------
Next ==
  \/ Reserve
  \/ ReserveFails
  \/ Iterate
  \/ MpiInit
  \/ Finish
  \/ Open
  \/ Bogus
  \/ OpenFails
  \/ Skip
  \/ Update
  \/ ParseFails
  \/ NoMoreLines
  \/ AppendItem
  \/ AppendFails

Spec == Init /\ [][Next]_vars

-----------------------------------------------------------------------------
TypeOK ==
  /\ delegate \in BOOLEAN
  /\ lists \in [List -> Seq(Sample)]
  /\ ended \in {"no", "success", "failure"}
  /\ pc \in {"reserve", "loop", "call", "read", "append", "ended"}
  /\ stage \in Stage
  /\ i \in 0..Iters
  /\ kind \in Kind
  /\ file \in {<<>>} \union StatusFiles \union MeminfoFiles
  /\ line \in 1..(Len(file) + 1)
  /\ sample \in Sample
  /\ capacity \in [List -> Nat]

(* "we want to allocate all the memory required for the collected samples  *)
(* before we start measuring the memory usage. otherwise, we will be       *)
(* reporting some of our growing memory usage. do this only once."         *)
(* (mmu_memory.c:746): the array of no list grows while sampling goes on.  *)
NoArrayGrows == [][pc # "reserve" => capacity' = capacity]_vars

(* What is measured, from which file, in which list and order, and that    *)
(* a failure loses nothing: the store is the log of mmu_memory.h.          *)
Log == INSTANCE SampleLog

ImplementsLog == Log!Spec

=============================================================================
