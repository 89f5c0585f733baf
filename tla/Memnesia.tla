------------------------------ MODULE Memnesia ------------------------------
(***************************************************************************)
(* The tracing library src/memnesia/trace, preloaded into every rank of an *)
(* MPI job.  Its wrappers (memnesia-pmpi.cc) take a sample of the process' *)
(* memory before and after each MPI call they know, and charge the         *)
(* difference to MPI; MPI_Init synchronises the ranks and learns rank and  *)
(* size; MPI_Finalize gathers the texts of all ranks at rank 0, which      *)
(* writes them to a file (memnesia-rt.cc).                                 *)
(*                                                                         *)
(* The tool's own collectives run on MPI_COMM_WORLD, like the              *)
(* application's: log[r] is the sequence of both, and the n-th of a rank   *)
(* is matched with the n-th of the others.  Messages and calls on other    *)
(* communicators do not meet the tool's and are local here.                *)
(*                                                                         *)
(* Memory is counted in some unit: app is the application's, lib the MPI   *)
(* library's, tool what the dataset of the tool itself has come to take.   *)
(*                                                                         *)
(* A Bug_ operator is the definition after it with a plausible slip; no    *)
(* specification uses it.  README.md says which property notices it.       *)
(***************************************************************************)
EXTENDS Integers, Sequences

CONSTANTS
  N,           \* number of ranks
  Programs,    \* the applications: how one initializes MPI, the calls each
               \* rank makes between that and MPI_Finalize, what may fail
               \* while it runs ("sample", "metadata", "open"), and when the
               \* samples of each rank are taken, on its own steady clock
  AppGrowth,   \* by how much the application's memory may change between calls
  LibGrowth    \* by how much the library's may change in a call

Rank == 0..(N - 1)

-----------------------------------------------------------------------------
(* memnesia-pmpi.cc: the calls that have a wrapper *)

Messages == {"MPI_Irecv", "MPI_Send", "MPI_Recv", "MPI_Isend", "MPI_Sendrecv"}
Completions == {"MPI_Wait", "MPI_Waitall", "MPI_Iprobe", "MPI_Issend", "MPI_Ssend"}
Queries == {"MPI_Comm_size", "MPI_Comm_rank"}
Collectives == {"MPI_Barrier", "MPI_Allreduce", "MPI_Bcast", "MPI_Reduce", "MPI_Alltoall"}
Communicators == {"MPI_Address", "MPI_Comm_split", "MPI_Comm_free"}
Types == {"MPI_Type_commit", "MPI_Type_free", "MPI_Type_contiguous",
          "MPI_Type_struct", "MPI_Type_vector"}

Wrapped == {"MPI_Init"} \union Messages \union Completions \union Queries
             \union Collectives \union Communicators \union Types

(* Four of the many calls that have none: those written for the last two   *)
(* are compiled out.                                                       *)
Bare == {"MPI_Init_thread", "MPI_Gather", "MPI_Wtime", "MPI_Abort"}

Call == Wrapped \union Bare

-----------------------------------------------------------------------------
(* Collectives on MPI_COMM_WORLD, by who waits for whom *)

Synchronizing == {"MPI_Barrier", "MPI_Allreduce", "MPI_Alltoall", "MPI_Comm_split",
                  "tool_barrier"}
ToRoot == {"MPI_Reduce", "MPI_Gather", "tool_gather", "tool_gatherv"}
FromRoot == {"MPI_Bcast"}
Loose == {"MPI_Init", "MPI_Init_thread", "finalize"}
World == Synchronizing \union ToRoot \union FromRoot \union Loose

WaitsFor(r, op) ==
  CASE op \in Synchronizing -> Rank
    [] op \in ToRoot        -> IF r = 0 THEN Rank ELSE {r}
    [] op \in FromRoot      -> {0, r}
    [] OTHER                -> {r}

(* The collectives the application makes on MPI_COMM_WORLD are the same on *)
(* all ranks, as MPI demands.                                              *)
OnWorld(s) ==
  LET on[n \in 0..Len(s)] ==
        IF n = 0 THEN << >> ELSE IF s[n] \in World THEN Append(on[n - 1], s[n]) ELSE on[n - 1]
  IN  on[Len(s)]

ASSUME NAssumption == N \in Nat \ {0}
ASSUME ProgramsAssumption ==
  \A p \in Programs :
    /\ p.init \in {"MPI_Init", "MPI_Init_thread"}
    /\ \A r \in Rank : /\ p.calls[r] \in Seq(Call \ {"MPI_Init", "MPI_Init_thread"})
                       /\ OnWorld(p.calls[r]) = OnWorld(p.calls[0])
    /\ p.faults \subseteq {"sample", "metadata", "open"}
    /\ \A r \in Rank :
         /\ p.clock[r] \in Seq(Int) /\ 2 * (1 + Len(p.calls[r])) <= Len(p.clock[r])
         /\ \A m, n \in DOMAIN p.clock[r] : m <= n => p.clock[r][m] <= p.clock[r][n]
ASSUME GrowthAssumption == AppGrowth \subseteq Int /\ LibGrowth \subseteq Int

VARIABLES
  program,   \* the application
  pc,        \* where each rank is, see TypeOK
  k,         \* the number of calls it has made, that of MPI_Init included
  log,       \* the collectives it has entered
  app, lib, tool,
  before,    \* memnesia_scoped_caliper::before, its memory usage
  all,       \* dataset[APP]: usage at each sample
  mpi,       \* dataset[MPI]: differences
  rank,      \* memnesia_rt::rank and numpe, 0 until pinit
  numpe,
  text,      \* what fill_report_buffer has made
  report,    \* node_report of a rank that is root
  file       \* the report: who has written it, and what is in it

mem == <<app, lib, tool>>
data == <<before, all, mpi>>
ident == <<rank, numpe>>
out == <<text, report, file>>
vars == <<program, pc, k, log, mem, data, ident, out>>

Init ==
  /\ program \in Programs
  /\ pc = [r \in Rank |-> "app"]
  /\ k = [r \in Rank |-> 0]
  /\ log = [r \in Rank |-> <<>>]
  /\ app = [r \in Rank |-> 1] /\ lib = [r \in Rank |-> 0] /\ tool = [r \in Rank |-> 0]
  /\ before = [r \in Rank |-> 0]
  /\ all = [r \in Rank |-> <<>>] /\ mpi = [r \in Rank |-> <<>>]
  /\ rank = [r \in Rank |-> 0] /\ numpe = [r \in Rank |-> 0]
  /\ text = [r \in Rank |-> <<>>]
  /\ report = [r \in Rank |-> <<>>]
  /\ file = [writers |-> {}, content |-> <<>>]

Goto(r, where) == pc' = [pc EXCEPT ![r] = where]

CallsOf(r) == <<program.init>> \o program.calls[r]
Finished(r) == k[r] = Len(CallsOf(r))
Current(r) == CallsOf(r)[k[r] + 1]

Enter(r, op) == log' = IF op \in World THEN [log EXCEPT ![r] = Append(@, op)] ELSE log

(* The collective r has entered last may return: those it waits for have   *)
(* entered it too.                                                         *)
Returns(r) ==
  LET n == Len(log[r])
  IN  \A s \in WaitsFor(r, log[r][n]) : Len(log[s]) >= n /\ log[s][n] = log[r][n]

CallReturns(r) == Current(r) \in World => Returns(r)

-----------------------------------------------------------------------------
(* The application's calls *)

AppWorks(r) == \E g \in AppGrowth : app[r] + g >= 0 /\ app' = [app EXCEPT ![r] = @ + g]

LibWorks(r) == \E g \in LibGrowth : lib[r] + g >= 0 /\ lib' = [lib EXCEPT ![r] = @ + g]

Bug_Before(r) ==
  /\ pc[r] = "app" /\ ~Finished(r) /\ Current(r) \in Wrapped
  /\ AppWorks(r)
  /\ before' = [before EXCEPT ![r] = app'[r] + lib[r] + tool[r]]
  /\ all' = [all EXCEPT ![r] = Append(@, before'[r])]
  /\ tool' = [tool EXCEPT ![r] = @ + 1]
  /\ Enter(r, Current(r))
  /\ Goto(r, "call")
  /\ UNCHANGED <<program, k, lib, mpi, ident, out>>

(* Application code, the constructor of the caliper with its sample (the   *)
(* Pss of /proc/self/smaps: module Smaps says how it is read), the call.   *)
Before(r) ==
  /\ pc[r] = "app" /\ ~Finished(r) /\ Current(r) \in Wrapped
  /\ AppWorks(r)
  /\ before' = [before EXCEPT ![r] = app'[r] + lib[r] + tool[r]]
  /\ Enter(r, Current(r))
  /\ Goto(r, "call")
  /\ UNCHANGED <<program, k, lib, tool, all, mpi, ident, out>>

Bug_After(r) ==
  /\ pc[r] = "call" /\ CallReturns(r)
  /\ LibWorks(r)
  /\ LET after == app[r] + lib'[r] + tool[r] IN
       /\ all' = [all EXCEPT ![r] = @ \o <<before[r], after>>]
       /\ mpi' = [mpi EXCEPT ![r] = Append(@, after - before[r])]
  /\ tool' = [tool EXCEPT ![r] = @ + 1]
  /\ k' = [k EXCEPT ![r] = @ + 1]
  /\ Goto(r, "sync1")
  /\ UNCHANGED <<program, log, app, before, ident, out>>

(* The call returns, and the destructor of the caliper adds the samples.   *)
After(r) ==
  /\ pc[r] = "call" /\ CallReturns(r)
  /\ LibWorks(r)
  /\ LET after == app[r] + lib'[r] + tool[r] IN
       /\ all' = [all EXCEPT ![r] = @ \o <<before[r], after>>]
       /\ mpi' = [mpi EXCEPT ![r] = Append(@, after - before[r])]
  /\ tool' = [tool EXCEPT ![r] = @ + 1]
  /\ k' = [k EXCEPT ![r] = @ + 1]
  /\ Goto(r, IF Current(r) = "MPI_Init" THEN "sync1" ELSE "app")
  /\ UNCHANGED <<program, log, app, before, ident, out>>

(* A sampler that cannot read smaps exits, before or after the call.       *)
SampleFails(r) ==
  /\ "sample" \in program.faults
  /\ \/ pc[r] = "app" /\ ~Finished(r) /\ Current(r) \in Wrapped
     \/ pc[r] = "call" /\ CallReturns(r)
  /\ Goto(r, "failed")
  /\ UNCHANGED <<program, k, log, mem, data, ident, out>>

(* The call of the library, and no sample before or after it.              *)
BareCall(r) ==
  /\ pc[r] = "app" /\ ~Finished(r) /\ Current(r) \notin Wrapped
  /\ AppWorks(r)
  /\ Enter(r, Current(r))
  /\ Goto(r, "bare")
  /\ UNCHANGED <<program, k, lib, tool, data, ident, out>>

BareReturns(r) ==
  /\ pc[r] = "bare" /\ Current(r) # "MPI_Abort" /\ CallReturns(r)
  /\ LibWorks(r)
  /\ k' = [k EXCEPT ![r] = @ + 1]
  /\ Goto(r, "app")
  /\ UNCHANGED <<program, log, app, tool, data, ident, out>>

(* MPI_Abort does not return, and ends all ranks.                          *)
Abort(r) ==
  /\ pc[r] = "bare" /\ Current(r) = "MPI_Abort"
  /\ pc' = [s \in Rank |-> "failed"]
  /\ UNCHANGED <<program, k, log, mem, data, ident, out>>

-----------------------------------------------------------------------------
(* The tool's collectives: where they are made, and where they lead *)

ToolOp(where) ==
  CASE where \in {"sync1", "sync2", "sync3"} -> "tool_barrier"
    [] where = "gather"  -> "tool_gather"
    [] where = "gatherv" -> "tool_gatherv"

ToolPlaces == {"sync1", "sync2", "sync3", "gather", "gatherv"}

Inside == [sync1 |-> "in_sync1", sync2 |-> "in_sync2", sync3 |-> "in_sync3",
           gather |-> "in_gather", gatherv |-> "in_gatherv"]

EnterTool(r) ==
  /\ pc[r] \in ToolPlaces
  /\ Enter(r, ToolOp(pc[r]))
  /\ Goto(r, Inside[pc[r]])
  /\ UNCHANGED <<program, k, mem, data, ident, out>>

(* The two barriers of pinit, and that of MPI_Finalize.                    *)
Synced(r) ==
  /\ \E p \in {"sync1", "sync2", "sync3"} :
       /\ pc[r] = Inside[p]
       /\ Goto(r, CASE p = "sync1" -> "sync2" [] p = "sync2" -> "metadata" [] p = "sync3" -> "fill")
  /\ Returns(r)
  /\ UNCHANGED <<program, k, log, mem, data, ident, out>>

Metadata(r) ==
  /\ pc[r] = "metadata"
  /\ rank' = [rank EXCEPT ![r] = r]
  /\ numpe' = [numpe EXCEPT ![r] = N]
  /\ Goto(r, "app")
  /\ UNCHANGED <<program, k, log, mem, data, out>>

MetadataFails(r) ==
  /\ "metadata" \in program.faults
  /\ pc[r] = "metadata"
  /\ Goto(r, "failed")
  /\ UNCHANGED <<program, k, log, mem, data, ident, out>>

Finalize(r) ==
  /\ pc[r] = "app" /\ Finished(r)
  /\ AppWorks(r)
  /\ Goto(r, "sync3")
  /\ UNCHANGED <<program, k, log, lib, tool, data, ident, out>>

-----------------------------------------------------------------------------
(* report *)

Root(r) == rank[r] = 0

(* get_mem_usage_in_kb adds the differences up.                            *)
Totals(s) ==
  LET sum[n \in 0..Len(s)] == IF n = 0 THEN 0 ELSE sum[n - 1] + s[n]
  IN  [n \in 1..Len(s) |-> sum[n]]

(* The watermark: at least 0.                                              *)
High(s) ==
  LET values == {0} \union {s[n] : n \in 1..Len(s)}
  IN  CHOOSE v \in values : \A w \in values : w <= v

(* An MPI sample has the time of the second of the two it is made of.      *)
AllTimes(r) == program.clock[r]
MpiTimes(r) == [n \in 1..(Len(program.clock[r]) \div 2) |-> program.clock[r][2 * n]]

TextLines(key, times, usage) == [n \in 1..Len(usage) |-> <<key, times[n], usage[n]>>]

Text(r) ==
  << <<"RUN", rank[r], numpe[r], Len(all[r]), High(Totals(mpi[r])), High(all[r])>> >>
    \o TextLines("MPI_MEM_USAGE", MpiTimes(r), Totals(mpi[r]))
    \o TextLines("ALL_MEM_USAGE", AllTimes(r), all[r])

FillReport(r) ==
  /\ pc[r] = "fill"
  /\ text' = [text EXCEPT ![r] = Text(r)]
  /\ Goto(r, "gather")
  /\ UNCHANGED <<program, k, log, mem, data, ident, report, file>>

Bug_Gathered(r) ==
  /\ pc[r] = Inside["gather"] /\ Returns(r)
  /\ Goto(r, IF Root(r) THEN "gatherv" ELSE "finalize")
  /\ UNCHANGED <<program, k, log, mem, data, ident, out>>

Gathered(r) ==
  /\ pc[r] = Inside["gather"] /\ Returns(r)
  /\ Goto(r, "gatherv")
  /\ UNCHANGED <<program, k, log, mem, data, ident, out>>

recv_sizes == [s \in Rank |-> Len(text[s])]

Bug_displs ==
  LET at[s \in Rank] == IF s = 0 THEN 0 ELSE at[s - 1] + recv_sizes[s] IN at

displs ==
  LET at[s \in Rank] == IF s = 0 THEN 0 ELSE at[s - 1] + recv_sizes[s - 1] IN at

full_report_len == LET len[s \in Rank] == recv_sizes[s] + IF s = 0 THEN 0 ELSE len[s - 1]
                   IN  len[N - 1]

(* What PMPI_Gatherv leaves in node_report_buff: the text of each rank at  *)
(* its displacement, and what nobody wrote to as it was.                   *)
Garbage == <<"GARBAGE">>

node_report ==
  [p \in 1..full_report_len |->
     IF \E s \in Rank : p - displs[s] \in 1..recv_sizes[s]
     THEN LET s == CHOOSE s \in Rank : p - displs[s] \in 1..recv_sizes[s]
          IN  text[s][p - displs[s]]
     ELSE Garbage]

(* Where MPI_Init was not called every rank is a root and numpe is 0: the  *)
(* arrays are empty, and all ranks read and write past their ends.  A rank *)
(* crashes after either gather, or it goes on with some text.              *)
Astray(r) == Root(r) /\ numpe[r] # N

(* The arrays of a root that knows numpe have an element for every rank.   *)
Gatheredv(r) ==
  /\ pc[r] = Inside["gatherv"] /\ Returns(r)
  /\ ~Astray(r)
  /\ report' = IF Root(r) THEN [report EXCEPT ![r] = node_report] ELSE report
  /\ Goto(r, IF Root(r) THEN "write" ELSE "finalize")
  /\ UNCHANGED <<program, k, log, mem, data, ident, text, file>>

Crash(r) ==
  /\ pc[r] \in {Inside["gather"], Inside["gatherv"]} /\ Returns(r)
  /\ Astray(r)
  /\ Goto(r, "failed")
  /\ UNCHANGED <<program, k, log, mem, data, ident, out>>

(* The receiver of both gathers is still the rank that MPI calls 0.  It    *)
(* has got its own length first, makes a buffer of that and gathers its    *)
(* own text to the beginning; the others' lengths and displacements lie    *)
(* past the ends, and their texts go anywhere, over its own for instance.  *)
Stray(at) ==
  [p \in 1..Len(text[0]) |->
     IF \E s \in Rank \ {0} : p - at[s] \in 1..Len(text[s])
     THEN LET s == CHOOSE s \in Rank \ {0} : p - at[s] \in 1..Len(text[s])
          IN  text[s][p - at[s]]
     ELSE text[0][p]]

(* Any other rank makes a buffer of a length that nobody wrote, and nobody *)
(* writes into it.                                                         *)
StrayReports(r) ==
  {<<>>, <<Garbage>>}
    \union IF r = 0 THEN {Stray(at) : at \in [Rank \ {0} -> 0..Len(text[0])]} ELSE {}

GatheredvAstray(r) ==
  /\ pc[r] = Inside["gatherv"] /\ Returns(r)
  /\ Astray(r)
  /\ \E any \in StrayReports(r) : report' = [report EXCEPT ![r] = any]
  /\ Goto(r, "write")
  /\ UNCHANGED <<program, k, log, mem, data, ident, text, file>>

Write(r) ==
  /\ pc[r] = "write"
  /\ file' = [writers |-> file.writers \union {r}, content |-> report[r]]
  /\ Goto(r, "finalize")
  /\ UNCHANGED <<program, k, log, mem, data, ident, text, report>>

(* "Error saving report", and all ends well.                               *)
WriteFails(r) ==
  /\ "open" \in program.faults
  /\ pc[r] = "write"
  /\ Goto(r, "finalize")
  /\ UNCHANGED <<program, k, log, mem, data, ident, out>>

(* Neither a directory for reports nor $PWD is set: the rank exits.        *)
NoOutputPath(r) ==
  /\ "open" \in program.faults
  /\ pc[r] = "write"
  /\ Goto(r, "failed")
  /\ UNCHANGED <<program, k, log, mem, data, ident, out>>

PmpiFinalize(r) ==
  /\ pc[r] = "finalize"
  /\ Enter(r, "finalize")
  /\ Goto(r, "done")
  /\ UNCHANGED <<program, k, mem, data, ident, out>>

-----------------------------------------------------------------------------
Step(r) ==
  \/ Before(r)
  \/ After(r)
  \/ Abort(r)
  \/ BareCall(r)
  \/ BareReturns(r)
  \/ EnterTool(r)
  \/ Synced(r)
  \/ Metadata(r)
  \/ Finalize(r)
  \/ FillReport(r)
  \/ Gathered(r)
  \/ Gatheredv(r)
  \/ Crash(r)
  \/ GatheredvAstray(r)
  \/ Write(r)
  \/ PmpiFinalize(r)

Fault(r) == SampleFails(r) \/ MetadataFails(r) \/ WriteFails(r) \/ NoOutputPath(r)

Next == \E r \in Rank : Step(r) \/ Fault(r)

Spec == Init /\ [][Next]_vars

(* Every rank that can go on does: the MPI library makes progress.         *)
FairSpec == Spec /\ \A r \in Rank : WF_vars(Step(r))

-----------------------------------------------------------------------------
TypeOK ==
  /\ program \in Programs
  /\ pc \in [Rank -> {"app", "call", "bare", "metadata", "fill", "write", "finalize",
                      "done", "failed"} \union ToolPlaces \union {Inside[p] : p \in ToolPlaces}]
  /\ \A r \in Rank : k[r] \in 0..Len(CallsOf(r))
  /\ log \in [Rank -> Seq(World)]
  /\ \A r \in Rank : {app[r], lib[r], tool[r], before[r]} \subseteq Nat
  /\ all \in [Rank -> Seq(Nat)] /\ mpi \in [Rank -> Seq(Int)]
  /\ rank \in [Rank -> Rank] /\ numpe \in [Rank -> {0, N}]
  /\ file.writers \subseteq Rank

(* The tool's barriers and gathers never meet a collective of the          *)
(* application's, and are made by all ranks in the same order.             *)
CollectivesAgree ==
  \A r, s \in Rank : \A n \in 1..Len(log[r]) :
    n <= Len(log[s]) => log[r][n] = log[s][n]

(* The report is what ReportFile promises: rank 0 alone writes it, once it *)
(* has the whole texts of all ranks, each at its displacement; and rank 0  *)
(* leaves report() without having written it only if it could not be       *)
(* opened (aggregate_data and report of memnesia-rt.cc).                   *)
Report == INSTANCE ReportFile WITH
  known  <- program.init = "MPI_Init",
  lossy  <- "open" \in program.faults,
  texts  <- text,
  closed <- pc[0] \in {"finalize", "done"},
  file   <- IF file.writers \subseteq {0} THEN file.content ELSE Garbage

ImplementsReport == Report!Spec

(* Where all calls so far had wrappers, what is charged to MPI is what the *)
(* library holds: neither the application's growth between calls nor that  *)
(* of the tool's own dataset is mixed up with it.  Nothing is charged for  *)
(* a call without one, MPI_Wtime for instance.                             *)
ChargedToMpi ==
  \A r \in Rank :
    (\A c \in 1..k[r] : CallsOf(r)[c] \in Wrapped) /\ mpi[r] # <<>> /\ pc[r] # "call" =>
      /\ Totals(mpi[r])[Len(mpi[r])] = lib[r]
      /\ High(Totals(mpi[r])) >= lib[r]

(* A job without faults that calls MPI_Init and not MPI_Abort ends on all  *)
(* ranks, whatever the number of calls of each, and leaves a report.       *)
Quiet ==
  /\ program.init = "MPI_Init" /\ program.faults = {}
  /\ \A r \in Rank : \A c \in 1..Len(program.calls[r]) : program.calls[r][c] # "MPI_Abort"

Ended == (\A r \in Rank : pc[r] = "done") /\ file.writers = {0}

ReportIsWritten ==
  Quiet => <>(\A r \in Rank : pc[r] = "done") /\ <>(file.writers # {})

(* Until it has ended like that no such job is stuck: some rank is not     *)
(* waiting for others in a collective, the application's or the tool's, or *)
(* all it waits for have come (wrappers of memnesia-pmpi.cc, pinit,        *)
(* aggregate_data).                                                        *)
CanGoOn(r) ==
  /\ pc[r] \notin {"done", "failed"}
  /\ pc[r] \in {"call", "bare"} => CallReturns(r)
  /\ pc[r] \in {Inside[p] : p \in ToolPlaces} => Returns(r)

NeverStuck == Quiet => Ended \/ \E r \in Rank : CanGoOn(r)

(* No rank goes on for ever, whatever fails.  A call is two steps, before  *)
(* and after, and that of MPI_Init with the barriers of pinit five more;   *)
(* each step takes one of what is left of a rank, and nothing is added to  *)
(* what is left of another (which loses all of it in MPI_Abort).           *)
StepsFrom ==
  [call |-> 9, bare |-> 9, sync1 |-> 15, in_sync1 |-> 14, sync2 |-> 13, in_sync2 |-> 12,
   metadata |-> 11, app |-> 10, sync3 |-> 9, in_sync3 |-> 8, fill |-> 7, gather |-> 6,
   in_gather |-> 5, gatherv |-> 4, in_gatherv |-> 3, write |-> 2, finalize |-> 1, done |-> 0]

StepsLeft(r) ==
  IF pc[r] = "failed" THEN 0
  ELSE StepsFrom[pc[r]] + 2 * (Len(CallsOf(r)) - k[r]) + IF k[r] = 0 THEN 5 ELSE 0

StepsRunOut ==
  [][\E r \in Rank :
       /\ StepsLeft(r)' < StepsLeft(r) /\ StepsLeft(r)' >= 0
       /\ \A s \in Rank \ {r} : StepsLeft(s)' \in {StepsLeft(s), 0}]_vars

(* "Only one MPI process will write the report." (memnesia-rt.cc:430)      *)
OneWriter == \A r, s \in file.writers : r = s

=============================================================================
