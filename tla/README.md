# A verification project for mpimemu

`mpimemu` measures how much memory an MPI library uses. A job samples the
memory of every process and every node before and after `MPI_Init`, reduces the
samples to minima, maxima and averages over the job, and prints a table. The
repository also holds scripts that run series of jobs and plot them, and
`memnesia`, a tracing library that samples memory around every MPI call.

This directory holds TLA+ models of the C program, TLC configurations that
check them on small instances, and TLAPS proofs about them. `PROJECT.json`
lists the runs, the theorems, the hazards, and for every definition the lines
of source it stands for.

To check a module, `tlc -config X.cfg M`; to check proofs, `tlapm M.tla`.

## The system

| part | source | state | operations |
|---|---|---|---|
| program | `src/src/mpimemu.c`, `mmu_process.c` | stage, exit code, the process object | construct, options, reserve, sample before, init MPI, verify, sample after, reduce, report, finalize |
| MPI layer | `mmu_mpi.c` | rank, smp and worker communicators and ranks, number of nodes, the static counter of `get_msg_size` | init, locality, verification of node sizes, workload, finalize |
| memory sampling | `mmu_memory.c` | four lists of samples (self and node, before and after init), sample rate and time | reserve, sample, local reduction |
| samples and reductions | `mmu_memory_sample.c`, `mmu_process.c` | a sample is an array of kB per item; an mma holds minima, maxima, totals and averages | `get_mma`, `get_node_mmas`, `get_global_mmas` |
| list | `mmu_list.c` | array of item pointers, size, capacity | construct, reserve, append, pop, destruct |
| options | `mmu_args.c`, `mmu_util.c` | settings | parse, validate |
| job driver | `mpimemu-run` | directories, list of job sizes | run a series of jobs |
| statistics | `mpimemu-mkstats` | what has been read of the logs, the tables so far | list the logs, read each four times, pick names, write two tables |
| plots | `mpimemu-plot` | none beyond its files | pass tables to gnuplot |
| memnesia | `src/memnesia/trace` | per-call samples, totals, timers | one wrapper per MPI function, aggregate and write at `MPI_Finalize` |
| memnesia report | `memnesia-report` | time series by rank, their aggregate | parse, aggregate, find minimum and maximum, plot |
| memnesia utilities | `src/memnesia/utils` | none | plots, scaling studies |

How they interact. Processes of a job share nothing; they interact through MPI
alone. Within a process everything is a call, there are no threads and no
callbacks. `main` calls `mmu_process`, which owns one `mmu_mpi` and one
`mmu_memory`, which owns four `mmu_list`s. The driver starts jobs one after
another and keeps their output, from which `mkstats` makes tables; the two share
nothing but files, and nothing keeps `mkstats` from a directory whose driver is
still at work. `memnesia` is linked into other programs and interacts with them by
interposing the MPI functions; `memnesia-report` reads the file it leaves.

What is hard here.

- Order between processes. Every collective must be entered by all members in
  the same order, whatever branch each has taken; the decision to give up (nodes
  hold different numbers of processes) must be common. Blocking `MPI_Sendrecv`
  rings must agree on direction, length and message size.
- Failures of one process. Allocation or `/proc` may fail on one rank alone,
  at any stage. That rank finalizes and leaves; no message tells its peers.
- Made-up data. All but one process of a node contribute zeros to the node
  reduction; which operator and which divisor are right depends on the list.
- Numbers. Words wrap; comparison functions truncate; ints are multiplied
  before they are widened.
- The allocator. The list has to survive failure at any call.
- Files. Drivers and statistics take names that others may take at the same
  time, and read what is not complete yet.

What makes each part correct.

- Program and MPI layer: collectives match; nothing is called on a freed
  communicator; a job on uneven nodes measures nothing and fails everywhere; a
  job without faults ends with exactly one report or one complaint; a fault
  anywhere prevents success and a report everywhere.
- Locality: the smp communicator is the node.
- Reductions: the report is that of the real samples.
- List: it is a stack, and its fields agree with its array.
- Sampling: what is kept in which list is a measurement of the file it stands
  for; no array grows while memory is measured.
- Options: a command line is run, explained or refused as its options say; a run
  samples at the rate and for the time asked for.
- Driver: a data directory has one driver; sizes grow to the maximum; what looks
  like a complete series is one.
- Statistics: of a series that is running or has failed a table shows whole values
  for all sizes but the last; of one that is done it shows all; no table is lost.
- memnesia: the tool's collectives never meet the application's; a report has the
  text of every rank, once, written by one; MPI is charged with what the library
  holds and nothing else. Sampler: the sum over all mappings but its own. Its
  report script: the sum of the ranks at every time, and the right ranks' names.

## The modules

| module | models |
|---|---|
| `MmuStack` | abstract: what `mmu_list.h` promises |
| `MmuList` | `mmu_list.c`, call by call, with a failing allocator |
| `MmuListProofs` | theorems about it |
| `Mpi` | the MPI runtime, external, from how `src/src` uses it |
| `Mpimemu` | a whole job: N processes in `main`, over `Mpi` |
| `MCMpimemu` | small placements and command lines for it |
| `MpimemuProofs` | theorems about it |
| `Locality` | locality for MPI 1 and 2: address numbers, sort, color, split |
| `LocalityProofs` | theorems about it |
| `Aggregation` | `get_mma`, `get_node_mmas`, `get_global_mmas` on numbers |
| `MCAggregation` | placements and values for it |
| `AggregationProofs` | theorems about it, and about sums over finite sets |
| `ProcSample` | what a sample of a file of `/proc` is: keys, tables, values |
| `SampleLog` | abstract: what `mmu_memory.h` promises a process that samples |
| `SampleStore` | `mmu_memory.c` and `sample`: the sampling of one process, line by line |
| `MCSampleStore` | small tables and files for it |
| `SampleStoreProofs` | theorems about it |
| `Settings` | `mmu_args.c`, `mpimemu_update_proc`, the number of samples |
| `MCSettings` | arguments for it |
| `SettingsProofs` | theorems about it |
| `RunDriver` | `mpimemu-run`: drivers, data directories, series of jobs |
| `MCRunDriver` | small environments for it |
| `MkStats` | `mpimemu-mkstats` beside the drivers of `RunDriver` |
| `MCMkStats` | small series for it |
| `MkStatsProofs` | theorems about both |
| `ReportFile` | abstract: what the report of memnesia promises its readers |
| `Memnesia` | the tracing library on N ranks |
| `MemnesiaReport` | `memnesia-report` on what it leaves |
| `MemnesiaProofs` | theorems about both, and about `Smaps` |
| `MCMemnesia` | small applications for both |
| `Smaps` | its sampler of `/proc/self/smaps` |
| `MCSmaps` | small files for it |

`Mpimemu` composes the program, the MPI layer and the sample lists with `Mpi`.
`Locality` and `Aggregation` look closer at what `Mpimemu` takes as one step:
`FinishSplitSmp` puts into `comm[r]["smp"]` the ranks on the node of `r`, which
`Locality!SplitByNode` shows for MPI 1 and 2 (for MPI 3 the library promises
it); the samples `Mpimemu!ReportCoversJob` shows to be in the averages (real
ones on exactly one rank of each node, bogus ones on the others) on evenly
filled nodes (`PpnGate`) are those `Aggregation` starts from. `SampleStore` is what
`Mpimemu!TakeSample` stands for, in one process; `Settings` is its command line;
`RunDriver` starts such jobs, and `Mpimemu!JobEnds` is why they end; `MkStats`
extends `RunDriver` by the readers of its logs. `Memnesia` takes the number `Smaps`
computes as one step, and `MemnesiaReport` extends it by the reader of its report.

### MmuList

`ptrs` is the array of `item_ptrs`, `size` and `capacity` the fields, `live`
the items the list has allocated and not given away, `phase` the caller's view.
One action per call and outcome. A failing `realloc` leaves the list without
its array but with its old size and capacity, as `list_grow` does. A crash is a
state of its own: the code reads or writes a slot that is not there.

A call that finds no memory leads to the phase "failed". The callers in the
repository destruct the list then; `GoOn` is one that does not, which nothing in
the interface keeps it from. After it the phase is "misused" until the list is
closed or crashes. `MmuStack` promises nothing of a misused list and everything
of another, so one refinement covers all callers.

### Mpimemu

`pc[r]` names the function rank `r` is in. A function with MPI calls is entered,
makes its calls one after another (`EnterCall`), and the `Finish` action of the
function is the return of a call with all the code does up to the next one.
`step[r]` counts the calls. Every collective and every message is in `log`, per
rank and communicator; matching is by position in it, as MPI orders it.

| actions | code |
|---|---|
| `Setup`, `SetupFails` | `main` up to `mmu_process_reserve_memory` |
| `TakeSample`, `TakeSampleFails` | an iteration of `sample` and what it calls down to the append; failure before or after the self sample |
| `FinishInit` ... `FinishNumNodes` | `mmu_mpi_init`, `set_locality_info` for MPI 3 |
| `FinishVerify` | `world_root_verify_smp_size`, and `main` up to the first sample |
| `FinishWork`, `WorkFails` | `mmu_mpi_work`: allreduce, barrier, ring, workers' exchange |
| `LocalMmas`, `FinishNodeMma`, `FinishGlobalMma`, `UsageFails` | `mmu_process_process_usage` |
| `FinishFreeSmp`, `FinishFreeWorker`, `FinishFinalize` | `mmu_mpi_finalize`, the end of `main` |
| `Fail` | the `out` label of `main` with `bad_func` set |

Names are those of the code where it has any. `MayFail` says at which stages a
rank may run out of memory or fail to read `/proc`: after such a fault the rank
sets its exit code and, if MPI was initialized, goes to `mmu_mpi_finalize`.

The runtime of `Mpi`: a reduction, split or barrier returns when all members
have called it; `MPI_Init`, `MPI_Comm_free` and `MPI_Finalize` may return before
that, and need not. `MPI_Sendrecv` returns when its message has arrived, and may
wait until the message it sends is taken. A rank that fails is not noticed by
the others: MPI aborts a job for an error of its own, but a program that calls
`MPI_Finalize` early is none.

### Locality

`netnum` is the number of the network address of each rank, equal on a node and
different between nodes. `sorted` is what `qsort` makes of all numbers.
`cmp_uli_fn` returns an unsigned long difference as an int, so it is not an
order and `qsort` promises nothing: `sorted` is any arrangement. The two loops
of `get_my_color` are the actions `Scan`, `Skip`, `NextNode` and `Found`.

### Aggregation

Samples are popped one at a time, in words of `Bits` bits, and reduced with the
code's overflow check. The reductions over the node and the world are one step
per process each, in which all contributions are already fixed. Averages are
exact fractions; rounding of doubles is not modelled. Placements are even, which
`Mpimemu!PpnGate` shows for every job that gets here.

### SampleStore

`lists` are the four sample lists, `capacity` the sizes of their arrays, `file`,
`line`, `sample` and `kind` the locals of `get_sample`, `i` that of `sample`.
`pc` is "reserve", "loop" (in `sample`), "call", "read" and "append" (in
`get_sample`). A file is the sequence of what `fgets` returns of it; a line has a
key in one of the two tables, another, or none, and a value that is a number,
one too large, or none. Every line is a step, so a file is read with any failure
anywhere. `NoMoreLines` may be taken before the end: `fgets` returns NULL for an
error too.

`SampleLog` has three variables (`delegate`, `lists`, `ended`) and two actions
that matter: `Keep` appends a measurement of some file as far as it could be
read, in the order self, node, self, node, ..., before MPI_Init and after; `Fail`
ends it with what there is. The refinement is by names: the variables of the
log are variables of the store. Which of several equal keys counts, that a key
of the other table does not, that a sample starts from zero, which flags choose
which list and file, and that a failure appends nothing are all in it.

### Settings

Ints, longs and `size_t` have widths that are constants; numbers wrap by
definition where the code truncates, and the product of two ints that is no int
is either wrapped or computed in the wider type, as compilers do. Options are
read one at a time, in every order. Copies of `argv` are not modelled.

### RunDriver

`pc[d]` is the function driver `d` is in. Looking for a name (`Taken`, `Free`) and
taking it (`MakeDir`) are different steps, since another driver may come between.
`logs` maps directory and size to what became of that job. `x` and `numpes` are
the variables of `get_numpes`; the user's expression is a function, and all kinds
of functions are tried, those that never grow included.

### MkStats

`DriverStep` is a step of `RunDriver`, with what it means for the log on disk:
`level` counts the sections that are there in whole (even) or with their last
value cut (odd), and `Printed` lets more of a running job's output arrive. A job
prints the process' and then the node's section of memory before `MPI_Init`, and
both after it; a job that has failed leaves whole lines, since its end flushes
them.

`reader[r]` is one run of the script: where in `main` it is, the sizes still to
read, the rows of its two tables, and the names it has picked. `List`, `ReadPre`,
`ReadPost`, `PickName`, `OpenTable` and `CloseTable` are its steps, one for every
access to a file that others may change: each log is opened for each half of a
row of each table. Both tables are open before either is written, and their text
is in a buffer until they are closed. `before` is no part of the script: it
remembers what there was when it began.

`DataFiles` sorts by number what the script sorts by the number in a path.

### Memnesia

A rank's `pc` is "app", in a call with a wrapper ("call") or without ("bare"), in
one of the tool's collectives, or past them. `Before` is the application's code up
to a call and the constructor of the caliper, `After` the return with its
destructor. The wrappers of `MPI_Wtime` and `MPI_Abort` are compiled out
(`memnesia-pmpi.cc:520`, `:599`), so both are calls without (`Bare`), with no sample
and nothing charged; `MPI_Abort` does not return but ends all ranks (`Abort`).
Memory is three numbers per rank, of the application, of the library
and of the tool, and a sample is their sum. Collectives of application and tool
are in one `log` per rank, since they share `MPI_COMM_WORLD`, matched by
position; who waits for whom follows from the kind of collective. `Text`,
`recv_sizes`, `displs` and `node_report` are those of the code, in lines instead
of characters. Where `MPI_Init` was not the call that initialized MPI the arrays
of `aggregate_data` are empty, and what is done past their ends is any of: a
crash after either gather, or some text (`GatheredvAstray`). The rank that MPI calls 0
is still the one that receives: the length it gathers first is its own, and so is
the text at the beginning of its buffer, so that what it is left with may be a
readable report of rank 0 alone, or one with another's text over its own, at a
displacement that nobody wrote (`Stray`). What other ranks are left with nobody
wrote at all. Displacements are those at which a text begins inside the buffer or
behind it, in lines; a text cut in the middle of a line is `Garbage`.
A program has a clock per rank, when its
samples are taken, since times are all that tells the samples of ranks apart; it is
a sequence of integers that never go back, with a time for every sample there can be.

`ReportFile` sees the texts of the ranks, whether rank 0 is through, and the file.
It has three steps: a rank contributes its text, which says whose it is; rank 0
publishes all of them in order; or, where a file cannot be opened, loses them. It
promises nothing of a job that never called `MPI_Init`. A report that was opened is
written whole: see "What is not modelled".

### MemnesiaReport

The script is one action on the file of a finished job, `Crunch`, since nothing
runs beside it, or `Raise` where it fails an assertion. `run_meta` (with
`meta_lines` and `meta_line`, the lines at which it finds run information),
`TimeSeries`, `rank_to_time_series`, `deltas`, `accumulate` and `minidx` are its
functions; texts are found in the file by the lines of run information they begin
with (`Block` is the positions of the lines of one), and a text of a rank that was
seen replaces the earlier one. Where the script adds value by value, to the total of
a time in a dictionary, the model takes the `Total` of a sequence of values; it is
the same whatever the order. What it says is promised of jobs that called `MPI_Init`:
of another it may read a report of one rank, with rank 0 and size 0 in its run
information, and takes it for the whole (`AggregateIsSum` and `WhoIsRank` have
`program.init = "MPI_Init"` as a condition, and fail without it).

### Smaps

A file is a sequence of lines: headers, that say whether their path is the
tracing library's, and lines with key, value and units. Files are those the code
relies on: headers follow `VmFlags` lines.

## The runs

| run | shows | bounds |
|---|---|---|
| `list` | `Consistent`, refinement of `MmuStack`, for callers that stop at a failure and for those that go on | up to 3 items and slots, two payloads; the list is reserved, grows past its reservation, and is emptied within them |
| `job_clean` | types, `CollectivesMatch`, `NothingAfterFree`, `MessagesFit`, `PpnGate`, `LockstepSampling`, `ExitTellsOutcome`, `NeverStuck`; under fairness `JobEnds` | 4 ranks; 2 + 2 by block and in turn, 1 + 3; 2 samples per stage; with and without workload; bad command lines |
| `job_faults` | `SuccessIsUnanimous`, `ReportCoversJob`, `StepsRunOut` with faults anywhere | 3 ranks in all 5 placements, 1 sample |
| `locality` | `ScanInBounds`, `SplitByNode` | 4 ranks, 3 network numbers, all placements and all arrangements |
| `aggregation` | `ReportIsOfRealSamples`, `OverflowDetected` | 4 ranks in all even shapes, 2 samples each of 2 or 5, words of 3 bits: 5 + 5 overflows, the rest does not |
| `store` | types, `NoArrayGrows`, refinement of `SampleLog` | 2 samples per stage; 3 files of self, 2 of the node; words of 2 bits |
| `settings` | types, `VerdictKept`, `SamplesAsAsked` | all command lines of up to 3 options; ints of 5 bits, longs of 7 |
| `driver` | `OwnDirectory`, `SizesGrowToMax`, `SeriesInOrder`; under fairness `SeriesEnds` | 2 drivers, 3 names, 9 environments, X up to 4 |
| `tables` | `OnlyLastRowMayBeCut`, `SeriesTabulated`, `TablesKept` | a driver of one of three series (three sizes, one size twice, none) and two readers with one output directory |
| `memnesia` | `NeverStuck`, `CollectivesAgree`, `ChargedToMpi`, refinement of `ReportFile`, `AggregateIsSum`, `WhoIsRank`, `StepsRunOut`; under fairness `ReportIsWritten` | 2 ranks, 5 applications, memory that grows and shrinks, faults anywhere or none |
| `memnesia_writers` | a violation: see Findings | 2 ranks, `MPI_Init_thread` |
| `smaps` | `TallyIsSum` | all files of up to 3 mappings from 6 |

Why these bounds are enough. Four ranks on two nodes are the least in which a
rank has peers on its node, peers elsewhere, and is neither first on its node
nor in the job; 1 + 3 is uneven, and has worker communicators of sizes 2, 1 and
1, in which the neighbours of `workerxchange` wrap around and coincide. In turn
(cyclic) placement makes world rank and smp rank differ. Two samples per stage
use four of the five message sizes, so a counter out of step shows; the fifth
size and the return to the first behave alike. Four ranks on four nodes are
left out of `job_clean` (without workload nothing synchronises ranks that are
alone on their node until the world reductions, and states multiply); the
same shape with three ranks is in `job_faults`. Faults are tried with three
ranks because every rank may fail at every point, including several of them. In
`locality` four ranks on three numbers have nodes of one, two, three and four
members, and arrangements in which the entries of one node are apart.

In `store` two samples per stage make the second start from what the first has
left; the files have a key missing, a key twice, one of the other table, a line
without a key, one without a number and one too large, and a total below what is
free. In `settings` the numbers are negative, zero, small, the largest int, and
three that are no int (cut to a positive, a smaller and a negative one) and one
that is no long; with three options one may be overridden and then stopped. Two
drivers are enough for a race, and three names for both to have passed one by.
In `memnesia` the ranks make different numbers of calls, so their texts have
different lengths; collectives with and without wrapper stand next to the
tool's; one application calls `MPI_Init_thread`, and `MPI_Wtime` on one rank, and
its rank 0 has samples of which a report may be left. Their clocks
have samples of two ranks at one time, several of one rank at one time, samples
in turn, and one rank wholly after the other: all that `accumulate` can tell apart.
Three mappings are one between two others. In `tables` one driver is enough, since
a directory has one writer (`OwnDirectory`); two readers are the least that can
pick one name; the three sizes have one before, at and after the latest when the
directory is listed, and the series of one size twice overwrites its log.

Deadlock is checked except where a run says `CHECK_DEADLOCK FALSE`: there
processes have exited, a list is closed, or the peers of a failed process wait
for ever, which is what the code does. A driver, a sampler or a traced job stops
too: `RunDriver`, `MkStats`, `Settings`, `SampleStore`, `Memnesia` and `Smaps` have
final states.

Fairness (`Mpimemu!FairSpec`): each process keeps running, and a call that MPI
may no longer put off returns (`MustReturn`): processes are scheduled by an
operating system, code between MPI calls has bounded loops and no locks, and
MPI guarantees progress of matched operations. No fairness is given to faults,
nor to a `Sendrecv` whose message nobody takes or to a finalize whose peers
have not come.

`RunDriver!FairSpec` and `Memnesia!FairSpec`: each driver and each rank that can
take a step of its own does. A script between two commands has no reason to
stop; a job of its own ends, well or not (`RunEnds` or `RunFails`; which of
them is not fair). A rank is enabled only if MPI would let its call return.
Faults of `Memnesia` are not fair, and `ReportIsWritten` is about applications
without any.

### Mutants

Every property is tied to a slip in the code that it notices. The definitions
named `Bug_X` are `X` with that slip; no specification uses them.

| property | slip |
|---|---|
| `Consistent` | reserve sets the capacity to a smaller size too |
| `ImplementsStack` | pop takes the first item |
| `Mpimemu!TypeOK`, `Mpimemu!StepsRunOut` | the sampling loop runs once too often |
| `CollectivesMatch` | only rank 0 acts on differing node sizes |
| `NothingAfterFree` | the worker communicator is not freed before `MPI_Finalize` |
| `MessagesFit` | the message size depends on the smp rank |
| `PpnGate` | the maximum is compared with one's own size instead of the minimum |
| `LockstepSampling` | the workload is never run |
| `ExitTellsOutcome`, `SuccessIsUnanimous` | only rank 0 sets its exit code when nodes differ |
| `JobEnds`, `Mpimemu!NeverStuck` | a ring has its left neighbour on the right |
| `ReportCoversJob` | world rank 0 collects for all nodes |
| `ScanInBounds` | the scan goes on past its own number |
| `SplitByNode` | nodes are counted only where numbers rise |
| `ReportIsOfRealSamples` | the minimum over a node is a minimum for made-up zeros too |
| `OverflowDetected` | the overflow check uses <= |
| `SampleStore!TypeOK` | used memory is a signed difference |
| `NoArrayGrows` | one slot less than the number of samples is reserved |
| `ImplementsLog` | a sample starts from what the last one had |
| `Settings!TypeOK` | a long is cut to an unsigned int |
| `VerdictKept` | help and version go on with the next option |
| `SamplesAsAsked` | the sample time is set from the rate |
| `OwnDirectory` | a directory that exists by now is taken all the same |
| `SizesGrowToMax` | the maximum is appended without looking |
| `SeriesInOrder` | a failed run does not end the series |
| `SeriesEnds` | the number in the name is not advanced |
| `OnlyLastRowMayBeCut` | logs are sorted downwards |
| `SeriesTabulated` | a row replaces those before it |
| `TablesKept` | the name is always the first |
| `CollectivesAgree`, `ReportIsWritten`, `Memnesia!NeverStuck` | only the root enters the second gather |
| `Memnesia!StepsRunOut` | every wrapper begins the tool's runtime again, not that of `MPI_Init` alone |
| `ImplementsReport` | displacements add a rank's own length |
| `AggregateIsSum` | the first value of a series is not in its differences |
| `WhoIsRank` | positions count from one |
| `ChargedToMpi` | the first sample is stored in the dataset before the call |
| `TallyIsSum` | once an entry counts, all later ones do |

### Findings

With a run of its own:

`memnesia_writers`. `memnesia-rt.cc:430` says "Only one MPI process will write the
report." Rank and size are learnt in `pinit`, called from the wrapper of
`MPI_Init` alone. In an application that calls `MPI_Init_thread` every rank has
rank 0 and size 0 at `MPI_Finalize`: each takes itself for the root, writes past
arrays of no elements, and, if it survives that, writes the report. What rank 0
writes may be its own text, alone and readable: nothing in it tells
`memnesia-report` that the other ranks are missing but the size 0 it prints.

Met while modelling; the models do what the code does:

- `mmu_list.c:115`. `list_grow` stores the result of `realloc` in `item_ptrs`
  before looking at it. If it fails the old array leaks, and the list keeps its
  size and capacity; a later append that fits the old capacity gets
  `MMU_SUCCESS` from `list_grow` (`MmuList!AppendCrashes`) and stores through NULL.
  No caller in the repository goes on after a failure, and only one that does
  comes to this (run `list`, theorem `ListCrashOnlyByMisuse`).
- `mmu_memory_sample.c:220`. `mmu_memory_sample_get_mma` says "overflow exception.
  cannot continue." and returns `MMU_SUCCESS` all the same, with no result
  (`Aggregation!Overflow`). Its caller goes on, and `get_node_mmas` reads through
  the NULL pointer (`mmu_process.c:478`, `Aggregation!Dereference`). Totals of
  plausible kB counts do not come near 2^64. What is printed is still right: the
  process dies before it contributes anything (`ReportIsOfRealSamples` holds).
- `README.md:130` says that with start 1, `X+1` and maximum 4 the driver "Will run
  jobs of size 1, 2, 3, 4." `get_numpes` evaluates the function at the start index
  first (`mpimemu-run:246`), so they are 2, 3, 4.
- `mmu_memory.c:713`, "make sure that the user isn't requesting something insane":
  rate times time is an int product that is widened when it has overflowed
  already. Where it wraps to a small positive number the job samples that many
  times (`Settings!Products`); the comparison with `SIZE_MAX` is never true on a
  machine of 64 bits. `SamplesAsAsked` is therefore about products that are ints.
- `mpimemu.c:95`. For a negative rate or time the default is used, as the warning
  says, but the settings shown with the results are the negative ones: the last
  conjunct of `SamplesAsAsked`.
- `mmu_memory.c:343`. The loop over `fgets` takes a read error for the end of the
  file, and "our sample is now fully populated" (line 425) is said of part of
  one. `SampleLog` can promise no more than a measurement of a file as far as it
  could be read.
- `memnesia-sampler.cc:116`. A line of smaps with two tokens (`THPeligible`) reads
  past the tokens (`Smaps!NoUnits`).
- `memnesia-rt.cc:452`. A report that cannot be opened is an error message and a
  success (`Memnesia!WriteFails`).
- `memnesia-rt.cc:434`. A report is named after the application and the second:
  of two jobs that end in one second the later replaces the other's report.
- `mpimemu-mkstats:270`. A log that is being written is read as far as it has got,
  and the last value of its last line may be cut to a smaller number; the two
  halves of a row, and the rows of the two tables, may be of different moments.
  The table does not tell (`OnlyLastRowMayBeCut` says where this can be).
- `mpimemu-mkstats:299`. A file name nobody has is picked and then opened for
  writing; two runs at once may pick one name, and what is left is the text of one
  over that of the other (`MkStats!Over`). `SeriesTabulated` is about runs whose
  names are their own.
- `mpimemu-mkstats:276`. If no log has a row for the node table the date is
  undefined: the files are written all the same, without it in their names.

## The proofs

All proofs are checked by TLAPS from the assumptions named in the modules: there
is at least one process; placements map ranks to integers, those of `Aggregation` fill
nodes evenly; a process takes at least one sample; the constants have the types stated
beside them; network numbers are naturals; a payload is not the content of unwritten
memory; headers of `smaps` follow `VmFlags` lines.

| theorem | property |
|---|---|
| `ListTypeCorrect`, `ListConsistent`, `ListImplementsStack` | types and the properties of run `list`, for any payloads and bound |
| `ListCrashOnlyByMisuse` | a list crashes only if its caller went on after a failed call |
| `JobTypeCorrect` | `Mpimemu!TypeOK`, for any number of ranks, placement, command line and faults |
| `GateHolds` | `Mpimemu!PpnGate`, likewise |
| `AllSucceedOrNone`, `SamplesStayTogether`, `ClosedForGood` | `Mpimemu!SuccessIsUnanimous`, `LockstepSampling`, `NothingAfterFree`, likewise |
| `ReportCovers`, `MessagesAlwaysFit` | `Mpimemu!ReportCoversJob`, `MessagesFit`, likewise |
| `CollectivesAgree`, `ExitCodeTells` | `Mpimemu!CollectivesMatch`, `ExitTellsOutcome`, for any number of ranks, placement and command line, if nothing fails (`MayFail = {}`) |
| `JobRunsOut` | `Mpimemu!StepsRunOut`, for any number of ranks, placement, command line and faults |
| `NoDeadlock` | `Mpimemu!NeverStuck`, for any number of ranks, placement and command line, if nothing fails |
| `MaximaAgreeIffEqual` | max(S) = -max(-S) exactly if S has one member |
| `StoreTypeCorrect`, `NoArrayEverGrows`, `StoreImplementsLog` | those of run `store`, for any tables, files and number of samples |
| `ReportOfReal`, `OverflowIsDetected` | `ReportIsOfRealSamples`, `OverflowDetected` of run `aggregation`, for any number of processes, samples and bits, and any even placement |
| `SettingsTypeCorrect`, `VerdictIsKept`, `SampledAsAsked` | `TypeOK`, `VerdictKept`, `SamplesAsAsked` of run `settings`, for any widths, arguments and number of options |
| `DriverTypeCorrect`, `DirectoriesAreOwn`, `SizesCorrect`, `SeriesCorrect` | types and the invariants of run `driver`, for any drivers, functions and bounds |
| `TablesAreKept`, `OnlyLastRow` | `TablesKept` and `OnlyLastRowMayBeCut`, for any drivers, series and number of readers |
| `TablesComplete` | `SeriesTabulated`, likewise |
| `DriversUndisturbed` | beside readers drivers do what they do alone |
| `MemnesiaTypeCorrect`, `MemnesiaCollectives`, `MpiIsCharged`, `MemnesiaImplementsReport` | types, and `CollectivesAgree`, `ChargedToMpi`, `ImplementsReport` of run `memnesia`, for any number of ranks, applications, growth of memory and faults |
| `TracedNeverStuck`, `TracedRunsOut` | `NeverStuck`, `StepsRunOut` of run `memnesia`, likewise; the former of applications that call `MPI_Init`, not `MPI_Abort`, and nothing fails |
| `ReportNamesRanks`, `AggregateOfAll` | `WhoIsRank`, `AggregateIsSum`, likewise, of applications that call `MPI_Init` |
| `SampleIsSum` | `TallyIsSum` of run `smaps`, for any keys and files in which headers follow `VmFlags` lines |
| `LocalityTypeCorrect`, `ScanStaysInBounds`, `SplitFindsNodes` | types and the invariants of run `locality`, for any number of ranks and nodes |

List. `TypeOK /\ Consistent` is not inductive: in a misused list sizes and slots
no longer agree, but the number of items it owns must stay a number. `Counted`
says what is left: it owns at least as many as it counts, whatever has happened.
The refinement maps the list to its first `size` slots while open and to nothing
otherwise; each call maps to a step of the stack or, for a crash, to a step of a
misused one.

Types of a job. `TypeOK` is not inductive: that `step` stays within bounds,
that neighbours are ranks and that the number of samples is positive need to
know how far each rank is. `Control` says so: `step` is at most the number of
calls the function of `pc` makes, and less outside a call (`Counting`); who has
yet to sample before `MPI_Init` has made no call (`Early`); a rank is in its own
worker communicator once that is split (`HasWorkers`); and who is past the start
has samples to take (`HasSamples`). `TypeInv` is `TypeOK` with `Control`.

The gate. Who measures after `MPI_Init` has come through `FinishVerify`, where
the maxima of sizes agreed. `GateInv` adds to `TypeInv` and `PpnGate` that every
log tells the truth (`Announced`: the contributions to the split are nodes, those
to the verification are sizes of nodes), that who is about to contribute its
size knows it (`SizeKnown`), and that who is in the split or the verification
has made that call (`Asking`). Then the contributions at `FinishVerify` are the
sizes of the nodes of all ranks, and `MaximaAgreeIffEqual` makes them equal.

Success and samples. What keeps ranks together is the world communicator, so the
invariant counts the calls each has made on it (`WorldCalls`). The code fixes how
many precede each function (`OnCourse`): five in `mmu_mpi_init`, two for each run
of the workload, the reductions. Whoever failed is at the end of `main`, having
made no more than those before the reductions and `MPI_Finalize` (`OffCourse`). All but
`MPI_Init` and `MPI_Finalize` return only once everyone has entered them, so who is
past one knows all others have made at least as many calls (`NobodyAhead`); with
`TypeInv` this is `CourseInv`. Who succeeds has returned from all reductions, so all
others have entered them, so none of them failed before. After the reductions
nothing can fail. For samples, `SampleInv` adds how many a rank has taken after
`MPI_Init` for each place and number of calls (`SampleCount`); two ranks two samples
apart would be more calls apart than `NobodyAhead` allows. Without the workload
there is nothing to hold ranks back, and the property does not claim it.

The end of a job. `ClosingInv` says of each rank which communicators are open
(nothing on them frees them or finalizes), freed or closed (such a call is the
last) by where it is in `mmu_mpi_finalize`. A failed call of `main` goes to its start
with all open, whatever it failed in.

The report of a job. `ReportInv` adds what is in every list: `Located` says that a
process knows its rank on its node once that is split, `Collected` that so many
samples as it has taken, real or made up by that rank, are in each of its lists
until it pops them, and all of them in its averages afterwards, also if it ends with
success. Who prints a report has returned from all reductions, so by `CourseInv` all
others have come to theirs and did not fail before; so they have popped their
samples, and exactly one process of a node has rank 0 there.

Calls without faults. The placement and the command line fix the n-th call of every
communicator, whoever makes it (`OpAt`). `ScriptInv` says that every log is such a
script (`Scripted`), how long the one of the node is at each place (`InNode`), and what
exit code is set at the end of main (`Judged`). The next call of a process is then the
script's: how many it has made on each communicator follows from `CourseInv`. The
assumption that nothing fails is needed: a process that has run out of memory calls
`MPI_Finalize` where its peers call a reduction, which is what the code does and
`SuccessIsUnanimous` is about.

Messages. `TrafficInv` gives the n-th call on the ring and between workers as a
function of n, the placement and the rank (`RingCall`, `ExchangeCall`); the size
is that of the iteration n lies in, because the static counter of `get_msg_size`
moves by two in every iteration (`InStep`). Neighbours are inverse to each other
around a circle, so of a pair the i-th message sent and the i-th received are of one
iteration. Where a pair meets several times in an iteration (groups of one to six
workers) this needs that both sides count alike; the lemmas about positions on a
circle show it for groups of any size. Failures do not matter: a process that fails
makes no further call.

Steps run out. `StepsLeft` of a process is what its place in the code still has before
it (`StepsFrom`), less what it has done there: a call is entered and returned from, so
it counts two. `StepGoes` says what any step does: a process calls, comes back, works,
or gives up, and all others stay where they are. Each leaves it fewer steps, since the
places are ranked as the code goes through them (`Ladder`), a loop counts by what is
left of it, and a process that gives up is put nearer to its exit from wherever it was.
The invariant needed for that is `CourseInv`, with the bounds of `TypeInv`.

No deadlock. Without faults `ScriptInv` makes the n-th entry of every log that of all
other members, but does not say who is behind whom between different communicators.
The script of a job is one sequence for all processes, and the n-th MPI call any of
them makes is on the communicator, or by the message, `ContextAt(n)`, whoever makes it.
`PaceInv` adds that the length of each log of a process is the number of its first
`Entered(r)` calls that are of that kind (`Paced`), that a process in a call waits in
the one it has entered last (`InACall`), and who has told what when (`Tells`). Take
then, of the processes that have not exited, the one that has entered fewest calls
(`SomeoneIsBehind`). Nobody is behind it on any communicator or ring, so a collective
it is in has been entered by all its members, and a message it waits for has been sent
by the neighbour it expects it from, whose own partner in turn has come to the call that
receives: neighbours are inverse to each other, the lemma the messages rest on too. So
it can go on (`BehindCanGoOn`). When all have exited, `Tells` says that rank 0 has told
the outcome, and nobody anything else.

Colors. The invariant of the scan (`ScannedTo`) counts the starts of runs of
equal entries (`RunStarts`) up to the current entry and says that none of the
numbers before it is one's own. A color is then the number of runs that start up
to the first entry with one's number (`IsFirst`). First entries of two nodes
differ, and a run starts at the later one (`FirstsDiffer`), so colors differ:
no order of the entries is needed, which is why the comparison does no harm.

Reductions. `ReductionInv` says of each process what it has by where it is: so far the
sum, the least and the greatest of the samples popped, as long as the sum fits a word
(`Accumulates`), then no result with samples that do not fit (`Overflowed`) or the figures
of all of them (`Reduced`), then those of its node, then those of the job (`NodeInv`,
`GlobalInv`). Figures of a later stage are those of all samples below since the least of
least ones is the least of all (`LeastOfAll`), and fractions with one count k add up to
the sum of what they count over k (`SumOfFractions`). The average of the world counts each
node as often as it has processes: the sum over all processes of the sums of their nodes is
c times the sum of all if nodes have c processes (`CountedTwice`). This c cancels, for self
samples against the divisor of the node stage, for node samples against the number of
processes, which is c times that of the nodes. That is why nodes have to be even. Sums
over sets are folds of the community modules, which choose an order; that the choice does
not matter (`FoldsAgree`) and what a sum therefore is (`TotalRules`) is proved by
induction over the subsets of a finite set (`SubsetInduction`), with sets for predicates
and functions for operations, from the well-foundedness of inclusion.

Samples. The invariant of the store says, beside its types, how many samples each
list has for every `pc`, stage and `kind` (from which the order of `SampleLog` and
that no array has to grow), that a list that is reserved has room for all
samples of the job, and that the sample being filled is the `Raw` value of the
lines read so far, all of which were readable. Each step of the store that
appends is then a `Keep` whose witness is the file and the number of lines read.

The driver. A directory is in `dirs` before its driver locks it and only one
driver has made it: the invariant says that who is past `MakeDir` holds a name no
other holder has, and that logs and lock file there are its own. Sizes: what is
in `numpes` are the values of the function from the start index up to `x`, none
above the maximum, from which both ends of the series follow for a growing
function.

Settings. `SettingsInv` says that what has been set is what the options read so far
ask for (`AsRead`: the last one of each letter, cut to an int), that none of those
stops the reading (`Handled`), and what the later steps have made of it (`AsUsed`). The
widths are constants, so the powers of two have to be compared: 2^n is shown to be the
number of subsets of n elements, which grows and doubles with n. A product of two ints
is then in range of what it is compared with, and a rate of zero is refused since it
gives no samples.

Statistics. A reader changes nothing of the drivers, so the theorems about them
hold beside readers. What a driver leaves once it has died is not in their
invariant, and `LogsInv` adds it: a directory with logs belongs to one driver for
good, its logs are those of the sizes run, and all but the last are whole.
`CutInv` then follows a reader: the sizes it has still to read go up and are not
above the last it listed, the rows it has are of smaller ones, and whatever it
found cut was of the last. That the sort of the sizes is a sort needs that some
order of a finite set of sizes exists; the driver's own order is one
(`FilesSorted`). Names: what a reader has picked was not there when it began
(`Named`), and names do not change afterwards, since what they are made of is
fixed before. `TablesInv` is about series that were done when listed: their logs
do not change any more (`LogsInv`), all sections are good, and a reader of one has whole
rows of exactly the sizes it has been through (`DoneTabulated`). That the sizes listed
are in the driver's order is again a lemma: numbers of a finite set can be put in
ascending order in one way only, since a place is the number of those no greater.
What is in its file is its own as long as no other run has picked that name
(`TextIsOwn`).

The tracing library. The recursive functions of the model (`OnWorld`, `Totals`,
`displs`, `full_report_len`, `ReportFile!InOrder`) are shown to be what they say by
two lemmas about naturals, with sets for predicates (`Induction`) and functions
for recursive definitions (`Recursion`); both rest on the well-foundedness of <.
Collectives: what a rank has entered is a prefix of its `Course`, which is the same
for all ranks. To be kept by each step this needs what exactly it has entered at
each place (`Entered`): so many of the application's as it has made calls, and of
the tool's what its place says (`Made`). Charging: while all calls had wrappers
the differences add up to what the library holds, and the first sample of a call
is still the sum of all memory when it returns (`Charged`). The report: a rank
that has `tool_gatherv` in its log has its text (`Contributed`), so when rank 0
returns from that gather it has all of them; who is past `pinit` knows who it is,
so only rank 0 takes itself for the root (`OnlyRoot`); and texts at their
displacements leave no gap and cover no other (`ReportIsJoined`). The actions
`FillReport`, `Write` and `WriteFails` are then those of `ReportFile`, any step of an
application that does not call `MPI_Init` is its `Anything`, and all others stutter.

A traced job is not stuck either. `QuietInv` adds to the invariant of the report that
nobody fails in a job without faults, and that rank 0 has written the report when it is
through with it. All collectives are on one communicator and in the order of the
`Course`, so a rank that is not done and has entered no more of them than any other
waits for nobody (`BehindReturns`); one that is done has entered all. Steps: each place
of a rank is ranked (`StepsFrom`), and of a call that returns two are used up, which
pays for `pinit` once because no application calls `MPI_Init` twice.

Its reader. `WrittenInv` adds to the invariant of the report what is in the file of
an application that calls `MPI_Init`: the texts of the ranks in order (`WrittenWhole`).
Run information is at the first line of each text and nowhere else, so the i-th such
line, found by counting, is that of rank i - 1; the least of a sequence of numbers
has the index the script finds, by induction over its length.

What it adds up. `SampledInv` says that a rank has two samples of all memory and one
of MPI for each call that has returned, so its clock, which is long enough and never
goes back, gives a time for each. The lines of a rank's text are at its displacement,
between its run information and the next (`BlockIsText`), so the time series of rank r
is that of its own samples (`SeriesAreOwn`). The rest is about any series with times
that do not go back: the differences of one up to a time add up to its latest value
by then (`PastIsHeld`, by induction over the series); a sum over ranks of sums is
that of the sums (`TotalPlus`); between two moments that follow each other no rank
has a sample, so what the running total grows by is what the ranks' sums grow by
(`RunningTotals`, by induction over the moments). That the moments can be put in
order at all is again an induction, over the size of a finite set (`FiniteIsOrdered`).

The sampler. `SumOf` is a recursive function along a file; that such a function exists,
and its recurrence, come from those of the sums of a sequence (`SumExists`). The
invariant says in which entry the line to be read is: in a body the last header is
among the lines read, no other has come since, and `add` is what that header said. So
the header `HeaderOf` chooses for a line is the one at which the code decided
(`AddsHere`), and a line adds to the tally what it adds to the sum. That the line after
the last of an entry is a header is the assumption about files, and is used: without it
a header in the middle of an entry would go unnoticed.

Only model-checked: liveness (`JobEnds`, `SeriesEnds`, `ReportIsWritten`), which is
outside what TLAPS proves. Of `JobEnds` the two halves that are safety are proved:
until the job has ended some process can go on (`NoDeadlock`), and there is an end to
the steps it and the others can take (`JobRunsOut`). What is left to TLC is that a
process that can go on does, which is what fairness says, and that `CanGoOn` is when
the fair actions of `FairSpec` are enabled. The same holds of `ReportIsWritten`, with
`TracedNeverStuck` and `TracedRunsOut`, if `AppGrowth` and `LibGrowth` each have a value
that is not negative, as they have in the run.

## What is not modelled

- Branches on MPI error returns: no error handler is installed, so MPI aborts
  the job. `world_root_verify_smp_size` failing as `PPN_DIFFERS`
  (`mmu_mpi.c:445`) is one of them.
- What is printed, and `mmu_process_sample_dump`, which `main` compiles out.
- A disk that fills up while the report of memnesia is written: `fprintf` and
  `fclose` are not looked at (`memnesia-rt.cc:457`), so a report may then be cut
  while the tool says that it is written. `Memnesia!Write` writes all of it, and
  `ImplementsReport` is about that.
- `mpimemu-plot`, `memnesia-heat-plot`, the figures of `memnesia-report`, the scaling
  study and `which-mpi-calls.sh`: one sequential pass from text to a figure or to
  other text, without a state to get wrong.
- Test programs, environment scripts, build files.

## The plan

Done, in this order: the list and its stack; the runtime; the job; locality for
MPI 1 and 2; the reductions; type and safety proofs of these;
the driver and its proofs; settings; the sample store, its log and its proofs;
memnesia and its sampler; lists whose callers go on after a failure; the
statistics beside running drivers and their proofs; the report of memnesia as an
abstract file, its reader, and the proofs about both; that a job succeeds as a
whole, samples in step and closes in order, its report, its calls and its messages; the
proofs about settings, complete tables, the ranks named and the memory added up by the
report script, and what the sampler adds up; that a job, of its own or traced, is never
stuck and runs out of steps.

What is left to do:

- `Mpimemu` composed with `SampleStore` in place of its `TakeSample`, for one rank.
