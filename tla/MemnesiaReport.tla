--------------------------- MODULE MemnesiaReport ---------------------------
(***************************************************************************)
(* The script src/memnesia/utils/memnesia-report, given the file that the  *)
(* tracing library has left: it splits the file into the texts of the      *)
(* ranks, adds the memory of all of them up over time, and says which rank *)
(* took the least and the most.  It is one sequential pass, one action     *)
(* here.  The figures it draws of the result are left out.                 *)
(*                                                                         *)
(* A Bug_ operator is the definition after it with a plausible slip; no    *)
(* specification uses it.  README.md says which property notices it.       *)
(***************************************************************************)
EXTENDS Memnesia, SequencesExt

VARIABLE stats  \* what a run of the script came to: at is "none" before it,
                \* "raised" if it ended with an exception, "done" if it has
                \* results: agg, min and max

repVars == <<vars, stats>>

-----------------------------------------------------------------------------
(* Experiment.crunch *)

IsRunInfo(line) == line[1] = "RUN"

meta_lines(content) == {p \in DOMAIN content : IsRunInfo(content[p])}

meta_line(content, i) ==
  CHOOSE p \in meta_lines(content) : Cardinality({q \in meta_lines(content) : q <= p}) = i

run_meta(content) ==
  [i \in 1..Cardinality(meta_lines(content)) |-> content[meta_line(content, i)]]

(* The lines of the i-th text: from its run information to the next.       *)
Block(content, i) ==
  {p \in DOMAIN content :
     /\ meta_line(content, i) < p
     /\ i < Cardinality(meta_lines(content)) => p < meta_line(content, i + 1)}

InOrder(S) == [n \in 1..Cardinality(S) |-> CHOOSE t \in S : Cardinality({u \in S : u <= t}) = n]

(* A time series: pairs of a time and a value.                             *)
TimeSeries(content, i, key) ==
  LET lines == InOrder({p \in Block(content, i) : content[p][1] = key})
  IN  [n \in DOMAIN lines |-> <<content[lines[n]][2], content[lines[n]][3]>>]

(* Of two texts of one rank the later replaces the other.                  *)
rank_to_time_series(content, key) ==
  LET meta == run_meta(content)
      of(rk) == CHOOSE i \in DOMAIN meta :
                  meta[i][2] = rk /\ \A j \in DOMAIN meta : meta[j][2] = rk => j <= i
  IN  [rk \in {meta[i][2] : i \in DOMAIN meta} |-> TimeSeries(content, of(rk), key)]

(* TimeSeriesAccumulator *)

Bug_deltas(tva) ==
  [i \in 1..(Len(tva) - 1) |-> <<tva[i + 1][1], tva[i + 1][2] - tva[i][2]>>]

deltas(tva) ==
  [i \in DOMAIN tva |->
     IF i = 1 THEN tva[1] ELSE <<tva[i][1], tva[i][2] - tva[i - 1][2]>>]

Total(s) == IF s = << >> THEN 0 ELSE Totals(s)[Len(s)]

(* ut: by time, the sum of the deltas of all ranks at that time; the sums  *)
(* are then added up in the order of times.                                *)
accumulate(series) ==
  LET ranks == InOrder(DOMAIN series)
      delta_map == [i \in DOMAIN ranks |-> deltas(series[ranks[i]])]
      at(t, tva) == Total([j \in DOMAIN tva |-> IF tva[j][1] = t THEN tva[j][2] ELSE 0])
      ut(t) == Total([i \in DOMAIN ranks |-> at(t, delta_map[i])])
      times == InOrder(UNION {{delta_map[i][j][1] : j \in DOMAIN delta_map[i]} : i \in DOMAIN ranks})
      sums == Totals([n \in DOMAIN times |-> ut(times[n])])
  IN  [n \in DOMAIN times |-> <<times[n], sums[n]>>]

(* RunMetadata.emit_min_max_aves: "Who" is the first index, from 0, of the *)
(* least and of the greatest value.                                        *)
Bug_minidx(vals) == CHOOSE i \in DOMAIN vals : \A j \in DOMAIN vals : vals[i] <= vals[j]

minidx(vals) ==
  (CHOOSE i \in DOMAIN vals : /\ \A j \in DOMAIN vals : vals[i] <= vals[j]
                             /\ \A j \in 1..(i - 1) : vals[i] < vals[j]) - 1

maxidx(vals) == minidx([i \in DOMAIN vals |-> -vals[i]])

Column == [captures |-> 4, mpi |-> 5, all |-> 6]

Results(content) ==
  LET meta == run_meta(content)
      vals(c) == [i \in DOMAIN meta |-> meta[i][Column[c]]]
  IN  [at  |-> "done",
       agg |-> [key \in {"MPI_MEM_USAGE", "ALL_MEM_USAGE"} |->
                  accumulate(rank_to_time_series(content, key))],
       min |-> [c \in DOMAIN Column |-> minidx(vals(c))],
       max |-> [c \in DOMAIN Column |-> maxidx(vals(c))]]

(* The script is run on the report of a job that is over.                  *)
Readable(content) == content # << >> /\ \A p \in DOMAIN content : content[p] # Garbage

JobOver == \A r \in Rank : pc[r] \in {"done", "failed"}

Crunch ==
  /\ stats.at = "none" /\ JobOver /\ file.writers # {}
  /\ Readable(file.content)
  /\ stats' = Results(file.content)
  /\ UNCHANGED vars

(* A text without run information fails an assertion; of an empty file     *)
(* emit_stats wants the first text.                                        *)
Raise ==
  /\ stats.at = "none" /\ JobOver /\ file.writers # {}
  /\ ~Readable(file.content)
  /\ stats' = [at |-> "raised"]
  /\ UNCHANGED vars

RepNext ==
  \/ Next /\ UNCHANGED stats
  \/ Crunch
  \/ Raise

RepInit == Init /\ stats = [at |-> "none"]

RepSpec == RepInit /\ [][RepNext]_repVars

RepFairSpec == RepSpec /\ \A r \in Rank : WF_vars(Step(r))

-----------------------------------------------------------------------------
HasResults == stats.at = "done"

(* What rank r held by its own samples at time t: the value of the latest, *)
(* nothing before the first.                                               *)
Held(times, usage, t) ==
  LET past == {n \in 1..Len(usage) : times[n] <= t}
  IN  IF past = {} THEN 0 ELSE usage[Max(past)]

(* Where MPI_Init was called the aggregate is, at every time at which a    *)
(* sample of some rank was taken and at no other, the sum of what all      *)
(* ranks held then: though it is made of differences, merged by time, from *)
(* a file of all ranks' texts one after the other, of different lengths    *)
(* and with equal times.  Where it was not, a report may be left that can  *)
(* be read and has the samples of one rank (StrayReports).                 *)
Usage == [MPI_MEM_USAGE |-> [r \in Rank |-> [times |-> MpiTimes(r), usage |-> Totals(mpi[r])]],
          ALL_MEM_USAGE |-> [r \in Rank |-> [times |-> AllTimes(r), usage |-> all[r]]]]

AggregateIsSum ==
  HasResults /\ program.init = "MPI_Init" =>
    \A key \in DOMAIN Usage :
      LET agg == stats.agg[key]  of == Usage[key] IN
        /\ {agg[n][1] : n \in DOMAIN agg} =
             UNION {{of[r].times[n] : n \in 1..Len(of[r].usage)} : r \in Rank}
        /\ \A n \in DOMAIN agg :
             /\ n > 1 => agg[n - 1][1] < agg[n][1]
             /\ agg[n][2] = Total([i \in 1..N |-> Held(of[i - 1].times, of[i - 1].usage, agg[n][1])])

(* "Who" is a position in the file, and where MPI_Init was called it is    *)
(* the rank: the process named is one with the least, or the greatest,     *)
(* number of captures and watermarks of all (emit_min_max_aves and         *)
(* aggregate_data).                                                        *)
WhoIsRank ==
  HasResults /\ program.init = "MPI_Init" =>
    LET own == [captures |-> [r \in Rank |-> Len(all[r])],
                mpi      |-> [r \in Rank |-> High(Totals(mpi[r]))],
                all      |-> [r \in Rank |-> High(all[r])]]
    IN  \A c \in DOMAIN own :
          /\ stats.min[c] \in Rank /\ stats.max[c] \in Rank
          /\ \A r \in Rank : own[c][stats.min[c]] <= own[c][r]
                             /\ own[c][r] <= own[c][stats.max[c]]

=============================================================================
