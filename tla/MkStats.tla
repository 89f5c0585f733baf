------------------------------- MODULE MkStats -------------------------------
(***************************************************************************)
(* The script src/src/mpimemu-mkstats, run beside the drivers whose logs   *)
(* it reads: it lists a data directory, reads every log there four times,  *)
(* and writes a table of the nodes' memory and one of the processes' to    *)
(* its output directory.  Nothing keeps it from reading a series that is   *)
(* still running, nor two of it from writing to one directory.             *)
(*                                                                         *)
(* A log is four sections: the averages of the process and of the node     *)
(* before MPI_Init, then of both after it, in the order                    *)
(* mmu_process_process_usage prints them.  The driver's log is a buffered  *)
(* file, so while a job runs, what is on disk ends anywhere: level 2k is k *)
(* whole sections, level 2k - 1 is section k cut in the last of the lines  *)
(* a table takes a value from; lines that were cut earlier count as none.  *)
(*                                                                         *)
(* A Bug_ operator is the definition after it with a plausible slip; no    *)
(* specification uses it.  README.md says which property notices it.       *)
(***************************************************************************)
EXTENDS RunDriver, FiniteSets

CONSTANT Reader  \* the runs of mpimemu-mkstats, all with one output directory

VARIABLES
  level,   \* by directory, how much of its latest log is on disk
  reader,  \* the state of each reader
  tables,  \* the rows of every table in the output directory, by file name
  before   \* by reader, the tables there were and the drivers that were done
           \* when it listed its data (no part of the program)

readVars == <<reader, tables, before>>

allVars == <<vars, level, readVars>>

Kind == {"node", "proc"}

Section == [proc |-> [pre |-> 1, post |-> 3], node |-> [pre |-> 2, post |-> 4]]

Whole == 8

(* at: where in main it is; input: its data directory; files: the sizes    *)
(* still to read; range: $minpe and $maxpe; kind: the table it works for;  *)
(* pre: what it found of the section before MPI_Init; rows: the tables so  *)
(* far; index: the numbers in its files' names, -1 until they are picked.  *)
Started ==
  [at |-> "start", input |-> 0, files |-> << >>, range |-> << >>, kind |-> "node",
   pre |-> "none", rows |-> [k \in Kind |-> << >>], index |-> [k \in Kind |-> -1]]

MkInit ==
  /\ Init
  /\ level = [n \in Name |-> 0]
  /\ reader = [r \in Reader |-> Started]
  /\ tables = << >>
  /\ before = [r \in Reader |-> [tables |-> {}, done |-> {}]]

-----------------------------------------------------------------------------
(* A step of a driver: opening a log empties it, and the log of a job that *)
(* has succeeded is closed and complete.  A driver whose job has failed    *)
(* exits, which writes all lines the job has printed.                      *)
Levels(d) ==
  LET now == level[tried[d]] IN
    CASE pc[d] = "next" /\ pc'[d] = "run"  -> {0}
      [] pc[d] = "run"  /\ pc'[d] = "next" -> {Whole}
      [] pc[d] = "run"  /\ pc'[d] = "dead" -> {l \in now..Whole : l % 2 = 0}
      [] OTHER -> {now}

DriverStep(d) ==
  /\ Step(d)
  /\ \E l \in Levels(d) : level' = [level EXCEPT ![tried[d]] = l]
  /\ UNCHANGED readVars

(* More of a job's output reaches its log. *)
Printed(d) ==
  /\ pc[d] = "run"
  /\ level[tried[d]] < Whole
  /\ level' = [level EXCEPT ![tried[d]] = @ + 1]
  /\ UNCHANGED <<vars, readVars>>

-----------------------------------------------------------------------------
(* main of mpimemu-mkstats *)

(* The sizes that have a log, sorted.                                      *)
Ascending(s) == \A i, j \in DOMAIN s : i < j => s[i] < s[j]

Bug_DataFiles(n) ==
  CHOOSE s \in [1..Cardinality(DOMAIN logs[n]) -> DOMAIN logs[n]] :
    \A i, j \in DOMAIN s : i < j => s[i] > s[j]

DataFiles(n) ==
  CHOOSE s \in [1..Cardinality(DOMAIN logs[n]) -> DOMAIN logs[n]] : Ascending(s)

Become(r, state) ==
  /\ reader' = [reader EXCEPT ![r] = state]
  /\ UNCHANGED <<vars, level>>

List(r, n) ==
  /\ reader[r].at = "start"
  /\ n \in dirs /\ DOMAIN logs[n] # {}
  /\ Become(r, [Started EXCEPT !.at = "read", !.input = n, !.files = DataFiles(n),
                               !.range = <<DataFiles(n)[1], DataFiles(n)[Len(DataFiles(n))]>>])
  /\ before' = [before EXCEPT ![r] =
       [tables |-> DOMAIN tables, done |-> {d \in Driver : pc[d] = "done"}]]
  /\ UNCHANGED tables

(* No such directory, or no log in it. *)
NoData(r, n) ==
  /\ reader[r].at = "start"
  /\ n \notin dirs \/ DOMAIN logs[n] = {}
  /\ Become(r, [Started EXCEPT !.at = "dead"])
  /\ UNCHANGED <<tables, before>>

(* get_data_string: the averages of a section, unless a key is not there.  *)
OnDisk(n, size) == IF logs[n][size] = "whole" THEN Whole ELSE level[n]

DataString(n, size, section) ==
  LET l == OnDisk(n, size) IN
    CASE l >= 2 * section     -> "good"
      [] l = 2 * section - 1  -> "cut"
      [] l < 2 * section - 1  -> "missing"

Found(r, when) ==
  LET me == reader[r] IN
    DataString(me.input, Head(me.files), Section[me.kind][when])

ReadPre(r) ==
  /\ reader[r].at = "read"
  /\ reader[r].files # << >>
  /\ reader[r].pre = "none"
  /\ Become(r, [reader[r] EXCEPT !.pre = Found(r, "pre")])
  /\ UNCHANGED <<tables, before>>

(* The row a log gives a table: none if a section is missing in it.        *)
Row(size, pre, post) ==
  IF "missing" \in {pre, post} THEN << >>
  ELSE << [size |-> size, cut |-> "cut" \in {pre, post}] >>

Bug_ReadPost(r) ==
  LET me == reader[r]
      row == Row(Head(me.files), me.pre, Found(r, "post")) IN
  /\ me.at = "read"
  /\ me.files # << >>
  /\ me.pre # "none"
  /\ Become(r, [me EXCEPT !.pre = "none",
                          !.rows[me.kind] = IF row = << >> THEN @ ELSE row,
                          !.kind = IF @ = "node" THEN "proc" ELSE "node",
                          !.files = IF me.kind = "proc" THEN Tail(@) ELSE @])
  /\ UNCHANGED <<tables, before>>

(* After the second of two reads of a log for one table its row is added.  *)
(* The node table comes first; after the other the log is done with.       *)
ReadPost(r) ==
  LET me == reader[r]
      row == Row(Head(me.files), me.pre, Found(r, "post")) IN
  /\ me.at = "read"
  /\ me.files # << >>
  /\ me.pre # "none"
  /\ Become(r, [me EXCEPT !.pre = "none",
                          !.rows[me.kind] = @ \o row,
                          !.kind = IF @ = "node" THEN "proc" ELSE "node",
                          !.files = IF me.kind = "proc" THEN Tail(@) ELSE @])
  /\ UNCHANGED <<tables, before>>

(* The date in a name is that of the first log with a row in the node      *)
(* table.  If none has one it is undefined, and the name goes without.     *)
FileName(r, kind, index) ==
  [dated |-> reader[r].rows.node # << >>, range |-> reader[r].range,
   kind |-> kind, index |-> index]

(* get_filename: the first name no file has.                               *)
Bug_IsFreeName(r, i) == i = 0

IsFreeName(r, i) ==
  /\ FileName(r, reader[r].kind, i) \notin DOMAIN tables
  /\ \A j \in 0..(i - 1) : FileName(r, reader[r].kind, j) \in DOMAIN tables

PickName(r) ==
  LET me == reader[r] IN
  /\ \/ me.at = "read" /\ me.files = << >>
     \/ me.at = "pick"
  /\ \E i \in 0..Cardinality(Reader) :
       /\ IsFreeName(r, i)
       /\ Become(r, [me EXCEPT !.at = "open", !.index[me.kind] = i])
  /\ UNCHANGED <<tables, before>>

OwnName(r, kind) == FileName(r, kind, reader[r].index[kind])

WithText(name, text) ==
  [f \in DOMAIN tables \union {name} |-> IF f = name THEN text ELSE tables[f]]

(* The open makes the file, or empties one made since the name was picked. *)
OpenTable(r) ==
  LET me == reader[r] IN
  /\ me.at = "open"
  /\ tables' = WithText(OwnName(r, me.kind), << >>)
  /\ Become(r, [me EXCEPT !.at = IF me.kind = "node" THEN "pick" ELSE "close",
                          !.kind = IF @ = "node" THEN "proc" ELSE "node"])
  /\ UNCHANGED before

(* A table is shorter than a buffer and gets to its file when that is      *)
(* closed, over whatever another reader has put there.                     *)
Over(old, new) == new \o SubSeq(old, Len(new) + 1, Len(old))

CloseTable(r) ==
  LET me == reader[r]  name == OwnName(r, me.kind) IN
  /\ me.at = "close"
  /\ tables' = WithText(name, Over(tables[name], me.rows[me.kind]))
  /\ Become(r, [me EXCEPT !.at = IF me.kind = "node" THEN "close" ELSE "done",
                          !.kind = "proc"])
  /\ UNCHANGED before

Read(r) ==
  \/ \E n \in Name : List(r, n) \/ NoData(r, n)
  \/ ReadPre(r)
  \/ ReadPost(r)
  \/ PickName(r)
  \/ OpenTable(r)
  \/ CloseTable(r)

MkNext ==
  \/ \E d \in Driver : DriverStep(d) \/ Printed(d)
  \/ \E r \in Reader : Read(r)

MkSpec == MkInit /\ [][MkNext]_allVars

-----------------------------------------------------------------------------
(* What a table may show of a series that is still running, or that has    *)
(* failed: its rows go by growing size, and every row but that of the size *)
(* that was the latest when the directory was listed has whole values.  It *)
(* takes the order of the driver's runs (mpimemu-run:290), the sort of     *)
(* mkstats:258, and that mkstats reads the logs after it has listed them.  *)
OnlyLastRowMayBeCut ==
  \A r \in Reader, k \in Kind :
    LET rows == reader[r].rows[k] IN
      (\A d \in Driver : Growing(setup[d])) =>
        \A i \in DOMAIN rows :
          /\ i > 1 => rows[i - 1].size < rows[i].size
          /\ rows[i].cut => rows[i].size = reader[r].range[2]

(* "consolidates it into two CSV files" (mpimemu-mkstats:86): of a series  *)
(* that is done when its directory is listed, each table shows every size, *)
(* with whole values, and is named for its range and date -- provided that *)
(* no other mkstats has picked the same name at the same time.             *)
NameIsOwn(r) ==
  \A s \in Reader \ {r}, k \in Kind : OwnName(s, k) # OwnName(r, k)

SeriesTabulated ==
  \A r \in Reader : \A d \in before[r].done :
    (/\ reader[r].at = "done" /\ NameIsOwn(r)
     /\ tried[d] = reader[r].input /\ Growing(setup[d]))
    =>
    \A k \in Kind :
      LET name == OwnName(r, k) IN
        /\ tables[name] = [i \in DOMAIN numpes[d] |-> [size |-> numpes[d][i], cut |-> FALSE]]
        /\ name.dated
        /\ name.range = <<numpes[d][1], setup[d].max>>

(* A mkstats leaves alone every table there was when it listed its data:   *)
(* running it again adds tables and replaces none (get_filename).          *)
TablesKept ==
  [][\A r \in Reader : reader'[r] # reader[r] =>
       \A f \in before[r].tables : f \in DOMAIN tables' /\ tables'[f] = tables[f]]_allVars

=============================================================================
